----------------------- MODULE DialogueDispatchProofs -----------------------
(***************************************************************************)
(* What the dispatcher, the callers and the runtime keep of each other,    *)
(* and with it: a turn is sent once, a cancellation is neither lost nor    *)
(* overtaken, and the status, the pending count and the turns of a         *)
(* dialogue agree with its interactions, for every value of the constants. *)
(***************************************************************************)
EXTENDS DialogueLedgerProofs

-----------------------------------------------------------------------------
(* The inductive invariant, on top of TypeOK and StoreInv.                 *)

\* The runtime has drawn this session id: it cannot be drawn again.
Used(s) == s \in Sessions /\ sessions[s] # "unused"

\* The steps of a dispatcher that hold the id of a session.
WithSession == {"bindOld", "open", "check", "send"}

\* Every session id written down anywhere has been drawn, so a dispatcher that
\* binds a new session binds one that nothing refers to.
SessionsAreDrawn ==
    /\ dialogue.runtimeSessionId # NoSession => Used(dialogue.runtimeSessionId)
    /\ \A t \in Turns : RuntimeHas(t) => Used(runtimeTurns[t].session)
    /\ \A t \in Turns : dispatcher[t].pc \in WithSession =>
                            Used(dispatcher[t].session)
    /\ \A r \in Requests : interactions[r].status # "NONE" =>
                               Used(interactions[r].session)

\* A turn that was not sent has no dispatcher, one that has no dispatcher is
\* not with the runtime, one not with the runtime is in none of its sessions,
\* and one with the runtime is not sent again.
SentOnce ==
    /\ \A t \in Turns : turns[t].status = "NONE" => dispatcher[t].pc = "none"
    /\ \A t \in Turns : dispatcher[t].pc = "none" =>
                            runtimeTurns[t].state = "none"
    /\ \A t \in Turns : runtimeTurns[t].state = "none" =>
                            runtimeTurns[t].session = NoSession
    /\ NoBlindResend

\* Only a finished turn is CANCELLED, so a cancellation saved later does not
\* flag it, and a dispatcher that passed the check of the flag finds the turn
\* CANCELLED only when its session is no longer bound.
CancelledTurnsAreLeft ==
    \A t \in Turns : turns[t].status = "CANCELLED" =>
        /\ turns[t].dispatchState = "FINISHED"
        /\ dispatcher[t].pc = "send" /\ turns[t].cancelRequested =>
               ~Concerns(dispatcher[t].session)

\* A cancellation of a turn the runtime has was passed on, or is being passed
\* on by a caller that holds the session of the turn.
CancelIsOnItsWay ==
    \A t \in Turns :
        /\ turns[t].cancelRequested
        /\ dialogue.activeTurnId = t
        /\ dialogue.runtimeSessionId = runtimeTurns[t].session
        /\ RuntimeHas(t)
        /\ dispatcher[t].pc = "watch"
        => \/ runtimeTurns[t].cancelAsked
           \/ /\ canceller[t].pc = "calling"
              /\ canceller[t].session = runtimeTurns[t].session

\* A question of a turn is asked after the runtime has started it.
AskedAfterStart ==
    \A t \in Turns : OutstandingOf(t) # {} =>
                         runtimeTurns[t].state \in {"started", "ended"}

\* A dialogue given up counts nothing, and nothing of the session it may be
\* bound to since is outstanding.
GivenUpCountsNothing ==
    dialogue.status = "UNCERTAIN" =>
        /\ dialogue.pendingCount = 0
        /\ \A r \in Outstanding : ~Concerns(interactions[r].session)

\* A dialogue waits in a bound session only.
WaitsInSession ==
    dialogue.status = "WAITING" => dialogue.runtimeSessionId # NoSession

TasksInv ==
    /\ SessionsAreDrawn
    /\ SentOnce
    /\ CancelledTurnsAreLeft
    /\ CancelIsOnItsWay

AnswersInv ==
    /\ AskedAfterStart
    /\ TurnWaitsForAnswers

CountInv ==
    /\ PendingCountExact
    /\ GivenUpCountsNothing
    /\ StatusAgreesWithWork
    /\ WaitsInSession

-----------------------------------------------------------------------------
(* What a step does to one task, one turn of the runtime, one session.     *)

\* The two ways in which a dispatcher moves, read off for every turn.
LEMMA Moves ==
    ASSUME dispatcher \in [Turns -> Dispatcher], NEW t \in Turns, NEW pc
    PROVE  /\ AdvanceTo(t, pc) =>
                  /\ dispatcher'[t].pc = pc
                  /\ dispatcher'[t].session = dispatcher[t].session
                  /\ \A u \in Turns \ {t} : dispatcher'[u] = dispatcher[u]
           /\ LeaveAs(t, pc) =>
                  /\ dispatcher'[t].pc = pc
                  /\ \A u \in Turns \ {t} : dispatcher'[u] = dispatcher[u]
BY DEF AdvanceTo, LeaveAs, Dispatcher

\* The task of a turn is moved by the steps of that turn and by a crash.
LEMMA DispatcherStep ==
    ASSUME TypeOK, [Next]_vars, NEW t \in Turns
    PROVE  \/ dispatcher'[t] = dispatcher[t]
           \/ Send(t) \/ Dispatch(t) \/ ResultResolves(t) \/ ResultRejects(t)
           \/ Crash
<1>0. dispatcher \in [Turns -> Dispatcher]
    BY DEF TypeOK
<1>1. ASSUME NEW u \in Turns, u # t, NEW pc, AdvanceTo(u, pc) \/ LeaveAs(u, pc)
      PROVE  dispatcher'[t] = dispatcher[t]
    BY <1>0, <1>1, Moves
<1>2. ASSUME NEW u \in Turns, u # t, Dispatch(u)
      PROVE  dispatcher'[t] = dispatcher[t]
    <2>1. CASE ReadBinding(u) \/ BindNewRuntime(u)
        BY <1>0, <1>2, <2>1 DEF ReadBinding, BindNewRuntime
    <2>2. CASE \/ BeginDispatch(u) \/ CancelBeforeAdmission(u)
               \/ ReadCancelFlag(u)
        BY <1>1, <1>2, <2>2
        DEF BeginDispatch, CancelBeforeAdmission, ReadCancelFlag
    <2>3. CASE \/ BindExistingRuntime(u) \/ OpenResolves(u)
               \/ SendToRuntime(u) \/ CancelFromDispatcher(u)
               \/ DispatchFails(u) \/ PersistDispatchFailure(u)
               \/ PersistFailureLost(u)
        BY <1>1, <1>2, <2>3
        DEF BindExistingRuntime, OpenResolves, SendToRuntime,
            CancelFromDispatcher, DispatchFails, PersistDispatchFailure,
            PersistFailureLost
    <2>. QED
        BY <1>2, <2>1, <2>2, <2>3 DEF Dispatch
<1>3. ASSUME NEW u \in Turns, u # t,
             Send(u) \/ ResultResolves(u) \/ ResultRejects(u)
      PROVE  dispatcher'[t] = dispatcher[t]
    BY <1>1, <1>3 DEF Send, ResultResolves, ResultRejects
<1>4. CASE UNCHANGED dispatcher
    BY <1>4
<1>. QED
    BY <1>2, <1>3, <1>4
    DEF Next, vars, CancelTurn, CancelRuntimeTurn, TurnStarted, TurnCompleted,
        Respond, ResponseDelivered, ResponseFails, ResponseDeliveryFailed,
        InteractionResolved, InteractionRequested, SessionClosed,
        SessionVanishes, Reopen, Reconcile

\* A turn of the runtime is taken once, started once and ended once; asking to
\* cancel it changes nothing else of it.
LEMMA RuntimeTurnStep ==
    ASSUME TypeOK, SentOnce, [Next]_vars, NEW t \in Turns
    PROVE  \/ runtimeTurns'[t] = runtimeTurns[t]
           \/ /\ SendToRuntime(t)
              /\ runtimeTurns'[t].state = "accepted"
              /\ runtimeTurns'[t].session = dispatcher[t].session
           \/ /\ runtimeTurns[t].state = "accepted"
              /\ runtimeTurns'[t].state = "started"
              /\ runtimeTurns'[t].session = runtimeTurns[t].session
              /\ runtimeTurns'[t].cancelAsked = runtimeTurns[t].cancelAsked
           \/ /\ runtimeTurns'[t].state = runtimeTurns[t].state
              /\ runtimeTurns'[t].session = runtimeTurns[t].session
              /\ runtimeTurns'[t].cancelAsked = RuntimeHas(t)
           \/ runtimeTurns[t].state # "none" /\ runtimeTurns'[t] = Ended
<1>0. runtimeTurns \in [Turns -> RuntimeTurn]
    BY DEF TypeOK
<1>1. ASSUME NEW u \in Turns, SendToRuntime(u)
      PROVE  \/ runtimeTurns'[t] = runtimeTurns[t]
             \/ /\ SendToRuntime(t)
                /\ runtimeTurns'[t].state = "accepted"
                /\ runtimeTurns'[t].session = dispatcher[t].session
    <2>1. runtimeTurns' = [runtimeTurns EXCEPT ![u] =
              [state |-> "accepted", session |-> dispatcher[u].session,
               cancelAsked |-> FALSE]]
        BY <1>1 DEF SendToRuntime
    <2>. QED
        BY <1>0, <1>1, <2>1
<1>2. ASSUME NEW u \in Turns, TurnStarted(u)
      PROVE  \/ runtimeTurns'[t] = runtimeTurns[t]
             \/ /\ runtimeTurns[t].state = "accepted"
                /\ runtimeTurns'[t].state = "started"
                /\ runtimeTurns'[t].session = runtimeTurns[t].session
                /\ runtimeTurns'[t].cancelAsked = runtimeTurns[t].cancelAsked
    BY <1>0, <1>2 DEF TurnStarted, RuntimeTurn
<1>3. ASSUME NEW u \in Turns, AskToCancel(u)
      PROVE  \/ runtimeTurns'[t] = runtimeTurns[t]
             \/ /\ runtimeTurns'[t].state = runtimeTurns[t].state
                /\ runtimeTurns'[t].session = runtimeTurns[t].session
                /\ runtimeTurns'[t].cancelAsked = RuntimeHas(t)
    <2>. DEFINE has == RuntimeHas(u)
    <2>1. runtimeTurns' = [runtimeTurns EXCEPT ![u].cancelAsked = has]
        BY <1>3 DEF AskToCancel
    <2>2. u = t => has = RuntimeHas(t)
        OBVIOUS
    <2>. HIDE DEF has
    <2>. QED
        BY <1>0, <2>1, <2>2 DEF RuntimeTurn
<1>4. ASSUME NEW u \in Turns, TurnCompleted(u)
      PROVE  \/ runtimeTurns'[t] = runtimeTurns[t]
             \/ runtimeTurns[t].state # "none" /\ runtimeTurns'[t] = Ended
    BY <1>0, <1>4 DEF TurnCompleted, RuntimeHas
<1>5. ASSUME NEW s \in Sessions, EndSession(s)
      PROVE  \/ runtimeTurns'[t] = runtimeTurns[t]
             \/ runtimeTurns[t].state # "none" /\ runtimeTurns'[t] = Ended
    BY <1>0, <1>5, SessionsAssumption DEF EndSession, SentOnce
<1>6. CASE Crash
    BY <1>0, <1>6 DEF Crash
<1>7. CASE UNCHANGED runtimeTurns
    BY <1>7
<1>. QED
    BY <1>1, <1>2, <1>3, <1>4, <1>5, <1>6, <1>7
    DEF Next, Dispatch, vars, runtime, Send, BeginDispatch, ReadBinding,
        BindNewRuntime, BindExistingRuntime, OpenResolves,
        CancelBeforeAdmission, ReadCancelFlag, CancelFromDispatcher,
        DispatchFails, PersistDispatchFailure, PersistFailureLost,
        ResultResolves, ResultRejects, CancelTurn, CancelRuntimeTurn,
        Respond, ResponseDelivered, ResponseFails, ResponseDeliveryFailed,
        InteractionResolved, InteractionRequested, SessionClosed,
        SessionVanishes, Reopen, Reconcile

\* The id of a session, once drawn, stays drawn.
LEMMA DrawnStays ==
    ASSUME TypeOK, [Next]_vars, NEW s \in Sessions, Used(s)
    PROVE  Used(s)'
<1>. SUFFICES sessions[s] # "unused" => sessions'[s] # "unused"
    BY DEF Used
<1>0. sessions \in [Sessions -> {"unused", "opening", "open", "closed"}]
    BY DEF TypeOK
<1>1. ASSUME NEW z, z \in {"opening", "open", "closed"},
             \E x : sessions' = [sessions EXCEPT ![x] = z]
      PROVE  sessions[s] # "unused" => sessions'[s] # "unused"
    BY <1>0, <1>1
<1>2. ASSUME NEW x \in Sessions, EndSession(x)
      PROVE  sessions[s] # "unused" => sessions'[s] # "unused"
    BY <1>1, <1>2 DEF EndSession
<1>3. ASSUME NEW t \in Turns,
             BindNewRuntime(t) \/ OpenResolves(t)
      PROVE  sessions[s] # "unused" => sessions'[s] # "unused"
    BY <1>1, <1>3 DEF BindNewRuntime, OpenResolves
<1>4. ASSUME NEW t \in Turns, DispatchFails(t)
      PROVE  sessions[s] # "unused" => sessions'[s] # "unused"
    BY <1>1, <1>4 DEF DispatchFails
<1>5. CASE Crash
    BY <1>0, <1>5 DEF Crash
<1>6. CASE UNCHANGED sessions
    BY <1>6
<1>. QED
    BY <1>2, <1>3, <1>4, <1>5, <1>6
    DEF Next, Dispatch, vars, runtime, Send, BeginDispatch, ReadBinding,
        BindExistingRuntime, CancelBeforeAdmission, SendToRuntime,
        ReadCancelFlag, CancelFromDispatcher, PersistDispatchFailure,
        PersistFailureLost, ResultResolves, ResultRejects, CancelTurn,
        CancelRuntimeTurn, TurnStarted, TurnCompleted, Respond,
        ResponseDelivered, ResponseFails, ResponseDeliveryFailed,
        InteractionResolved, InteractionRequested, SessionClosed,
        SessionVanishes, Reopen, Reconcile

\* The dialogue keeps its session, gives it up, or is bound to one drawn in
\* this very step; never back to an earlier one.
LEMMA BindingStep ==
    ASSUME TypeOK, [Next]_vars
    PROVE  \/ dialogue'.runtimeSessionId = dialogue.runtimeSessionId
           \/ dialogue'.runtimeSessionId = NoSession
           \/ /\ ~Used(dialogue'.runtimeSessionId)
              /\ Used(dialogue.runtimeSessionId)'
<1>. DEFINE Goal == \/ dialogue'.runtimeSessionId = dialogue.runtimeSessionId
                    \/ dialogue'.runtimeSessionId = NoSession
                    \/ /\ ~Used(dialogue'.runtimeSessionId)
                       /\ Used(dialogue.runtimeSessionId)'
<1>0. dialogue \in DialogueRow
    BY DEF TypeOK
<1>1. CASE UNCHANGED store
    BY <1>1 DEF store
<1>2. ASSUME NEW t \in Turns, NEW matches, NEW outcome,
             InterruptTurn(t, matches, outcome)
      PROVE  Goal
    BY <1>1, <1>2 DEF InterruptTurn, FinishInterrupted
<1>3. ASSUME NEW t \in Turns, BindNewRuntime(t)
      PROVE  Goal
    <2>1. PICK s \in Sessions :
              /\ sessions[s] = "unused"
              /\ sessions' = [sessions EXCEPT ![s] = "opening"]
              /\ dialogue' = [dialogue EXCEPT !.runtimeSessionId = s]
        BY <1>3 DEF BindNewRuntime
    <2>2. dialogue'.runtimeSessionId = s
        BY <1>0, <2>1 DEF DialogueRow
    <2>3. sessions'[s] = "opening"
        BY <2>1 DEF TypeOK
    <2>. QED
        BY <2>1, <2>2, <2>3 DEF Used
<1>4. ASSUME NEW status, NEW count, NEW active,
             dialogue' = [dialogue EXCEPT !.status = status,
                                          !.activeTurnId = active,
                                          !.pendingCount = count]
      PROVE  Goal
    BY <1>0, <1>4 DEF DialogueRow
<1>5. ASSUME NEW t \in Turns, TurnStarted(t) \/ TurnCompleted(t) \/ Send(t)
      PROVE  Goal
    <2>1. CASE Send(t)
        BY <1>0, <2>1 DEF Send, DialogueRow
    <2>2. CASE TurnStarted(t)
        BY <1>0, <1>1, <2>2 DEF TurnStarted, DialogueRow
    <2>3. CASE TurnCompleted(t)
        BY <1>1, <1>4, <2>3 DEF TurnCompleted, CompleteTurn
    <2>. QED
        BY <1>5, <2>1, <2>2, <2>3
<1>6. ASSUME NEW r \in Requests, ResponseDeliveryFailed(r)
      PROVE  Goal
    <2>1. CASE responder[r].affected # NoTurn
        BY <1>1, <1>2, <1>6, <2>1
        DEF ResponseDeliveryFailed, TypeOK, Responder
    <2>2. CASE responder[r].affected = NoTurn
        BY <1>0, <1>1, <1>6, <2>2 DEF ResponseDeliveryFailed, DialogueRow
    <2>. QED
        BY <2>1, <2>2
<1>7. ASSUME NEW r \in Requests, InteractionResolved(r)
      PROVE  Goal
    <2>. DEFINE status == StatusAfterInteraction(Outstanding \ {r})
                count  == Cardinality(Outstanding \ {r})
    <2>1. dialogue' = [dialogue EXCEPT !.status = status,
                                       !.pendingCount = count]
        BY <1>7 DEF InteractionResolved
    <2>. HIDE DEF status, count
    <2>. QED
        BY <1>0, <2>1 DEF DialogueRow
<1>8. ASSUME NEW r \in Requests, NEW s \in Sessions, NEW t \in Turns \cup {NoTurn},
             InteractionRequested(r, s, t)
      PROVE  Goal
    <2>. DEFINE count == dialogue.pendingCount + 1
    <2>1. dialogue' = [dialogue EXCEPT !.status = "WAITING",
                                       !.pendingCount = count]
        BY <1>8 DEF InteractionRequested
    <2>. HIDE DEF count
    <2>. QED
        BY <1>0, <2>1 DEF DialogueRow
<1>9. ASSUME NEW s \in Sessions, SessionClosed(s)
      PROVE  Goal
    <2>1. CASE CloseIdleSession
        BY <1>0, <2>1 DEF CloseIdleSession, DialogueRow
    <2>2. ASSUME NEW t, NEW outcome, CloseActiveSession(t, outcome)
          PROVE  Goal
        BY <2>2 DEF CloseActiveSession
    <2>. QED
        BY <1>1, <1>9, <2>1, <2>2 DEF SessionClosed
<1>10. CASE Reopen
    BY <1>10 DEF Reopen
<1>11. CASE Reconcile
    <2>1. CASE DetachIdleRuntime
        BY <1>0, <2>1 DEF DetachIdleRuntime, DialogueRow
    <2>2. CASE dialogue.activeTurnId # NoTurn
               /\ InterruptTurn(dialogue.activeTurnId, TRUE, "UNCERTAIN")
        BY <1>0, <1>2, <2>2 DEF DialogueRow
    <2>. QED
        BY <1>1, <1>11, <2>1, <2>2 DEF Reconcile
<1>12. ASSUME NEW t \in Turns,
              \/ BeginDispatch(t) \/ CancelBeforeAdmission(t)
              \/ PersistDispatchFailure(t)
       PROVE  Goal
    BY <1>1, <1>2, <1>12
    DEF BeginDispatch, CancelBeforeAdmission, PersistDispatchFailure
<1>. QED
    BY <1>1, <1>3, <1>5, <1>6, <1>7, <1>8, <1>9, <1>10, <1>11, <1>12
    DEF Next, Dispatch, vars, store, ReadBinding, BindExistingRuntime,
        OpenResolves, SendToRuntime, ReadCancelFlag, CancelFromDispatcher,
        DispatchFails, PersistFailureLost, ResultResolves, ResultRejects,
        CancelTurn, CancelRuntimeTurn, Respond, ResponseDelivered,
        ResponseFails, SessionVanishes, Crash

\* An interaction is of the turn and the session it was requested in.
LEMMA QuestionStep ==
    ASSUME TypeOK, [Next]_vars, NEW r \in Requests
    PROVE  \/ /\ interactions'[r].session = interactions[r].session
              /\ interactions'[r].turnId = interactions[r].turnId
              /\ interactions[r].status = "NONE" =>
                     interactions'[r].status = "NONE"
              /\ r \in Outstanding' => r \in Outstanding
           \/ /\ interactions'[r].session \in Sessions
              /\ Live(interactions'[r].session)
              /\ interactions'[r].turnId # NoTurn =>
                     runtimeTurns[interactions'[r].turnId].state = "started"
<1>. DEFINE Goal ==
       \/ /\ interactions'[r].session = interactions[r].session
          /\ interactions'[r].turnId = interactions[r].turnId
          /\ interactions[r].status = "NONE" => interactions'[r].status = "NONE"
          /\ r \in Outstanding' => r \in Outstanding
       \/ /\ interactions'[r].session \in Sessions
          /\ Live(interactions'[r].session)
          /\ interactions'[r].turnId # NoTurn =>
                 runtimeTurns[interactions'[r].turnId].state = "started"
<1>0. interactions \in [Requests -> InteractionRow]
    BY DEF TypeOK
<1>1. CASE UNCHANGED interactions
    BY <1>1 DEF Outstanding, OutstandingIn
<1>2. ASSUME NEW scope, AbandonInteractions(scope)
      PROVE  Goal
    BY <1>0, <1>2
    DEF AbandonInteractions, Outstanding, OutstandingIn, InteractionRow
<1>3. ASSUME NEW t \in Turns, NEW matches, NEW outcome,
             InterruptTurn(t, matches, outcome)
      PROVE  Goal
    BY <1>1, <1>2, <1>3 DEF InterruptTurn, FinishInterrupted, store
<1>4. ASSUME NEW t \in Turns,
             \/ BeginDispatch(t) \/ CancelBeforeAdmission(t)
             \/ PersistDispatchFailure(t)
      PROVE  Goal
    BY <1>1, <1>3, <1>4
    DEF BeginDispatch, CancelBeforeAdmission, PersistDispatchFailure, store
<1>5. ASSUME NEW t \in Turns, TurnStarted(t) \/ TurnCompleted(t)
      PROVE  Goal
    BY <1>1, <1>2, <1>5 DEF TurnStarted, TurnCompleted, CompleteTurn, store
<1>6. ASSUME NEW q \in Requests, Respond(q) \/ InteractionResolved(q)
      PROVE  Goal
    BY <1>0, <1>6 DEF Respond, InteractionResolved, InteractionRow,
                      Outstanding, OutstandingIn
<1>7. ASSUME NEW q \in Requests, ResponseDeliveryFailed(q)
      PROVE  Goal
    <2>1. CASE responder[q].affected # NoTurn
        BY <1>1, <1>3, <1>7, <2>1
        DEF ResponseDeliveryFailed, TypeOK, Responder
    <2>2. CASE responder[q].affected = NoTurn
        BY <1>1, <1>2, <1>7, <2>2 DEF ResponseDeliveryFailed, store
    <2>. QED
        BY <2>1, <2>2
<1>8. ASSUME NEW q \in Requests, NEW s \in Sessions,
             NEW t \in Turns \cup {NoTurn}, InteractionRequested(q, s, t)
      PROVE  Goal
    BY <1>0, <1>8 DEF InteractionRequested, Askable, InteractionRow,
                      Outstanding, OutstandingIn
<1>9. CASE Reopen \/ Reconcile \/ \E s \in Sessions : SessionClosed(s)
    <2>1. ASSUME dialogue.activeTurnId # NoTurn,
                 InterruptTurn(dialogue.activeTurnId, TRUE, "UNCERTAIN")
          PROVE  Goal
        BY <1>3, <2>1 DEF TypeOK, DialogueRow
    <2>. QED
        BY <1>1, <1>2, <1>9, <2>1
        DEF Reopen, Reconcile, DetachIdleRuntime, SessionClosed,
            CloseIdleSession, CloseActiveSession, store
<1>. QED
    BY <1>1, <1>4, <1>5, <1>6, <1>7, <1>8, <1>9
    DEF Next, Dispatch, vars, store, Send, ReadBinding, BindNewRuntime,
        BindExistingRuntime, OpenResolves, SendToRuntime, ReadCancelFlag,
        CancelFromDispatcher, DispatchFails, PersistFailureLost,
        ResultResolves, ResultRejects, CancelTurn, CancelRuntimeTurn,
        ResponseDelivered, ResponseFails, SessionVanishes, Crash

\* The part of SessionsAreDrawn that is about the dispatchers.
LEMMA DispatcherSessions ==
    ASSUME TypeOK, SessionsAreDrawn, [Next]_vars, NEW t \in Turns,
           dispatcher'[t].pc \in WithSession
    PROVE  Used(dispatcher[t].session)'
<1>0. dispatcher \in [Turns -> Dispatcher]
    BY DEF TypeOK
<1>1. ASSUME Used(dispatcher[t].session),
             dispatcher'[t].session = dispatcher[t].session
      PROVE  Used(dispatcher[t].session)'
    BY <1>1, DrawnStays DEF Used
<1>2. CASE dispatcher'[t] = dispatcher[t]
    BY <1>1, <1>2 DEF SessionsAreDrawn
<1>3. CASE ReadBinding(t)
    <2>1. dispatcher'[t] = [pc |-> IF dialogue.runtimeSessionId = NoSession
                                   THEN "bindNew" ELSE "bindOld",
                            session |-> dialogue.runtimeSessionId]
        BY <1>0, <1>3 DEF ReadBinding
    <2>2. Used(dialogue.runtimeSessionId)
        BY <2>1 DEF WithSession, SessionsAreDrawn
    <2>. QED
        BY <2>1, <2>2, DrawnStays DEF Used
<1>4. CASE BindNewRuntime(t)
    <2>1. PICK s \in Sessions :
              /\ sessions' = [sessions EXCEPT ![s] = "opening"]
              /\ dispatcher' = [dispatcher EXCEPT ![t] = [pc |-> "open",
                                                          session |-> s]]
        BY <1>4 DEF BindNewRuntime
    <2>. QED
        BY <1>0, <2>1 DEF Used, TypeOK
<1>5. CASE \/ BindExistingRuntime(t) \/ OpenResolves(t)
           \/ CancelBeforeAdmission(t)
    <2>1. \E pc : /\ AdvanceTo(t, pc) \/ LeaveAs(t, pc)
                  /\ pc = "done" \/ AdvanceTo(t, pc)
        BY <1>5 DEF BindExistingRuntime, OpenResolves, CancelBeforeAdmission
    <2>2. dispatcher'[t].session = dispatcher[t].session
        BY <1>0, <2>1, Moves DEF WithSession
    <2>3. dispatcher[t].pc \in WithSession
        BY <1>5 DEF BindExistingRuntime, OpenResolves, CancelBeforeAdmission,
                    WithSession
    <2>. QED
        BY <1>1, <2>2, <2>3 DEF SessionsAreDrawn
<1>6. CASE \/ BeginDispatch(t) \/ SendToRuntime(t) \/ ReadCancelFlag(t)
           \/ CancelFromDispatcher(t) \/ DispatchFails(t)
           \/ PersistDispatchFailure(t) \/ PersistFailureLost(t)
           \/ Send(t) \/ ResultResolves(t) \/ ResultRejects(t)
    <2>1. \E pc \in DispatcherPC \ WithSession :
              AdvanceTo(t, pc) \/ LeaveAs(t, pc)
        BY <1>6
        DEF BeginDispatch, SendToRuntime, ReadCancelFlag, CancelFromDispatcher,
            DispatchFails, PersistDispatchFailure, PersistFailureLost, Send,
            ResultResolves, ResultRejects, DispatcherPC, WithSession
    <2>. QED
        BY <1>0, <2>1, Moves
<1>7. CASE Crash
    BY <1>0, <1>7 DEF Crash, WithSession
<1>. QED
    BY <1>2, <1>3, <1>4, <1>5, <1>6, <1>7, DispatcherStep DEF Dispatch

LEMMA SessionsStep ==
    ASSUME TypeOK, SentOnce, SessionsAreDrawn, [Next]_vars
    PROVE  SessionsAreDrawn'
<1>1. dialogue'.runtimeSessionId # NoSession =>
          Used(dialogue.runtimeSessionId)'
    <2>1. CASE dialogue'.runtimeSessionId = dialogue.runtimeSessionId
        BY <2>1, DrawnStays DEF SessionsAreDrawn, Used
    <2>. QED
        BY <2>1, BindingStep
<1>2. ASSUME NEW t \in Turns, RuntimeHas(t)'
      PROVE  Used(runtimeTurns[t].session)'
    <2>1. CASE SendToRuntime(t)
               /\ runtimeTurns'[t].session = dispatcher[t].session
        <3>1. Used(dispatcher[t].session)
            BY <2>1 DEF SendToRuntime, SessionsAreDrawn, WithSession
        <3>. QED
            BY <2>1, <3>1, DrawnStays DEF Used
    <2>2. CASE RuntimeHas(t)
               /\ runtimeTurns'[t].session = runtimeTurns[t].session
        <3>1. Used(runtimeTurns[t].session)
            BY <2>2 DEF SessionsAreDrawn
        <3>. QED
            BY <2>2, <3>1, DrawnStays DEF Used
    <2>. QED
        BY <1>2, <2>1, <2>2, RuntimeTurnStep DEF RuntimeHas, Ended
<1>3. ASSUME NEW t \in Turns, dispatcher'[t].pc \in WithSession
      PROVE  Used(dispatcher[t].session)'
    BY <1>3, DispatcherSessions
<1>4. ASSUME NEW r \in Requests, interactions'[r].status # "NONE"
      PROVE  Used(interactions[r].session)'
    <2>1. CASE Used(interactions[r].session)
               /\ interactions'[r].session = interactions[r].session
        BY <2>1, DrawnStays DEF Used
    <2>2. CASE /\ interactions'[r].session \in Sessions
               /\ Live(interactions'[r].session)
        <3>1. Used(interactions'[r].session)
            BY <2>2 DEF Live, Used
        <3>. QED
            BY <2>2, <3>1, DrawnStays DEF Used
    <2>. QED
        BY <1>4, <2>1, <2>2, QuestionStep DEF SessionsAreDrawn
<1>. QED
    BY <1>1, <1>2, <1>3, <1>4 DEF SessionsAreDrawn

-----------------------------------------------------------------------------
(* What a step does to the row of one turn.                                *)

\* The turn is settled: by its session or by Core, which leaves no session
\* bound, or by the runtime that has it.
RowSettled(t) ==
    /\ dialogue.activeTurnId = t
    /\ dialogue'.activeTurnId = NoTurn
    /\ turns'[t].status \in Outcomes
    /\ turns'[t].status = "CANCELLED" => turns'[t].dispatchState = "FINISHED"
    /\ turns'[t].cancelRequested = turns[t].cancelRequested
    /\ dialogue'.runtimeSessionId = NoSession \/ RuntimeHas(t)

\* The turn goes on, or is sent or taken up by its dispatcher.
RowGoesOn(t) ==
    /\ turns'[t].cancelRequested = turns[t].cancelRequested
    /\ \/ /\ dialogue.activeTurnId = t
          /\ turns'[t].status \in {"RUNNING", "WAITING"}
       \/ /\ Send(t)
          /\ turns'[t].status = "QUEUED"
       \/ /\ turns[t].dispatchState = "SAVED"
          /\ turns'[t].dispatchState = "DISPATCHING"
          /\ turns'[t].status = turns[t].status

\* The cancellation of the turn is saved.
RowFlagged(t) ==
    /\ CancelTurn(t)
    /\ turns'[t].status = turns[t].status
    /\ turns'[t].dispatchState = turns[t].dispatchState
    /\ turns'[t].cancelRequested =
           (turns[t].cancelRequested \/ turns[t].dispatchState # "FINISHED")

RowStep(t) ==
    turns'[t] = turns[t] \/ RowSettled(t) \/ RowGoesOn(t) \/ RowFlagged(t)

LEMMA InterruptRow ==
    ASSUME TypeOK, NEW t \in Turns, NEW u \in Turns, NEW matches,
           NEW outcome \in Outcomes, InterruptTurn(u, matches, outcome)
    PROVE  RowStep(t)
<1>. DEFINE state == IF outcome = "UNCERTAIN" THEN "UNCERTAIN" ELSE "FINISHED"
<1>1. CASE FinishInterrupted(u, outcome) /\ Interruptible(u)
    <2>1. turns' = [turns EXCEPT ![u].status = outcome,
                                 ![u].dispatchState = state]
        BY <1>1 DEF FinishInterrupted
    <2>2. /\ dialogue.activeTurnId = u
          /\ dialogue'.activeTurnId = NoTurn
          /\ dialogue'.runtimeSessionId = NoSession
        BY <1>1 DEF FinishInterrupted, Interruptible
    <2>3. outcome = "CANCELLED" => state = "FINISHED"
        OBVIOUS
    <2>. HIDE DEF state
    <2>4. CASE u = t
        <3>1. /\ turns'[t].status = outcome /\ turns'[t].dispatchState = state
              /\ turns'[t].cancelRequested = turns[t].cancelRequested
            BY <2>1, <2>4 DEF TypeOK, TurnRow
        <3>. QED
            BY <2>2, <2>3, <2>4, <3>1 DEF RowStep, RowSettled
    <2>5. CASE u # t
        BY <2>1, <2>5 DEF RowStep, TypeOK
    <2>. QED
        BY <2>4, <2>5
<1>. QED
    BY <1>1 DEF InterruptTurn, RowStep, store

LEMMA TurnRowStep ==
    ASSUME TypeOK, StoreInv, [Next]_vars, NEW t \in Turns
    PROVE  RowStep(t)
<1>0. turns \in [Turns -> TurnRow]
    BY DEF TypeOK
<1>1. CASE UNCHANGED turns
    BY <1>1 DEF RowStep
<1>2. ASSUME NEW u \in Turns,
             \/ BeginDispatch(u) \/ CancelBeforeAdmission(u)
             \/ PersistDispatchFailure(u)
      PROVE  RowStep(t)
    <2>1. DispatchFailureOutcome(u) \in Outcomes /\ "CANCELLED" \in Outcomes
        BY DEF DispatchFailureOutcome, Outcomes
    <2>2. CASE /\ turns[u].dispatchState = "SAVED"
               /\ turns' = [turns EXCEPT ![u].dispatchState = "DISPATCHING"]
        BY <1>0, <2>2 DEF RowStep, RowGoesOn, TurnRow
    <2>. QED
        BY <1>1, <1>2, <2>1, <2>2, InterruptRow
        DEF BeginDispatch, CancelBeforeAdmission, PersistDispatchFailure, store
<1>3. ASSUME NEW u \in Turns, Send(u)
      PROVE  RowStep(t)
    BY <1>0, <1>3 DEF Send, RowStep, RowGoesOn, TurnRow
<1>4. ASSUME NEW u \in Turns, CancelTurn(u)
      PROVE  RowStep(t)
    <2>. DEFINE flag == turns[u].cancelRequested
                          \/ turns[u].dispatchState # "FINISHED"
    <2>1. turns' = [turns EXCEPT ![u].cancelRequested = flag]
        BY <1>4 DEF CancelTurn
    <2>2. CASE u = t
        <3>1. /\ turns'[t].status = turns[t].status
              /\ turns'[t].dispatchState = turns[t].dispatchState
              /\ turns'[t].cancelRequested = flag
            <4>. HIDE DEF flag
            <4>. QED
                BY <1>0, <2>1, <2>2 DEF TurnRow
        <3>. QED
            BY <1>4, <2>2, <3>1, Zenon DEF RowStep, RowFlagged
    <2>3. CASE u # t
        <3>. HIDE DEF flag
        <3>. QED
            BY <1>0, <2>1, <2>3 DEF RowStep
    <2>. QED
        BY <2>2, <2>3
<1>5. ASSUME NEW u \in Turns, TurnStarted(u)
      PROVE  RowStep(t)
    BY <1>0, <1>1, <1>5
    DEF TurnStarted, ConcernsTurn, RowStep, RowGoesOn, TurnRow, store
<1>6. ASSUME NEW u \in Turns, TurnCompleted(u)
      PROVE  RowStep(t)
    <2>1. ASSUME NEW o \in RuntimeOutcomes, ConcernsTurn(u), CompleteTurn(u, o)
          PROVE  RowStep(t)
        <3>. DEFINE outcome == TurnOutcome(o)
        <3>1. outcome \in Outcomes
            BY DEF TurnOutcome, Outcomes
        <3>2. turns' = [turns EXCEPT ![u].status = outcome,
                                     ![u].dispatchState = "FINISHED"]
            BY <2>1 DEF CompleteTurn
        <3>3. dialogue'.activeTurnId = NoTurn
            BY <2>1 DEF CompleteTurn, TypeOK, DialogueRow
        <3>4. dialogue.activeTurnId = u /\ RuntimeHas(u)
            BY <1>6, <2>1 DEF ConcernsTurn, TurnCompleted
        <3>. HIDE DEF outcome
        <3>. QED
            BY <1>0, <3>1, <3>2, <3>3, <3>4 DEF RowStep, RowSettled, TurnRow
    <2>. QED
        BY <1>1, <1>6, <2>1 DEF TurnCompleted, store
<1>7. ASSUME NEW status \in {"RUNNING", "WAITING"}, NEW u \in Turns,
             dialogue.activeTurnId = u,
             turns' = [turns EXCEPT ![u].status = status]
      PROVE  RowStep(t)
    BY <1>0, <1>7 DEF RowStep, RowGoesOn, TurnRow
<1>8. ASSUME NEW r \in Requests, NEW s \in Sessions,
             NEW u \in Turns \cup {NoTurn}, InteractionRequested(r, s, u)
      PROVE  RowStep(t)
    BY <1>1, <1>7, <1>8 DEF InteractionRequested
<1>9. ASSUME NEW r \in Requests, InteractionResolved(r)
      PROVE  RowStep(t)
    <2>. DEFINE u     == interactions[r].turnId
                after == TurnStatusAfterInteraction(u, r)
    <2>1. after \in {"RUNNING", "WAITING"}
        BY DEF TurnStatusAfterInteraction
    <2>2. u # NoTurn => u = dialogue.activeTurnId /\ u \in Turns
        BY <1>9 DEF InteractionResolved, StoreInv, QuestionsAreOfActiveTurn,
                    Outstanding, OutstandingIn, TypeOK, InteractionRow
    <2>3. UNCHANGED turns \/ (u # NoTurn
                              /\ turns' = [turns EXCEPT ![u].status = after])
        BY <1>9 DEF InteractionResolved
    <2>. HIDE DEF after
    <2>. QED
        BY <1>1, <1>7, <2>1, <2>2, <2>3
<1>10. ASSUME NEW s \in Sessions, SessionClosed(s)
       PROVE  RowStep(t)
    <2>. DEFINE u == dialogue.activeTurnId
    <2>1. ASSUME NEW outcome \in {"CANCELLED", "FAILED"},
                 u # NoTurn, CloseActiveSession(u, outcome)
          PROVE  RowStep(t)
        <3>1. u \in Turns
            BY <2>1 DEF TypeOK, DialogueRow
        <3>2. turns[u].dispatchState # "FINISHED"
            BY <3>1 DEF StoreInv, ActiveTurnIsTheUnsettledOne, Unsettled
        <3>3. /\ turns' = [turns EXCEPT ![u].status = outcome,
                                        ![u].dispatchState = "FINISHED"]
              /\ dialogue'.activeTurnId = NoTurn
              /\ dialogue'.runtimeSessionId = NoSession
            BY <2>1, <3>2 DEF CloseActiveSession
        <3>4. outcome \in Outcomes
            BY DEF Outcomes
        <3>. QED
            BY <1>0, <3>1, <3>3, <3>4 DEF RowStep, RowSettled, TurnRow
    <2>. QED
        BY <1>1, <1>10, <2>1 DEF SessionClosed, CloseIdleSession, store
<1>11. ASSUME NEW r \in Requests, ResponseDeliveryFailed(r)
       PROVE  RowStep(t)
    <2>1. "UNCERTAIN" \in Outcomes
        BY DEF Outcomes
    <2>. QED
        BY <1>1, <1>11, <2>1, InterruptRow
        DEF ResponseDeliveryFailed, TypeOK, Responder, store
<1>12. CASE Reconcile
    <2>1. "UNCERTAIN" \in Outcomes
        BY DEF Outcomes
    <2>2. dialogue.activeTurnId # NoTurn => dialogue.activeTurnId \in Turns
        BY DEF TypeOK, DialogueRow
    <2>. QED
        BY <1>1, <1>12, <2>1, <2>2, InterruptRow
        DEF Reconcile, DetachIdleRuntime, store
<1>. QED
    BY <1>1, <1>2, <1>3, <1>4, <1>5, <1>6, <1>8, <1>9, <1>10, <1>11, <1>12
    DEF Next, Dispatch, vars, store, ReadBinding, BindNewRuntime,
        BindExistingRuntime, OpenResolves, SendToRuntime, ReadCancelFlag,
        CancelFromDispatcher, DispatchFails, PersistFailureLost,
        ResultResolves, ResultRejects, CancelRuntimeTurn, Respond,
        ResponseDelivered, ResponseFails, SessionVanishes, Reopen, Crash

-----------------------------------------------------------------------------
(* A turn is sent once; its cancellation is neither lost nor overtaken.    *)

\* Where the task of a turn can be after a step, with the facts about the turn
\* that the step read on the way.
LEMMA DispatcherMoves ==
    ASSUME TypeOK, [Next]_vars, NEW t \in Turns
    PROVE  \/ dispatcher'[t] = dispatcher[t]
           \/ dispatcher[t].pc = "none" /\ dispatcher'[t].pc = "none"
           \/ /\ turns[t].status = "NONE"
              /\ Send(t)
              /\ dispatcher'[t].pc = "begin"
           \/ /\ dispatcher[t].pc \in {"begin", "read", "bindNew", "bindOld",
                                       "open"}
              /\ dispatcher'[t].pc \in {"read", "bindNew", "bindOld", "open",
                                        "check"}
           \/ /\ dispatcher[t].pc = "check" /\ dispatcher'[t].pc = "send"
              /\ ~turns[t].cancelRequested
                    \/ turns[t].dispatchState = "ADMITTED"
              /\ UNCHANGED store
           \/ dispatcher[t].pc = "send" /\ dispatcher'[t].pc = "flag"
           \/ /\ dispatcher[t].pc = "flag" /\ dispatcher'[t].pc = "cancel"
           \/ /\ dispatcher[t].pc = "flag" /\ dispatcher'[t].pc = "watch"
              /\ ~turns[t].cancelRequested
              /\ UNCHANGED store
           \/ /\ dispatcher[t].pc = "cancel" /\ dispatcher'[t].pc = "watch"
              /\ AskToCancel(t)
           \/ /\ dispatcher[t].pc # "none"
              /\ dispatcher'[t].pc \in {"failing", "lost", "done"}
<1>0. dispatcher \in [Turns -> Dispatcher]
    BY DEF TypeOK
<1>1. CASE Send(t)
    BY <1>0, <1>1, Moves DEF Send
<1>2. CASE BeginDispatch(t)
    BY <1>0, <1>2, Moves DEF BeginDispatch
<1>3. CASE ReadBinding(t)
    BY <1>0, <1>3 DEF ReadBinding
<1>4. CASE BindNewRuntime(t)
    BY <1>0, <1>4 DEF BindNewRuntime
<1>5. CASE BindExistingRuntime(t) \/ OpenResolves(t)
    BY <1>0, <1>5, Moves DEF BindExistingRuntime, OpenResolves
<1>6. CASE CancelBeforeAdmission(t)
    BY <1>0, <1>6, Moves DEF CancelBeforeAdmission
<1>7. CASE SendToRuntime(t)
    BY <1>0, <1>7, Moves DEF SendToRuntime
<1>8. CASE ReadCancelFlag(t)
    BY <1>0, <1>8, Moves DEF ReadCancelFlag
<1>9. CASE CancelFromDispatcher(t)
    BY <1>0, <1>9, Moves DEF CancelFromDispatcher
<1>10. CASE \/ DispatchFails(t) \/ PersistDispatchFailure(t)
            \/ PersistFailureLost(t) \/ ResultResolves(t) \/ ResultRejects(t)
    <2>1. \E pc \in {"failing", "lost", "done"} :
              AdvanceTo(t, pc) \/ LeaveAs(t, pc)
        BY <1>10 DEF DispatchFails, PersistDispatchFailure, PersistFailureLost,
                     ResultResolves, ResultRejects
    <2>2. dispatcher[t].pc # "none"
        BY <1>10 DEF DispatchFails, PersistDispatchFailure, PersistFailureLost,
                     ResultResolves, ResultRejects, Dispatching
    <2>. QED
        BY <1>0, <2>1, <2>2, Moves
<1>11. CASE Crash
    <2>1. dispatcher'[t] = [pc |-> IF dispatcher[t].pc = "none" THEN "none"
                                                               ELSE "done",
                            session |-> NoSession]
        BY <1>11 DEF Crash
    <2>. QED
        BY <2>1
<1>. QED
    BY <1>1, <1>2, <1>3, <1>4, <1>5, <1>6, <1>7, <1>8, <1>9, <1>10, <1>11,
       DispatcherStep DEF Dispatch

LEMMA SentOnceStep ==
    ASSUME TypeOK, StoreInv, SentOnce, [Next]_vars
    PROVE  SentOnce'
<1>1. ASSUME NEW t \in Turns, turns'[t].status = "NONE"
      PROVE  dispatcher'[t].pc = "none"
    <2>1. turns[t].status = "NONE" /\ ~Send(t)
        <3>1. RowStep(t)
            BY TurnRowStep
        <3>2. ~RowSettled(t)
            BY <1>1 DEF RowSettled, Outcomes
        <3>3. turns[t].dispatchState = "SAVED" => turns[t].status # "NONE"
            BY DEF StoreInv, UnsentTurnsAreUntouched
        <3>4. Send(t) => turns'[t].status = "QUEUED"
            BY DEF Send, TypeOK, TurnRow
        <3>. QED
            BY <1>1, <3>1, <3>2, <3>3, <3>4 DEF RowStep, RowGoesOn, RowFlagged
    <2>2. dispatcher[t].pc = "none"
        BY <2>1 DEF SentOnce
    <2>. QED
        BY <2>1, <2>2, DispatcherMoves
<1>2. ASSUME NEW t \in Turns, dispatcher'[t].pc = "none"
      PROVE  runtimeTurns'[t].state = "none"
    <2>1. dispatcher[t].pc = "none"
        BY <1>2, DispatcherMoves
    <2>2. runtimeTurns[t].state = "none"
        BY <2>1 DEF SentOnce
    <2>. QED
        BY <2>1, <2>2, RuntimeTurnStep DEF SendToRuntime
<1>3. ASSUME NEW t \in Turns, runtimeTurns'[t].state = "none"
      PROVE  runtimeTurns'[t].session = NoSession
    BY <1>3, RuntimeTurnStep DEF SentOnce, Ended
<1>4. NoBlindResend'
    <2>. SUFFICES ASSUME NEW t \in Turns,
                         dispatcher'[t].pc \in Dispatching \ {"flag", "cancel"}
                  PROVE  runtimeTurns'[t].state = "none"
        BY DEF NoBlindResend
    <2>1. \/ dispatcher[t].pc \in Dispatching \ {"flag", "cancel"}
          \/ dispatcher[t].pc = "none"
        BY DispatcherMoves DEF Dispatching, SentOnce
    <2>2. runtimeTurns[t].state = "none"
        BY <2>1 DEF SentOnce, NoBlindResend
    <2>3. ~SendToRuntime(t)
        BY Moves DEF SendToRuntime, TypeOK, Dispatching
    <2>. QED
        BY <2>2, <2>3, RuntimeTurnStep
<1>. QED
    BY <1>1, <1>2, <1>3, <1>4 DEF SentOnce

\* A turn on its way to the runtime is not with it, so it is settled only by
\* an operation that leaves no session bound.
LEMMA CancelledStep ==
    ASSUME TypeOK, StoreInv, SentOnce, SessionsAreDrawn, CancelledTurnsAreLeft,
           [Next]_vars
    PROVE  CancelledTurnsAreLeft'
<1>. SUFFICES ASSUME NEW t \in Turns, turns'[t].status = "CANCELLED"
              PROVE  /\ turns'[t].dispatchState = "FINISHED"
                     /\ dispatcher'[t].pc = "send" /\ turns'[t].cancelRequested
                            => dialogue'.runtimeSessionId
                                   # dispatcher'[t].session
    BY DEF CancelledTurnsAreLeft, Concerns
<1>1. RowStep(t) /\ ~RowGoesOn(t)
    <2>1. turns[t].status = "CANCELLED" => turns[t].dispatchState # "SAVED"
        BY DEF CancelledTurnsAreLeft
    <2>. QED
        BY <2>1, TurnRowStep DEF RowGoesOn
<1>2. turns'[t].dispatchState = "FINISHED"
    BY <1>1 DEF RowStep, RowSettled, RowFlagged, CancelledTurnsAreLeft
<1>3. ASSUME dispatcher'[t].pc = "send", turns'[t].cancelRequested
      PROVE  dialogue'.runtimeSessionId # dispatcher'[t].session
    <2>1. Used(dispatcher[t].session)'
        BY <1>3, DispatcherSessions DEF WithSession
    <2>2. dispatcher'[t].session # NoSession
        BY <2>1, SessionsAssumption DEF Used
    <2>3. turns[t].cancelRequested
        BY <1>1, <1>3 DEF RowStep, RowSettled, RowFlagged, CancelledTurnsAreLeft
    <2>4. CASE dispatcher[t].pc = "check" /\ UNCHANGED store
               /\ (~turns[t].cancelRequested
                      \/ turns[t].dispatchState = "ADMITTED")
        BY <2>3, <2>4 DEF CancelledTurnsAreLeft, store
    <2>5. CASE dispatcher'[t] = dispatcher[t]
        <3>1. Used(dispatcher[t].session)
            BY <1>3, <2>5 DEF SessionsAreDrawn, WithSession
        <3>2. CASE turns[t].status = "CANCELLED"
            <4>1. dialogue.runtimeSessionId # dispatcher[t].session
                BY <1>3, <2>3, <2>5, <3>2 DEF CancelledTurnsAreLeft, Concerns
            <4>. QED
                BY <2>2, <2>5, <3>1, <4>1, BindingStep
        <3>3. CASE turns[t].status # "CANCELLED"
            <4>1. dialogue'.runtimeSessionId = NoSession \/ RuntimeHas(t)
                BY <1>1, <3>3 DEF RowStep, RowSettled, RowFlagged
            <4>2. ~RuntimeHas(t)
                BY <1>3, <2>5 DEF SentOnce, NoBlindResend, Dispatching,
                                  RuntimeHas
            <4>. QED
                BY <2>2, <4>1, <4>2
        <3>. QED
            BY <3>2, <3>3
    <2>. QED
        BY <1>3, <2>4, <2>5, DispatcherMoves
<1>. QED
    BY <1>2, <1>3

\* The caller of a cancellation is on its way until it has asked the runtime.
LEMMA CancellerStep ==
    ASSUME TypeOK, [Next]_vars, NEW t \in Turns
    PROVE  \/ canceller'[t] = canceller[t]
           \/ CancelTurn(t) \/ CancelRuntimeTurn(t) \/ Crash
<1>0. canceller \in [Turns -> Canceller]
    BY DEF TypeOK
<1>1. ASSUME NEW u \in Turns, u # t, CancelTurn(u) \/ CancelRuntimeTurn(u)
      PROVE  canceller'[t] = canceller[t]
    BY <1>0, <1>1 DEF CancelTurn, CancelRuntimeTurn
<1>2. CASE UNCHANGED canceller
    BY <1>2
<1>. QED
    BY <1>1, <1>2
    DEF Next, Dispatch, vars, callers, Send, BeginDispatch, ReadBinding,
        BindNewRuntime, BindExistingRuntime, OpenResolves,
        CancelBeforeAdmission, SendToRuntime, ReadCancelFlag,
        CancelFromDispatcher, DispatchFails, PersistDispatchFailure,
        PersistFailureLost, ResultResolves, ResultRejects, TurnStarted,
        TurnCompleted, Respond, ResponseDelivered, ResponseFails,
        ResponseDeliveryFailed, InteractionResolved, InteractionRequested,
        SessionClosed, SessionVanishes, Reopen, Reconcile

\* A turn becomes the active one when it is sent, and only then.
LEMMA ActiveStep ==
    ASSUME TypeOK, StoreInv, [Next]_vars, NEW t \in Turns,
           dialogue'.activeTurnId = t
    PROVE  dialogue.activeTurnId = t \/ Send(t)
<1>1. Unsettled(t)'
    BY NextStep DEF StoreStep, StoreInv, ActiveTurnIsTheUnsettledOne
<1>2. Unsettled(t) => dialogue.activeTurnId = t
    BY DEF StoreInv, ActiveTurnIsTheUnsettledOne
<1>. QED
    BY <1>1, <1>2, TurnRowStep
    DEF RowStep, RowSettled, RowGoesOn, RowFlagged, Unsettled

\* Whoever saves the cancellation of a turn holds its session, if the runtime
\* has it, and the dispatcher that reads the flag too early has not sent it.
LEMMA CancelStep ==
    ASSUME TypeOK, StoreInv, SentOnce, SessionsAreDrawn, CancelIsOnItsWay,
           [Next]_vars
    PROVE  CancelIsOnItsWay'
<1>. SUFFICES
        ASSUME NEW t \in Turns,
               turns'[t].cancelRequested,
               dialogue'.activeTurnId = t,
               dialogue'.runtimeSessionId = runtimeTurns'[t].session,
               RuntimeHas(t)',
               dispatcher'[t].pc = "watch"
        PROVE  \/ runtimeTurns'[t].cancelAsked
               \/ /\ canceller'[t].pc = "calling"
                  /\ canceller'[t].session = runtimeTurns'[t].session
    BY DEF CancelIsOnItsWay
<1>0. runtimeTurns \in [Turns -> RuntimeTurn]
    BY DEF TypeOK
<1>1. ASSUME AskToCancel(t)
      PROVE  runtimeTurns'[t].cancelAsked
    <2>. DEFINE has == RuntimeHas(t)
    <2>1. runtimeTurns' = [runtimeTurns EXCEPT ![t].cancelAsked = has]
        BY <1>1 DEF AskToCancel
    <2>2. /\ runtimeTurns'[t].cancelAsked = has
          /\ runtimeTurns'[t].state = runtimeTurns[t].state
        <3>. HIDE DEF has
        <3>. QED
            BY <1>0, <2>1 DEF RuntimeTurn
    <2>. QED
        BY <2>2 DEF RuntimeHas
<1>2. CASE dispatcher[t].pc # "watch"
    <2>1. AskToCancel(t)
        BY <1>2, DispatcherMoves DEF store
    <2>. QED
        BY <1>1, <2>1
<1>3. CASE dispatcher[t].pc = "watch"
    <2>1. /\ RuntimeHas(t)
          /\ runtimeTurns'[t].session = runtimeTurns[t].session
          /\ \/ runtimeTurns'[t].cancelAsked
             \/ runtimeTurns'[t].cancelAsked = runtimeTurns[t].cancelAsked
        <3>1. ~SendToRuntime(t) /\ runtimeTurns'[t] # Ended
            BY <1>3 DEF SendToRuntime, RuntimeHas, Ended
        <3>2. RuntimeHas(t)
              /\ runtimeTurns'[t].session = runtimeTurns[t].session
            BY <3>1, RuntimeTurnStep DEF RuntimeHas
        <3>3. CASE runtimeTurns'[t].cancelAsked = RuntimeHas(t)
            BY <3>2, <3>3, Zenon
        <3>. QED
            BY <3>1, <3>2, <3>3, RuntimeTurnStep
    <2>2. dialogue.activeTurnId = t
        BY <1>3, ActiveStep DEF Send, SentOnce
    <2>3. dialogue.runtimeSessionId = runtimeTurns[t].session
        <3>1. Used(runtimeTurns[t].session)
            BY <2>1 DEF SessionsAreDrawn
        <3>. QED
            BY <2>1, <3>1, BindingStep, SessionsAssumption DEF Used
    <2>4. CASE turns[t].cancelRequested
        <3>1. \/ runtimeTurns[t].cancelAsked
              \/ /\ canceller[t].pc = "calling"
                 /\ canceller[t].session = runtimeTurns[t].session
            BY <1>3, <2>1, <2>2, <2>3, <2>4 DEF CancelIsOnItsWay
        <3>2. CASE runtimeTurns[t].cancelAsked
            BY <2>1, <3>2
        <3>3. CASE /\ canceller[t].pc = "calling"
                   /\ canceller[t].session = runtimeTurns[t].session
            <4>1. CASE canceller'[t] = canceller[t]
                BY <2>1, <3>3, <4>1
            <4>2. CASE CancelRuntimeTurn(t)
                BY <1>1, <3>3, <4>2 DEF CancelRuntimeTurn
            <4>3. ~CancelTurn(t)
                BY <3>3 DEF CancelTurn
            <4>4. ~Crash
                BY DEF Crash
            <4>. QED
                BY <4>1, <4>2, <4>3, <4>4, CancellerStep
        <3>. QED
            BY <3>1, <3>2, <3>3
    <2>5. CASE ~turns[t].cancelRequested
        <3>1. CancelTurn(t)
            BY <2>5, TurnRowStep
            DEF RowStep, RowSettled, RowGoesOn, RowFlagged
        <3>2. turns[t].dispatchState # "FINISHED"
            BY <2>2 DEF StoreInv, ActiveTurnIsTheUnsettledOne, Unsettled
        <3>3. dialogue.runtimeSessionId # NoSession
            BY <2>1, <2>3, SessionsAssumption DEF SessionsAreDrawn, Used
        <3>4. canceller' = [canceller EXCEPT ![t] =
                  [pc |-> "calling", session |-> dialogue.runtimeSessionId]]
            BY <3>1, <3>2, <3>3 DEF CancelTurn
        <3>5. canceller'[t] = [pc |-> "calling",
                               session |-> dialogue.runtimeSessionId]
            BY <3>4 DEF TypeOK
        <3>. QED
            BY <2>1, <2>3, <3>5
    <2>. QED
        BY <2>4, <2>5
<1>. QED
    BY <1>2, <1>3

\* The inductive invariant of the tasks holds in every reachable state.
THEOREM TasksInvariant == Spec => []TasksInv
<1>1. Init => TasksInv
    BY DEF Init, TasksInv, SessionsAreDrawn, SentOnce, NoBlindResend,
           CancelledTurnsAreLeft, CancelIsOnItsWay, RuntimeHas, WithSession,
           Dispatching
<1>2. TypeOK /\ StoreInv /\ TasksInv /\ [Next]_vars => TasksInv'
    BY SessionsStep, SentOnceStep, CancelledStep, CancelStep DEF TasksInv
<1>. QED
    BY <1>1, <1>2, TypeCorrect, StoreInvariant, PTL DEF Spec

\* A turn the runtime has ever taken is not given to it again, whatever fails
\* and however often the process crashes.
THEOREM SendsOnce == Spec => []NoBlindResend
<1>1. TasksInv => NoBlindResend
    BY DEF TasksInv, SentOnce
<1>. QED
    BY <1>1, TasksInvariant, PTL

\* A cancellation saved at any moment of a dispatch reaches the runtime.
THEOREM CancelReaches == Spec => []NoLostCancel
<1>1. TasksInv => NoLostCancel
    BY DEF TasksInv, CancelIsOnItsWay, NoLostCancel
<1>. QED
    BY <1>1, TasksInvariant, PTL

\* A turn cancelled by its user is not handed over in the bound session.
THEOREM CancelledStays == Spec => CancelledByUserIsNotHandedOver
<1>1. TypeOK /\ TasksInv /\ [Next]_vars =>
          [\A t \in Turns :
              HandedOver(t) /\ Concerns(runtimeTurns'[t].session) =>
                 ~(turns[t].cancelRequested /\ turns[t].status = "CANCELLED")
          ]_vars
    <2>. SUFFICES
            ASSUME TypeOK, TasksInv, [Next]_vars, NEW t \in Turns,
                   HandedOver(t), Concerns(runtimeTurns'[t].session),
                   turns[t].cancelRequested, turns[t].status = "CANCELLED"
            PROVE  FALSE
        OBVIOUS
    <2>1. /\ SendToRuntime(t)
          /\ runtimeTurns'[t].session = dispatcher[t].session
        BY RuntimeTurnStep DEF TasksInv, HandedOver, Ended
    <2>. QED
        BY <2>1 DEF SendToRuntime, TasksInv, CancelledTurnsAreLeft, Concerns
<1>. QED
    BY <1>1, TypeCorrect, TasksInvariant, PTL
    DEF Spec, CancelledByUserIsNotHandedOver

-----------------------------------------------------------------------------
(* A turn waits exactly for the answers to its own questions.              *)

\* Only the active turn has questions outstanding, so no other turn waits.
LEMMA OthersAskNothing ==
    ASSUME StoreInv, TurnWaitsForAnswers, NEW t \in Turns,
           dialogue.activeTurnId # t
    PROVE  OutstandingOf(t) = {} /\ turns[t].status # "WAITING"
<1>1. OutstandingOf(t) = {}
    BY TurnsAssumption DEF StoreInv, QuestionsAreOfActiveTurn, OutstandingOf
<1>. QED
    BY <1>1 DEF TurnWaitsForAnswers

\* An operation that leaves no question of a turn outstanding and gives the
\* active turn, if there is one, a verdict.
LEMMA WaitsNoMore ==
    ASSUME StoreInv, TurnWaitsForAnswers,
           \A r \in Outstanding' : interactions'[r].turnId = NoTurn,
           \A u \in Turns : \/ turns'[u].status \in Outcomes
                            \/ /\ dialogue.activeTurnId # u
                               /\ turns'[u].status = turns[u].status
    PROVE  TurnWaitsForAnswers'
<1>1. ASSUME NEW u \in Turns
      PROVE  OutstandingOf(u)' = {} /\ turns'[u].status # "WAITING"
    BY OthersAskNothing, TurnsAssumption DEF OutstandingOf, Outcomes
<1>. QED
    BY <1>1 DEF TurnWaitsForAnswers

\* An operation that leaves the statuses of the turns and their outstanding
\* questions alone.
LEMMA WaitsOn ==
    ASSUME TurnWaitsForAnswers,
           \A u \in Turns : turns'[u].status = turns[u].status,
           Outstanding' = Outstanding,
           \A r \in Outstanding : interactions'[r].turnId = interactions[r].turnId
    PROVE  TurnWaitsForAnswers'
<1>1. \A u \in Turns : OutstandingOf(u)' = OutstandingOf(u)
    BY DEF OutstandingOf
<1>. QED
    BY <1>1 DEF TurnWaitsForAnswers

\* With no turn active the questions outstanding are of the session only, and
\* a cleanup adds none.
LEMMA IdleAbandons ==
    ASSUME TypeOK, StoreInv, TurnWaitsForAnswers, UNCHANGED turns,
           dialogue.activeTurnId = NoTurn, NEW scope, AbandonInteractions(scope)
    PROVE  TurnWaitsForAnswers'
<1>1. \A r \in Outstanding' : interactions'[r].turnId = NoTurn
    BY AbandonKeeps DEF TypeOK, StoreInv, QuestionsAreOfActiveTurn
<1>. QED
    BY <1>1, WaitsNoMore, TurnsAssumption

LEMMA InterruptWaits ==
    ASSUME TypeOK, StoreInv, TurnWaitsForAnswers, NEW t \in Turns, NEW matches,
           NEW outcome \in Outcomes, InterruptTurn(t, matches, outcome)
    PROVE  TurnWaitsForAnswers'
<1>1. CASE UNCHANGED store
    BY <1>1, WaitsOn DEF store, Outstanding, OutstandingIn
<1>2. CASE FinishInterrupted(t, outcome) /\ dialogue.activeTurnId = t
    <2>. DEFINE state == IF outcome = "UNCERTAIN" THEN "UNCERTAIN"
                                                  ELSE "FINISHED"
    <2>1. turns' = [turns EXCEPT ![t].status = outcome,
                                 ![t].dispatchState = state]
        BY <1>2 DEF FinishInterrupted
    <2>2. Outstanding' = {}
        BY <1>2, AbandonAll DEF FinishInterrupted, Outstanding, OutstandingIn
    <2>. HIDE DEF state
    <2>3. /\ turns'[t].status = outcome
          /\ \A u \in Turns \ {t} : turns'[u].status = turns[u].status
        BY <2>1 DEF TypeOK, TurnRow
    <2>. QED
        BY <1>2, <2>2, <2>3, WaitsNoMore
<1>. QED
    BY <1>1, <1>2 DEF InterruptTurn, Interruptible

LEMMA CompletedWaits ==
    ASSUME TypeOK, StoreInv, TurnWaitsForAnswers, NEW t \in Turns,
           TurnCompleted(t)
    PROVE  TurnWaitsForAnswers'
<1>1. ASSUME NEW o \in RuntimeOutcomes, ConcernsTurn(t), CompleteTurn(t, o)
      PROVE  TurnWaitsForAnswers'
    <2>. DEFINE outcome == TurnOutcome(o)
    <2>1. outcome \in Outcomes
        BY DEF TurnOutcome, Outcomes
    <2>2. dialogue.activeTurnId = t
        BY <1>1 DEF ConcernsTurn
    <2>3. /\ turns' = [turns EXCEPT ![t].status = outcome,
                                    ![t].dispatchState = "FINISHED"]
          /\ AbandonInteractions(OutstandingOf(t))
        BY <1>1 DEF CompleteTurn
    <2>. HIDE DEF outcome
    <2>4. /\ turns'[t].status = outcome
          /\ \A u \in Turns \ {t} : turns'[u].status = turns[u].status
        BY <2>3 DEF TypeOK, TurnRow
    <2>5. \A r \in Outstanding' : interactions'[r].turnId = NoTurn
        <3>1. \A r \in Outstanding' :
                  /\ r \in Outstanding \ OutstandingOf(t)
                  /\ interactions'[r].turnId = interactions[r].turnId
            BY <2>3, AbandonAll, AbandonKeeps DEF TypeOK
        <3>. QED
            BY <2>2, <3>1 DEF StoreInv, QuestionsAreOfActiveTurn, OutstandingOf
    <2>. QED
        BY <2>1, <2>2, <2>4, <2>5, WaitsNoMore
<1>. QED
    BY <1>1, WaitsOn DEF TurnCompleted, store, Outstanding, OutstandingIn

LEMMA RequestedWaits ==
    ASSUME TypeOK, TurnWaitsForAnswers, NEW r \in Requests, NEW s \in Sessions,
           NEW t \in Turns \cup {NoTurn}, InteractionRequested(r, s, t)
    PROVE  TurnWaitsForAnswers'
<1>1. /\ interactions'[r].turnId = t /\ interactions'[r].status = "PENDING"
      /\ \A q \in Requests \ {r} : interactions'[q] = interactions[q]
      /\ r \notin Outstanding
    BY DEF InteractionRequested, TypeOK, Outstanding, OutstandingIn
<1>2. Outstanding' = Outstanding \cup {r}
    BY <1>1 DEF Outstanding, OutstandingIn
<1>3. ASSUME NEW u \in Turns
      PROVE  turns'[u].status = "WAITING" <=> OutstandingOf(u)' # {}
    <2>1. CASE u = t
        <3>1. turns' = [turns EXCEPT ![t].status = "WAITING"]
            BY <2>1, TurnsAssumption DEF InteractionRequested
        <3>2. turns'[u].status = "WAITING"
            BY <2>1, <3>1 DEF TypeOK, TurnRow
        <3>3. r \in OutstandingOf(u)'
            BY <1>1, <1>2, <2>1 DEF OutstandingOf
        <3>. QED
            BY <3>2, <3>3
    <2>2. CASE u # t
        <3>1. turns'[u] = turns[u]
            BY <2>2 DEF InteractionRequested, TypeOK
        <3>2. OutstandingOf(u)' = OutstandingOf(u)
            BY <1>1, <1>2, <2>2 DEF OutstandingOf, Outstanding, OutstandingIn
        <3>. QED
            BY <3>1, <3>2 DEF TurnWaitsForAnswers
    <2>. QED
        BY <2>1, <2>2
<1>. QED
    BY <1>3 DEF TurnWaitsForAnswers

LEMMA ResolvedWaits ==
    ASSUME TypeOK, StoreInv, TurnWaitsForAnswers, NEW r \in Requests,
           InteractionResolved(r)
    PROVE  TurnWaitsForAnswers'
<1>. DEFINE t     == interactions[r].turnId
            after == TurnStatusAfterInteraction(t, r)
<1>1. /\ interactions' = [interactions EXCEPT ![r].status = "RESOLVED"]
      /\ r \in Outstanding
    BY DEF InteractionResolved, Outstanding, OutstandingIn
<1>2. /\ Outstanding' = Outstanding \ {r}
      /\ \A q \in Requests : interactions'[q].turnId = interactions[q].turnId
    BY <1>1 DEF Outstanding, OutstandingIn, TypeOK, InteractionRow
<1>3. \A u \in Turns : OutstandingOf(u)' = OutstandingOf(u) \ {r}
    BY <1>2 DEF OutstandingOf, Outstanding, OutstandingIn
<1>4. CASE t = NoTurn
    <2>1. \A u \in Turns : OutstandingOf(u)' = OutstandingOf(u)
        BY <1>3, <1>4, TurnsAssumption DEF OutstandingOf
    <2>2. UNCHANGED turns
        BY <1>4 DEF InteractionResolved
    <2>. QED
        BY <2>1, <2>2 DEF TurnWaitsForAnswers
<1>5. CASE t # NoTurn
    <2>1. t \in Turns /\ t = dialogue.activeTurnId
        BY <1>1, <1>5 DEF StoreInv, QuestionsAreOfActiveTurn, TypeOK,
                          InteractionRow
    <2>2. turns[t].dispatchState # "FINISHED"
        BY <2>1 DEF StoreInv, ActiveTurnIsTheUnsettledOne, Unsettled
    <2>3. turns' = [turns EXCEPT ![t].status = after]
        BY <1>5, <2>2 DEF InteractionResolved
    <2>4. /\ turns'[t].status = after
          /\ \A u \in Turns \ {t} : turns'[u] = turns[u]
        <3>. HIDE DEF after
        <3>. QED
            BY <2>1, <2>3 DEF TypeOK, TurnRow
    <2>5. after = "WAITING" <=> OutstandingOf(t) \ {r} # {}
        BY DEF TurnStatusAfterInteraction
    <2>6. \A u \in Turns \ {t} : OutstandingOf(u)' = OutstandingOf(u)
        BY <1>3 DEF OutstandingOf
    <2>. HIDE DEF after, t
    <2>. QED
        BY <1>3, <2>1, <2>4, <2>5, <2>6 DEF TurnWaitsForAnswers
<1>. QED
    BY <1>4, <1>5

LEMMA WaitsStep ==
    ASSUME TypeOK, StoreInv, AnswersInv, [Next]_vars
    PROVE  TurnWaitsForAnswers'
<1>0. TurnWaitsForAnswers /\ turns \in [Turns -> TurnRow]
    BY DEF AnswersInv, TypeOK
<1>1. CASE UNCHANGED store
    BY <1>0, <1>1, WaitsOn DEF store, Outstanding, OutstandingIn
<1>2. ASSUME NEW t \in Turns, Send(t)
      PROVE  TurnWaitsForAnswers'
    <2>1. /\ turns[t].status = "NONE" /\ turns'[t].status = "QUEUED"
          /\ \A u \in Turns \ {t} : turns'[u] = turns[u]
        BY <1>0, <1>2 DEF Send, TurnRow
    <2>2. \A u \in Turns : OutstandingOf(u)' = OutstandingOf(u)
        BY <1>2 DEF Send, OutstandingOf, Outstanding, OutstandingIn
    <2>. QED
        BY <1>0, <2>1, <2>2 DEF TurnWaitsForAnswers
<1>3. ASSUME NEW t \in Turns,
             \/ BeginDispatch(t) \/ CancelBeforeAdmission(t)
             \/ PersistDispatchFailure(t)
      PROVE  TurnWaitsForAnswers'
    <2>1. DispatchFailureOutcome(t) \in Outcomes /\ "CANCELLED" \in Outcomes
        BY DEF DispatchFailureOutcome, Outcomes
    <2>2. CASE /\ turns' = [turns EXCEPT ![t].dispatchState = "DISPATCHING"]
               /\ UNCHANGED <<dialogue, interactions>>
        <3>1. \A u \in Turns : turns'[u].status = turns[u].status
            BY <1>0, <2>2 DEF TurnRow
        <3>. QED
            BY <1>0, <2>2, <3>1, WaitsOn DEF Outstanding, OutstandingIn
    <2>. QED
        BY <1>0, <1>1, <1>3, <2>1, <2>2, InterruptWaits
        DEF BeginDispatch, CancelBeforeAdmission, PersistDispatchFailure
<1>4. ASSUME NEW t \in Turns, BindNewRuntime(t)
      PROVE  TurnWaitsForAnswers'
    BY <1>0, <1>4, WaitsOn DEF BindNewRuntime, Outstanding, OutstandingIn
<1>5. ASSUME NEW t \in Turns, CancelTurn(t)
      PROVE  TurnWaitsForAnswers'
    <2>. DEFINE flag == turns[t].cancelRequested
                          \/ turns[t].dispatchState # "FINISHED"
    <2>1. turns' = [turns EXCEPT ![t].cancelRequested = flag]
          /\ UNCHANGED interactions
        BY <1>5 DEF CancelTurn
    <2>. HIDE DEF flag
    <2>2. \A u \in Turns : turns'[u].status = turns[u].status
        BY <1>0, <2>1 DEF TurnRow
    <2>. QED
        BY <1>0, <2>1, <2>2, WaitsOn DEF Outstanding, OutstandingIn
<1>6. ASSUME NEW t \in Turns, TurnStarted(t)
      PROVE  TurnWaitsForAnswers'
    <2>1. CASE /\ turns' = [turns EXCEPT ![t].status = "RUNNING",
                                         ![t].dispatchState = "ADMITTED"]
               /\ UNCHANGED interactions
        <3>1. OutstandingOf(t) = {}
            BY <1>6 DEF TurnStarted, AnswersInv, AskedAfterStart
        <3>2. /\ turns'[t].status = "RUNNING"
              /\ \A u \in Turns \ {t} : turns'[u] = turns[u]
            BY <1>0, <2>1 DEF TurnRow
        <3>3. \A u \in Turns : OutstandingOf(u)' = OutstandingOf(u)
            BY <2>1 DEF OutstandingOf, Outstanding, OutstandingIn
        <3>. QED
            BY <1>0, <3>1, <3>2, <3>3 DEF TurnWaitsForAnswers
    <2>. QED
        BY <1>1, <1>6, <2>1 DEF TurnStarted
<1>7. ASSUME NEW r \in Requests, Respond(r)
      PROVE  TurnWaitsForAnswers'
    <2>1. /\ Outstanding' = Outstanding
          /\ \A q \in Requests : interactions'[q].turnId = interactions[q].turnId
        BY <1>7 DEF Respond, Outstanding, OutstandingIn, TypeOK, InteractionRow
    <2>. QED
        BY <1>0, <1>7, <2>1, WaitsOn DEF Respond, Outstanding, OutstandingIn
<1>8. ASSUME NEW r \in Requests, ResponseDeliveryFailed(r)
      PROVE  TurnWaitsForAnswers'
    <2>1. "UNCERTAIN" \in Outcomes
        BY DEF Outcomes
    <2>. QED
        BY <1>0, <1>1, <1>8, <2>1, InterruptWaits, IdleAbandons
        DEF ResponseDeliveryFailed, TypeOK, Responder
<1>9. ASSUME NEW s \in Sessions, SessionClosed(s)
      PROVE  TurnWaitsForAnswers'
    <2>. DEFINE t == dialogue.activeTurnId
    <2>1. ASSUME NEW outcome \in {"CANCELLED", "FAILED"}, t # NoTurn,
                 CloseActiveSession(t, outcome)
          PROVE  TurnWaitsForAnswers'
        <3>1. t \in Turns
            BY <2>1 DEF TypeOK, DialogueRow
        <3>2. turns' = [turns EXCEPT ![t].status = outcome,
                                     ![t].dispatchState = "FINISHED"]
            BY <2>1, <3>1 DEF CloseActiveSession, StoreInv,
                              ActiveTurnIsTheUnsettledOne, Unsettled
        <3>3. Outstanding' = {}
            BY <2>1, AbandonAll
            DEF CloseActiveSession, Outstanding, OutstandingIn
        <3>4. /\ turns'[t].status \in Outcomes
              /\ \A u \in Turns \ {t} : turns'[u].status = turns[u].status
            BY <1>0, <3>1, <3>2 DEF TurnRow, Outcomes
        <3>. QED
            BY <1>0, <3>1, <3>3, <3>4, WaitsNoMore
    <2>. QED
        BY <1>0, <1>1, <1>9, <2>1, IdleAbandons
        DEF SessionClosed, CloseIdleSession
<1>10. CASE Reopen
    BY <1>0, <1>10, IdleAbandons DEF Reopen, StoreInv, UncertainIsIdle
<1>11. CASE Reconcile
    <2>1. "UNCERTAIN" \in Outcomes
        BY DEF Outcomes
    <2>2. dialogue.activeTurnId # NoTurn =>
              /\ dialogue.activeTurnId \in Turns
              /\ turns[dialogue.activeTurnId].dispatchState # "FINISHED"
        BY DEF TypeOK, DialogueRow, StoreInv, ActiveTurnIsTheUnsettledOne,
               Unsettled
    <2>. QED
        BY <1>0, <1>1, <1>11, <2>1, <2>2, InterruptWaits, IdleAbandons
        DEF Reconcile, DetachIdleRuntime
<1>. QED
    BY <1>0, <1>1, <1>2, <1>3, <1>4, <1>5, <1>6, <1>7, <1>8, <1>9, <1>10,
       <1>11, CompletedWaits, RequestedWaits, ResolvedWaits
    DEF Next, Dispatch, vars, ReadBinding, BindExistingRuntime,
        OpenResolves, SendToRuntime, ReadCancelFlag, CancelFromDispatcher,
        DispatchFails, PersistFailureLost, ResultResolves, ResultRejects,
        CancelRuntimeTurn, ResponseDelivered, ResponseFails, SessionVanishes,
        Crash

\* A question that is outstanding was so before, or is asked in this step, by
\* a turn the runtime has started.
LEMMA AskedStep ==
    ASSUME TypeOK, StoreInv, SentOnce, AnswersInv, [Next]_vars
    PROVE  AskedAfterStart'
<1>. SUFFICES ASSUME NEW t \in Turns, OutstandingOf(t)' # {}
              PROVE  runtimeTurns'[t].state \in {"started", "ended"}
    BY DEF AskedAfterStart
<1>1. ASSUME runtimeTurns[t].state \in {"started", "ended"}
      PROVE  runtimeTurns'[t].state \in {"started", "ended"}
    <2>1. ~SendToRuntime(t)
        BY <1>1 DEF SendToRuntime, SentOnce, NoBlindResend, Dispatching
    <2>. QED
        BY <1>1, <2>1, RuntimeTurnStep DEF Ended
<1>2. PICK r \in Outstanding' : interactions'[r].turnId = t
    BY DEF OutstandingOf
<1>3. r \in Requests
    BY DEF Outstanding, OutstandingIn
<1>4. CASE r \in Outstanding /\ interactions[r].turnId = t
    <2>1. r \in OutstandingOf(t)
        BY <1>4 DEF OutstandingOf
    <2>. QED
        BY <1>1, <2>1 DEF AnswersInv, AskedAfterStart
<1>. QED
    BY <1>1, <1>2, <1>3, <1>4, QuestionStep, TurnsAssumption

-----------------------------------------------------------------------------
(* Statuses and the pending count.                                         *)

\* Interactions are finitely many, so they can be counted.
LEMMA CountOf ==
    ASSUME NEW S \in SUBSET Requests
    PROVE  /\ IsFiniteSet(S)
           /\ Cardinality(S) \in Nat
           /\ Cardinality(S) = 0 <=> S = {}
<1>1. IsFiniteSet(S)
    BY RequestsAssumption, FS_Subset
<1>. QED
    BY <1>1, FS_CardinalityType, FS_EmptySet

\* The dialogue is settled and all of its interactions are abandoned.
LEMMA ClearedCounts ==
    ASSUME dialogue'.status \in {"READY", "UNCERTAIN"},
           dialogue'.activeTurnId = NoTurn, dialogue'.pendingCount = 0,
           Outstanding' = {}
    PROVE  CountInv'
<1>1. Cardinality(Outstanding') = 0
    BY FS_EmptySet
<1>2. PendingCountExact'
    BY <1>1 DEF PendingCountExact
<1>3. StatusAgreesWithWork'
    BY DEF StatusAgreesWithWork
<1>. QED
    BY <1>2, <1>3 DEF CountInv, GivenUpCountsNothing, WaitsInSession

\* The dialogue is given up over interactions of other sessions.
LEMMA GivenUpCounts ==
    ASSUME dialogue'.status = "UNCERTAIN", dialogue'.activeTurnId = NoTurn,
           dialogue'.pendingCount = 0,
           \A r \in Outstanding' :
               interactions'[r].session # dialogue'.runtimeSessionId
    PROVE  CountInv'
BY DEF CountInv, PendingCountExact, GivenUpCountsNothing, WaitsInSession,
       StatusAgreesWithWork, Concerns

\* The handlers that recount what is outstanding.
LEMMA RecountedCounts ==
    ASSUME dialogue'.pendingCount = Cardinality(Outstanding)',
           \/ /\ dialogue'.status = "WAITING"
              /\ Outstanding' # {}
              /\ dialogue'.runtimeSessionId # NoSession
           \/ /\ dialogue'.status = "READY"
              /\ Outstanding' = {}
              /\ dialogue'.activeTurnId = NoTurn
           \/ /\ dialogue'.status = "RUNNING"
              /\ dialogue'.activeTurnId # NoTurn
    PROVE  CountInv'
<1>1. /\ dialogue'.pendingCount \in Nat
      /\ dialogue'.pendingCount = 0 <=> Outstanding' = {}
    <2>1. Outstanding' \in SUBSET Requests
        BY DEF Outstanding, OutstandingIn
    <2>. QED
        BY <2>1, CountOf
<1>2. PendingCountExact'
    BY <1>1 DEF PendingCountExact
<1>3. StatusAgreesWithWork'
    <2>1. CASE dialogue'.status = "WAITING" /\ Outstanding' # {}
        <3>1. dialogue'.pendingCount > 0
            BY <1>1, <2>1
        <3>. QED
            BY <2>1, <3>1 DEF StatusAgreesWithWork
    <2>2. CASE /\ dialogue'.status = "READY"
               /\ Outstanding' = {}
               /\ dialogue'.activeTurnId = NoTurn
        BY <1>1, <2>2 DEF StatusAgreesWithWork
    <2>3. CASE dialogue'.status = "RUNNING" /\ dialogue'.activeTurnId # NoTurn
        BY <2>3 DEF StatusAgreesWithWork
    <2>. QED
        BY <2>1, <2>2, <2>3
<1>. QED
    BY <1>2, <1>3 DEF CountInv, GivenUpCountsNothing, WaitsInSession

\* Nothing the count and the statuses depend on has changed.
LEMMA CountsOn ==
    ASSUME CountInv, UNCHANGED dialogue,
           \A u \in Turns : turns'[u].status = turns[u].status,
           dialogue.activeTurnId \in Turns \cup {NoTurn},
           Outstanding' = Outstanding,
           \A r \in Outstanding : interactions'[r].session
                                      = interactions[r].session
    PROVE  CountInv'
<1>1. PendingCountExact'
    BY DEF CountInv, PendingCountExact, Concerns
<1>2. GivenUpCountsNothing' /\ WaitsInSession'
    BY DEF CountInv, GivenUpCountsNothing, WaitsInSession, Concerns
<1>3. StatusAgreesWithWork'
    BY DEF CountInv, StatusAgreesWithWork
<1>. QED
    BY <1>1, <1>2, <1>3 DEF CountInv

LEMMA InterruptCounts ==
    ASSUME TypeOK, CountInv, NEW t, NEW matches, NEW outcome,
           InterruptTurn(t, matches, outcome)
    PROVE  CountInv'
<1>1. CASE UNCHANGED store
    BY <1>1, CountsOn
    DEF store, Outstanding, OutstandingIn, TypeOK, DialogueRow
<1>2. CASE FinishInterrupted(t, outcome)
    <2>1. Outstanding' = {}
        BY <1>2, AbandonAll DEF FinishInterrupted, Outstanding, OutstandingIn
    <2>2. /\ dialogue'.status \in {"READY", "UNCERTAIN"}
          /\ dialogue'.activeTurnId = NoTurn
          /\ dialogue'.pendingCount = 0
        BY <1>2 DEF FinishInterrupted
    <2>. QED
        BY <2>1, <2>2, ClearedCounts
<1>. QED
    BY <1>1, <1>2 DEF InterruptTurn

\* A dispatcher binds a session that no interaction is of: the count stays
\* exact only if nothing is outstanding, and a bound otherwise.
LEMMA BoundCounts ==
    ASSUME TypeOK, SessionsAreDrawn, CountInv, NEW t \in Turns,
           BindNewRuntime(t)
    PROVE  CountInv'
<1>1. PICK s \in Sessions :
          /\ sessions[s] = "unused"
          /\ dialogue' = [dialogue EXCEPT !.runtimeSessionId = s]
    BY DEF BindNewRuntime
<1>2. /\ dialogue'.status = dialogue.status
      /\ dialogue'.activeTurnId = dialogue.activeTurnId
      /\ dialogue'.pendingCount = dialogue.pendingCount
      /\ dialogue'.runtimeSessionId = s
    BY <1>1 DEF TypeOK, DialogueRow
<1>3. UNCHANGED <<turns, interactions>> /\ Outstanding' = Outstanding
    BY DEF BindNewRuntime, Outstanding, OutstandingIn
<1>4. \A r \in Outstanding' : interactions'[r].session # s
    BY <1>1, <1>3 DEF SessionsAreDrawn, Used, Outstanding, OutstandingIn
<1>5. PendingCountExact'
    BY <1>2, <1>3, <1>4 DEF CountInv, PendingCountExact, Concerns
<1>6. GivenUpCountsNothing'
    BY <1>2, <1>4 DEF CountInv, GivenUpCountsNothing, Concerns
<1>7. WaitsInSession'
    BY <1>2, SessionsAssumption DEF WaitsInSession
<1>8. StatusAgreesWithWork'
    BY <1>2, <1>3 DEF CountInv, StatusAgreesWithWork
<1>. QED
    BY <1>5, <1>6, <1>7, <1>8 DEF CountInv

LEMMA RequestedCounts ==
    ASSUME TypeOK, CountInv, NEW r \in Requests, NEW s \in Sessions,
           NEW t \in Turns \cup {NoTurn}, InteractionRequested(r, s, t)
    PROVE  CountInv'
<1>. DEFINE count == dialogue.pendingCount + 1
<1>1. /\ interactions'[r].session = s /\ interactions'[r].status = "PENDING"
      /\ \A q \in Requests \ {r} : interactions'[q] = interactions[q]
      /\ r \notin Outstanding
      /\ dialogue.runtimeSessionId = s
    BY DEF InteractionRequested, Concerns, TypeOK, Outstanding, OutstandingIn
<1>2. Outstanding' = Outstanding \cup {r}
    BY <1>1 DEF Outstanding, OutstandingIn
<1>0. Outstanding \in SUBSET Requests
    BY DEF Outstanding, OutstandingIn
<1>3. Cardinality(Outstanding)' = Cardinality(Outstanding) + 1
    BY <1>0, <1>1, <1>2, CountOf, FS_AddElement
<1>4. /\ dialogue'.status = "WAITING"
      /\ dialogue'.pendingCount = count
      /\ dialogue'.runtimeSessionId = s
    <2>1. dialogue' = [dialogue EXCEPT !.status = "WAITING",
                                       !.pendingCount = count]
        BY DEF InteractionRequested
    <2>. HIDE DEF count
    <2>. QED
        BY <1>1, <2>1 DEF TypeOK, DialogueRow
<1>5. dialogue.pendingCount \in Nat /\ Cardinality(Outstanding) \in Nat
    BY <1>0, CountOf DEF TypeOK, DialogueRow
<1>6. dialogue.pendingCount <= Cardinality(Outstanding)
    BY <1>5 DEF CountInv, PendingCountExact, GivenUpCountsNothing
<1>7. ASSUME \A q \in Outstanding' : interactions'[q].session = s
      PROVE  dialogue.pendingCount = Cardinality(Outstanding)
    <2>1. \A q \in Outstanding : interactions[q].session = s
        BY <1>0, <1>1, <1>2, <1>7
    <2>2. CASE dialogue.status # "UNCERTAIN"
        BY <1>1, <2>1, <2>2 DEF CountInv, PendingCountExact, Concerns
    <2>3. CASE dialogue.status = "UNCERTAIN"
        <3>1. Outstanding = {} /\ dialogue.pendingCount = 0
            BY <1>1, <2>1, <2>3 DEF CountInv, GivenUpCountsNothing, Concerns
        <3>. QED
            BY <1>0, <3>1, CountOf
    <2>. QED
        BY <2>2, <2>3
<1>8. PendingCountExact'
    BY <1>3, <1>4, <1>5, <1>6, <1>7 DEF PendingCountExact, Concerns
<1>9. StatusAgreesWithWork'
    BY <1>4, <1>5 DEF StatusAgreesWithWork
<1>10. WaitsInSession' /\ GivenUpCountsNothing'
    BY <1>4, SessionsAssumption DEF WaitsInSession, GivenUpCountsNothing
<1>. QED
    BY <1>8, <1>9, <1>10 DEF CountInv

\* An interaction of the bound session is resolved: the dialogue is not given
\* up then, and the handler counts anew.
LEMMA ResolvedCounts ==
    ASSUME TypeOK, NEW r \in Requests, InteractionResolved(r),
           interactions[r].session # NoSession
    PROVE  CountInv'
<1>. DEFINE remaining == Outstanding \ {r}
            status    == StatusAfterInteraction(remaining)
            count     == Cardinality(remaining)
<1>1. Outstanding' = remaining
    <2>1. interactions' = [interactions EXCEPT ![r].status = "RESOLVED"]
        BY DEF InteractionResolved
    <2>. QED
        BY <2>1 DEF Outstanding, OutstandingIn, TypeOK, InteractionRow
<1>2. /\ dialogue'.status = status
      /\ dialogue'.pendingCount = count
      /\ dialogue'.activeTurnId = dialogue.activeTurnId
      /\ dialogue'.runtimeSessionId = interactions[r].session
    <2>1. /\ dialogue' = [dialogue EXCEPT !.status = status,
                                          !.pendingCount = count]
          /\ dialogue.runtimeSessionId = interactions[r].session
        BY DEF InteractionResolved, Concerns
    <2>. HIDE DEF status, count
    <2>. QED
        BY <2>1 DEF TypeOK, DialogueRow
<1>. HIDE DEF remaining
<1>3. \/ status = "WAITING" /\ remaining # {}
      \/ status = "READY" /\ remaining = {} /\ dialogue.activeTurnId = NoTurn
      \/ status = "RUNNING" /\ dialogue.activeTurnId # NoTurn
    BY DEF StatusAfterInteraction
<1>. HIDE DEF status
<1>. QED
    BY <1>1, <1>2, <1>3, RecountedCounts

LEMMA CompletedCounts ==
    ASSUME TypeOK, SessionsAreDrawn, CountInv, NEW t \in Turns,
           TurnCompleted(t)
    PROVE  CountInv'
<1>1. ASSUME NEW o \in RuntimeOutcomes, ConcernsTurn(t), CompleteTurn(t, o)
      PROVE  CountInv'
    <2>. DEFINE remaining == Outstanding \ OutstandingOf(t)
                status    == IF remaining # {} THEN "WAITING" ELSE "READY"
                count     == Cardinality(remaining)
    <2>1. Outstanding' = remaining
        BY <1>1, AbandonAll DEF CompleteTurn
    <2>2. /\ dialogue'.status = status
          /\ dialogue'.pendingCount = count
          /\ dialogue'.activeTurnId = NoTurn
          /\ dialogue'.runtimeSessionId = dialogue.runtimeSessionId
        <3>1. dialogue' = [dialogue EXCEPT !.status = status,
                                           !.activeTurnId = NoTurn,
                                           !.pendingCount = count]
            BY <1>1 DEF CompleteTurn
        <3>. HIDE DEF status, count
        <3>. QED
            BY <3>1 DEF TypeOK, DialogueRow
    <2>3. dialogue.runtimeSessionId # NoSession
        BY <1>1, SessionsAssumption
        DEF TurnCompleted, ConcernsTurn, Concerns, SessionsAreDrawn, Used
    <2>4. \/ status = "WAITING" /\ remaining # {}
          \/ status = "READY" /\ remaining = {}
        OBVIOUS
    <2>. HIDE DEF remaining, status
    <2>. QED
        BY <2>1, <2>2, <2>3, <2>4, RecountedCounts
<1>. QED
    BY <1>1, CountsOn
    DEF TurnCompleted, store, Outstanding, OutstandingIn, TypeOK, DialogueRow

\* A dialogue with no active turn and nothing outstanding is READY or UNCERTAIN
\* and counts nothing: it cannot be left WAITING.
LEMMA IdleIsSettled ==
    ASSUME TypeOK, CountInv, dialogue.activeTurnId = NoTurn, Outstanding = {}
    PROVE  /\ dialogue.status \in {"READY", "UNCERTAIN"}
           /\ dialogue.pendingCount = 0
<1>1. dialogue.status \in DialogueStatus
    BY DEF TypeOK, DialogueRow
<1>2. dialogue.pendingCount = 0
    BY FS_EmptySet DEF CountInv, PendingCountExact, GivenUpCountsNothing
<1>3. dialogue.status # "WAITING"
    <2>1. dialogue.status = "WAITING" => dialogue.pendingCount > 0
        BY DEF CountInv, StatusAgreesWithWork
    <2>. QED
        BY <1>2, <2>1
<1>4. dialogue.status # "RUNNING"
    BY DEF CountInv, StatusAgreesWithWork
<1>5. dialogue.status # "QUEUED"
    BY DEF CountInv, StatusAgreesWithWork
<1>. QED
    BY <1>1, <1>2, <1>3, <1>4, <1>5 DEF DialogueStatus

LEMMA DetachedIsClear ==
    ASSUME TypeOK, CountInv, dialogue.activeTurnId = NoTurn, DetachIdleRuntime
    PROVE  /\ dialogue'.status \in {"READY", "UNCERTAIN"}
           /\ dialogue'.activeTurnId = NoTurn
           /\ dialogue'.runtimeSessionId = NoSession
           /\ dialogue'.pendingCount = 0
           /\ Outstanding' = {}
<1>1. Outstanding' = {}
    BY AbandonAll DEF DetachIdleRuntime, Outstanding, OutstandingIn
<1>2. CASE Outstanding # {}
    <2>1. dialogue' = [dialogue EXCEPT !.runtimeSessionId = NoSession,
                                       !.status = "UNCERTAIN",
                                       !.pendingCount = 0]
        BY <1>2 DEF DetachIdleRuntime
    <2>. QED
        BY <1>1, <2>1 DEF TypeOK, DialogueRow
<1>3. CASE Outstanding = {}
    <2>1. dialogue' = [dialogue EXCEPT !.runtimeSessionId = NoSession]
        BY <1>3 DEF DetachIdleRuntime
    <2>2. /\ dialogue'.status = dialogue.status
          /\ dialogue'.activeTurnId = dialogue.activeTurnId
          /\ dialogue'.runtimeSessionId = NoSession
          /\ dialogue'.pendingCount = dialogue.pendingCount
        BY <2>1 DEF TypeOK, DialogueRow
    <2>. QED
        BY <1>1, <1>3, <2>2, IdleIsSettled
<1>. QED
    BY <1>2, <1>3

\* Rows whose outstanding interactions and their sessions are as before.
LEMMA RowsCount ==
    ASSUME TypeOK, CountInv, UNCHANGED <<dialogue, interactions>>,
           \A u \in Turns : turns'[u].status = turns[u].status
    PROVE  CountInv'
BY CountsOn DEF Outstanding, OutstandingIn, TypeOK, DialogueRow

LEMMA DeliveryFailedCounts ==
    ASSUME TypeOK, SessionsAreDrawn, CountInv, NEW r \in Requests,
           ResponseDeliveryFailed(r)
    PROVE  CountInv'
<1>1. CASE /\ dialogue.activeTurnId = NoTurn
           /\ AbandonInteractions({r})
           /\ dialogue' = [dialogue EXCEPT !.status = "UNCERTAIN",
                                           !.pendingCount = 0,
                                           !.runtimeSessionId = NoSession]
    <2>1. /\ dialogue'.status = "UNCERTAIN"
          /\ dialogue'.activeTurnId = NoTurn
          /\ dialogue'.pendingCount = 0
          /\ dialogue'.runtimeSessionId = NoSession
        BY <1>1 DEF TypeOK, DialogueRow
    <2>2. ASSUME NEW q \in Outstanding'
          PROVE  interactions'[q].session # NoSession
        <3>1. q \in Outstanding \ {r} /\ interactions'[q] = interactions[q]
            BY <1>1, AbandonAll
            DEF AbandonInteractions, Outstanding, OutstandingIn
        <3>2. Used(interactions[q].session)
            BY <3>1 DEF SessionsAreDrawn, Outstanding, OutstandingIn
        <3>. QED
            BY <3>1, <3>2, SessionsAssumption DEF Used
    <2>. QED
        BY <2>1, <2>2, GivenUpCounts
<1>2. CASE UNCHANGED store
    BY <1>2, RowsCount DEF store
<1>. QED
    BY <1>1, <1>2, InterruptCounts DEF ResponseDeliveryFailed

LEMMA ClosedCounts ==
    ASSUME TypeOK, CountInv, NEW s \in Sessions, SessionClosed(s)
    PROVE  CountInv'
<1>1. CASE dialogue.activeTurnId = NoTurn /\ CloseIdleSession
    <2>1. /\ dialogue'.status = "READY"
          /\ dialogue'.activeTurnId = NoTurn
          /\ dialogue'.pendingCount = 0
        BY <1>1 DEF CloseIdleSession, TypeOK, DialogueRow
    <2>2. Outstanding' = {}
        BY <1>1, AbandonAll DEF CloseIdleSession, Outstanding, OutstandingIn
    <2>. QED
        BY <2>1, <2>2, ClearedCounts
<1>2. ASSUME NEW t, NEW outcome, CloseActiveSession(t, outcome)
      PROVE  CountInv'
    <2>1. Outstanding' = {}
        BY <1>2, AbandonAll DEF CloseActiveSession, Outstanding, OutstandingIn
    <2>2. /\ dialogue'.status = "READY"
          /\ dialogue'.activeTurnId = NoTurn
          /\ dialogue'.pendingCount = 0
        BY <1>2 DEF CloseActiveSession
    <2>. QED
        BY <2>1, <2>2, ClearedCounts
<1>3. CASE UNCHANGED store
    BY <1>3, RowsCount DEF store
<1>. QED
    BY <1>1, <1>2, <1>3 DEF SessionClosed

LEMMA CountStep ==
    ASSUME TypeOK, StoreInv, SessionsAreDrawn, CountInv, [Next]_vars
    PROVE  CountInv'
<1>0. /\ dialogue \in DialogueRow
      /\ turns \in [Turns -> TurnRow]
    BY DEF TypeOK
<1>1. CASE UNCHANGED store
    BY <1>1, RowsCount DEF store
<1>2. ASSUME NEW t \in Turns, Send(t)
      PROVE  CountInv'
    <2>1. /\ dialogue.status = "READY" /\ dialogue'.status = "QUEUED"
          /\ dialogue'.activeTurnId = t
          /\ dialogue'.pendingCount = dialogue.pendingCount
          /\ dialogue'.runtimeSessionId = dialogue.runtimeSessionId
          /\ turns'[t].status = "QUEUED"
        BY <1>0, <1>2 DEF Send, DialogueRow, TurnRow
    <2>2. Outstanding' = Outstanding /\ UNCHANGED interactions
        BY <1>2 DEF Send, Outstanding, OutstandingIn
    <2>3. PendingCountExact'
        BY <2>1, <2>2 DEF CountInv, PendingCountExact, Concerns
    <2>4. StatusAgreesWithWork'
        BY <2>1, TurnsAssumption DEF StatusAgreesWithWork
    <2>. QED
        BY <2>1, <2>3, <2>4 DEF CountInv, GivenUpCountsNothing, WaitsInSession
<1>3. ASSUME NEW t \in Turns,
             \/ BeginDispatch(t) \/ CancelBeforeAdmission(t)
             \/ PersistDispatchFailure(t)
      PROVE  CountInv'
    <2>1. CASE /\ turns' = [turns EXCEPT ![t].dispatchState = "DISPATCHING"]
               /\ UNCHANGED <<dialogue, interactions>>
        <3>1. \A u \in Turns : turns'[u].status = turns[u].status
            BY <1>0, <2>1 DEF TurnRow
        <3>. QED
            BY <2>1, <3>1, RowsCount
    <2>. QED
        BY <1>1, <1>3, <2>1, InterruptCounts
        DEF BeginDispatch, CancelBeforeAdmission, PersistDispatchFailure
<1>4. ASSUME NEW t \in Turns, CancelTurn(t)
      PROVE  CountInv'
    <2>. DEFINE flag == turns[t].cancelRequested
                          \/ turns[t].dispatchState # "FINISHED"
    <2>1. turns' = [turns EXCEPT ![t].cancelRequested = flag]
          /\ UNCHANGED <<dialogue, interactions>>
        BY <1>4 DEF CancelTurn
    <2>. HIDE DEF flag
    <2>2. \A u \in Turns : turns'[u].status = turns[u].status
        BY <1>0, <2>1 DEF TurnRow
    <2>. QED
        BY <2>1, <2>2, RowsCount
<1>5. ASSUME NEW t \in Turns, TurnStarted(t)
      PROVE  CountInv'
    <2>1. CASE /\ dialogue.activeTurnId = t
               /\ dialogue' = [dialogue EXCEPT !.status = "RUNNING"]
               /\ UNCHANGED interactions
        <3>1. /\ dialogue'.status = "RUNNING"
              /\ dialogue'.activeTurnId = t
              /\ dialogue'.pendingCount = dialogue.pendingCount
              /\ dialogue'.runtimeSessionId = dialogue.runtimeSessionId
            BY <1>0, <2>1 DEF DialogueRow
        <3>2. Outstanding' = Outstanding
            BY <2>1 DEF Outstanding, OutstandingIn
        <3>3. dialogue.status # "UNCERTAIN"
            BY <2>1, TurnsAssumption DEF StoreInv, UncertainIsIdle
        <3>4. PendingCountExact'
            BY <2>1, <3>1, <3>2, <3>3
            DEF CountInv, PendingCountExact, Concerns
        <3>5. StatusAgreesWithWork'
            BY <3>1, TurnsAssumption DEF StatusAgreesWithWork
        <3>. QED
            BY <3>1, <3>4, <3>5
            DEF CountInv, GivenUpCountsNothing, WaitsInSession
    <2>. QED
        BY <1>1, <1>5, <2>1 DEF TurnStarted, ConcernsTurn
<1>6. ASSUME NEW r \in Requests, Respond(r)
      PROVE  CountInv'
    <2>1. Outstanding' = Outstanding
        BY <1>6 DEF Respond, Outstanding, OutstandingIn, TypeOK, InteractionRow
    <2>2. \A q \in Outstanding :
              interactions'[q].session = interactions[q].session
        BY <1>6 DEF Respond, Outstanding, OutstandingIn, TypeOK, InteractionRow
    <2>. QED
        BY <1>0, <1>6, <2>1, <2>2, CountsOn DEF Respond, DialogueRow
<1>7. ASSUME NEW r \in Requests, InteractionResolved(r)
      PROVE  CountInv'
    <2>1. Used(interactions[r].session)
        BY <1>7 DEF InteractionResolved, SessionsAreDrawn
    <2>. QED
        BY <1>7, <2>1, ResolvedCounts, SessionsAssumption DEF Used
<1>8. CASE Reopen
    <2>1. Outstanding' = {}
        BY <1>8, AbandonAll DEF Reopen, Outstanding, OutstandingIn
    <2>2. /\ dialogue'.status = "READY"
          /\ dialogue'.activeTurnId = NoTurn
          /\ dialogue'.pendingCount = 0
        BY <1>8 DEF Reopen
    <2>. QED
        BY <2>1, <2>2, ClearedCounts
<1>9. CASE Reconcile
    <2>1. dialogue.activeTurnId # NoTurn =>
              turns[dialogue.activeTurnId].dispatchState # "FINISHED"
        BY <1>0 DEF DialogueRow, StoreInv, ActiveTurnIsTheUnsettledOne,
                    Unsettled
    <2>2. CASE dialogue.activeTurnId = NoTurn /\ DetachIdleRuntime
        BY <2>2, DetachedIsClear, ClearedCounts
    <2>. QED
        BY <1>1, <1>9, <2>1, <2>2, InterruptCounts DEF Reconcile
<1>. QED
    BY <1>1, <1>2, <1>3, <1>4, <1>5, <1>6, <1>7, <1>8, <1>9, BoundCounts,
       CompletedCounts, RequestedCounts, DeliveryFailedCounts, ClosedCounts
    DEF Next, Dispatch, vars, store, ReadBinding, BindExistingRuntime,
        OpenResolves, SendToRuntime, ReadCancelFlag, CancelFromDispatcher,
        DispatchFails, PersistFailureLost, ResultResolves, ResultRejects,
        CancelRuntimeTurn, ResponseDelivered, ResponseFails, SessionVanishes,
        Crash

-----------------------------------------------------------------------------
(* The theorems about answers, counts and restarts.                        *)

\* The inductive invariant of the questions holds in every reachable state.
THEOREM AnswersInvariant == Spec => []AnswersInv
<1>1. Init => AnswersInv
    BY DEF Init, AnswersInv, AskedAfterStart, TurnWaitsForAnswers,
           OutstandingOf, Outstanding, OutstandingIn
<1>2. TypeOK /\ StoreInv /\ TasksInv /\ AnswersInv /\ [Next]_vars
          => AnswersInv'
    BY WaitsStep, AskedStep DEF AnswersInv, TasksInv
<1>. QED
    BY <1>1, <1>2, TypeCorrect, StoreInvariant, TasksInvariant, PTL DEF Spec

\* The inductive invariant of the count holds in every reachable state.
THEOREM CountInvariant == Spec => []CountInv
<1>1. Init => CountInv
    <2>. SUFFICES ASSUME Init PROVE CountInv
        OBVIOUS
    <2>1. Outstanding = {} /\ Cardinality(Outstanding) = 0
        BY FS_EmptySet DEF Init, Outstanding, OutstandingIn
    <2>2. /\ dialogue.status = "READY" /\ dialogue.activeTurnId = NoTurn
          /\ dialogue.pendingCount = 0
        BY DEF Init
    <2>3. PendingCountExact
        BY <2>1, <2>2 DEF PendingCountExact
    <2>4. StatusAgreesWithWork
        BY <2>2 DEF StatusAgreesWithWork
    <2>. QED
        BY <2>2, <2>3, <2>4 DEF CountInv, GivenUpCountsNothing, WaitsInSession
<1>2. TypeOK /\ StoreInv /\ TasksInv /\ CountInv /\ [Next]_vars => CountInv'
    BY CountStep DEF TasksInv
<1>. QED
    BY <1>1, <1>2, TypeCorrect, StoreInvariant, TasksInvariant, PTL DEF Spec

\* A turn is WAITING exactly while a question of its own is outstanding.
THEOREM WaitsForAnswers == Spec => []TurnWaitsForAnswers
<1>1. AnswersInv => TurnWaitsForAnswers
    BY DEF AnswersInv
<1>. QED
    BY <1>1, AnswersInvariant, PTL

\* pendingCount never exceeds what is outstanding, and is that number while
\* everything outstanding is of the bound session.
THEOREM PendingCounted == Spec => []PendingCountExact
<1>1. CountInv => PendingCountExact
    BY DEF CountInv
<1>. QED
    BY <1>1, CountInvariant, PTL

\* The status of a dialogue agrees with its work.
THEOREM StatusAgrees == Spec => []StatusAgreesWithWork
<1>1. CountInv => StatusAgreesWithWork
    BY DEF CountInv
<1>. QED
    BY <1>1, CountInvariant, PTL

\* The reconciliation after a crash leaves nothing that refers to the runtime
\* that is gone.
LEMMA ReconcileSettles ==
    ASSUME TypeOK, StoreInv, CountInv, Reconcile
    PROVE  /\ dialogue'.activeTurnId = NoTurn
           /\ dialogue'.runtimeSessionId = NoSession
           /\ dialogue'.status \in {"READY", "UNCERTAIN"}
           /\ dialogue'.pendingCount = 0
           /\ \A t \in Turns : Unsettled(t) => turns'[t].status = "UNCERTAIN"
<1>. DEFINE a == dialogue.activeTurnId
<1>1. \A t \in Turns : Unsettled(t) <=> a = t
    BY DEF StoreInv, ActiveTurnIsTheUnsettledOne
<1>2. CASE a # NoTurn
    <2>1. a \in Turns
        BY <1>2 DEF TypeOK, DialogueRow
    <2>2. Interruptible(a)
        BY <1>1, <2>1 DEF Interruptible, Unsettled
    <2>3. FinishInterrupted(a, "UNCERTAIN")
        BY <1>2, <2>2 DEF Reconcile, InterruptTurn, Interruptible
    <2>4. /\ turns' = [turns EXCEPT ![a].status = "UNCERTAIN",
                                    ![a].dispatchState = "UNCERTAIN"]
          /\ dialogue' = [status |-> "UNCERTAIN", activeTurnId |-> NoTurn,
                          runtimeSessionId |-> NoSession, pendingCount |-> 0]
        BY <2>3 DEF FinishInterrupted
    <2>5. turns'[a].status = "UNCERTAIN"
        BY <2>1, <2>4 DEF TypeOK, TurnRow
    <2>. QED
        BY <1>1, <2>4, <2>5
<1>3. CASE a = NoTurn
    <2>1. \A t \in Turns : ~Unsettled(t)
        BY <1>1, <1>3, TurnsAssumption
    <2>2. CASE DetachIdleRuntime
        BY <1>3, <2>1, <2>2, DetachedIsClear
    <2>3. CASE dialogue.runtimeSessionId = NoSession /\ UNCHANGED store
        <3>1. dialogue.status \in {"READY", "UNCERTAIN"}
            <4>1. dialogue.status \in DialogueStatus
                BY DEF TypeOK, DialogueRow
            <4>2. dialogue.status # "WAITING"
                BY <2>3 DEF CountInv, WaitsInSession
            <4>3. dialogue.status # "RUNNING"
                BY <1>3 DEF CountInv, StatusAgreesWithWork
            <4>4. dialogue.status # "QUEUED"
                BY <1>3 DEF CountInv, StatusAgreesWithWork
            <4>. QED
                BY <4>1, <4>2, <4>3, <4>4 DEF DialogueStatus
        <3>2. dialogue.pendingCount = 0
            <4>1. CASE dialogue.status = "READY"
                BY <4>1 DEF CountInv, StatusAgreesWithWork
            <4>2. CASE dialogue.status = "UNCERTAIN"
                BY <4>2 DEF CountInv, GivenUpCountsNothing
            <4>. QED
                BY <3>1, <4>1, <4>2
        <3>. QED
            BY <1>3, <2>1, <2>3, <3>1, <3>2 DEF store
    <2>. QED
        BY <1>3, <2>2, <2>3 DEF Reconcile
<1>. QED
    BY <1>2, <1>3

\* When the process serves again after a crash, its dialogue is settled.
THEOREM RestartSettled == Spec => RestartSettles
<1>1. TypeOK /\ StoreInv /\ CountInv /\ [Next]_vars =>
          [phase = "booting" /\ phase' = "up" =>
              /\ dialogue'.activeTurnId = NoTurn
              /\ dialogue'.runtimeSessionId = NoSession
              /\ dialogue'.status \in {"READY", "UNCERTAIN"}
              /\ dialogue'.pendingCount = 0
              /\ \A t \in Turns : Unsettled(t) => turns'[t].status = "UNCERTAIN"
          ]_vars
    <2>. SUFFICES ASSUME TypeOK, StoreInv, CountInv, [Next]_vars,
                         phase = "booting", phase' = "up"
                  PROVE  Reconcile
        BY ReconcileSettles
    <2>1. phase' # phase
        OBVIOUS
    <2>. QED
        BY <2>1
        DEF Next, Dispatch, vars, process, Send, BeginDispatch, ReadBinding,
            BindNewRuntime, BindExistingRuntime, OpenResolves,
            CancelBeforeAdmission, SendToRuntime, ReadCancelFlag,
            CancelFromDispatcher, DispatchFails, PersistDispatchFailure,
            PersistFailureLost, ResultResolves, ResultRejects, CancelTurn,
            CancelRuntimeTurn, TurnStarted, TurnCompleted, Respond,
            ResponseDelivered, ResponseFails, ResponseDeliveryFailed,
            InteractionResolved, InteractionRequested, SessionClosed,
            SessionVanishes, Reopen, Crash
<1>. QED
    BY <1>1, TypeCorrect, StoreInvariant, CountInvariant, PTL
    DEF Spec, RestartSettles
=============================================================================
