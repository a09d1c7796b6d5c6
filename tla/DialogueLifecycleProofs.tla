---------------------- MODULE DialogueLifecycleProofs ----------------------
(***************************************************************************)
(* Theorems about DialogueLifecycle, for every set of turns, sessions and  *)
(* requests and any number of crashes.                                     *)
(***************************************************************************)
EXTENDS DialogueLifecycle, FiniteSetTheorems, TLAPS

-----------------------------------------------------------------------------
(* Type correctness.                                                       *)

\* The number of outstanding interactions that the handlers store in
\* pendingCount is a natural number, whatever rows are taken out of the count.
LEMMA OutstandingCount ==
    ASSUME NEW S
    PROVE  Cardinality(Outstanding \ S) \in Nat
<1>1. Outstanding \ S \subseteq Requests
    BY DEF Outstanding, OutstandingIn
<1>2. IsFiniteSet(Outstanding \ S)
    BY <1>1, RequestsAssumption, FS_Subset
<1>. QED
    BY <1>2, FS_CardinalityType

\* The cleanup of interactions keeps the rows well-typed.
LEMMA AbandonTypeOK ==
    ASSUME interactions \in [Requests -> InteractionRow],
           NEW scope, AbandonInteractions(scope)
    PROVE  interactions' \in [Requests -> InteractionRow]
BY DEF AbandonInteractions, InteractionRow, InteractionStatus

\* Writing the status and the dispatch state of a turn, or the status and the
\* count of the dialogue, keeps the rows well-typed.
LEMMA TurnUpdate ==
    ASSUME turns \in [Turns -> TurnRow], NEW t \in Turns,
           NEW status \in TurnStatus, NEW state \in DispatchState
    PROVE  [turns EXCEPT ![t].status = status, ![t].dispatchState = state]
              \in [Turns -> TurnRow]
BY DEF TurnRow

LEMMA DialogueUpdate ==
    ASSUME dialogue \in DialogueRow, NEW status \in DialogueStatus,
           NEW count \in Nat
    PROVE  [dialogue EXCEPT !.status = status, !.pendingCount = count]
              \in DialogueRow
BY DEF DialogueRow

\* The part of TypeOK that concerns the rows.
StoreTypeOK ==
    /\ dialogue \in DialogueRow
    /\ turns \in [Turns -> TurnRow]
    /\ interactions \in [Requests -> InteractionRow]

\* An interruption, whatever its reason, keeps the rows well-typed.
LEMMA InterruptTypeOK ==
    ASSUME StoreTypeOK, NEW t \in Turns, NEW matches \in BOOLEAN,
           NEW outcome \in Outcomes, InterruptTurn(t, matches, outcome)
    PROVE  StoreTypeOK'
<1>1. CASE FinishInterrupted(t, outcome)
    <2>1. dialogue' \in DialogueRow
        BY <1>1 DEF FinishInterrupted, DialogueRow, DialogueStatus
    <2>2. turns' \in [Turns -> TurnRow]
        <3>. DEFINE state == IF outcome = "UNCERTAIN" THEN "UNCERTAIN"
                                                      ELSE "FINISHED"
        <3>1. turns' = [turns EXCEPT ![t].status = outcome,
                                     ![t].dispatchState = state]
            BY <1>1 DEF FinishInterrupted
        <3>2. state \in DispatchState /\ outcome \in TurnStatus
            BY DEF DispatchState, TurnStatus
        <3>. HIDE DEF state
        <3>. QED
            BY <3>1, <3>2, TurnUpdate DEF StoreTypeOK
    <2>3. interactions' \in [Requests -> InteractionRow]
        BY <1>1, AbandonTypeOK DEF FinishInterrupted, StoreTypeOK
    <2>. QED
        BY <2>1, <2>2, <2>3 DEF StoreTypeOK
<1>2. CASE UNCHANGED store
    BY <1>2 DEF store, StoreTypeOK
<1>. QED
    BY <1>1, <1>2 DEF InterruptTurn

\* Every step keeps the rows well-typed.
LEMMA StoreTypeStep ==
    ASSUME TypeOK, [Next]_vars
    PROVE  StoreTypeOK'
<1>0. StoreTypeOK
    BY DEF TypeOK, StoreTypeOK
<1>. USE DEF TypeOK, TurnRow, TurnStatus, DispatchState, DialogueRow,
             DialogueStatus, InteractionRow, InteractionStatus
<1>1. CASE UNCHANGED store
    BY <1>0, <1>1 DEF store, StoreTypeOK
<1>2. ASSUME NEW t \in Turns, Send(t)
      PROVE  StoreTypeOK'
    <2>1. turns' \in [Turns -> TurnRow]
        BY <1>2, TurnUpdate DEF Send
    <2>2. dialogue' \in DialogueRow
        BY <1>2 DEF Send
    <2>3. interactions' \in [Requests -> InteractionRow]
        BY <1>2 DEF Send
    <2>. QED
        BY <2>1, <2>2, <2>3 DEF StoreTypeOK
<1>3. ASSUME NEW t \in Turns, BeginDispatch(t)
      PROVE  StoreTypeOK'
    <2>1. CASE InterruptTurn(t, TRUE, "CANCELLED")
        BY <1>0, <2>1, InterruptTypeOK DEF Outcomes
    <2>2. CASE turns' = [turns EXCEPT ![t].dispatchState = "DISPATCHING"]
               /\ UNCHANGED <<dialogue, interactions>>
        BY <2>2, SMTT(30) DEF StoreTypeOK
    <2>. QED
        BY <1>1, <1>3, <2>1, <2>2 DEF BeginDispatch
<1>4. ASSUME NEW t \in Turns, BindNewRuntime(t)
      PROVE  StoreTypeOK'
    BY <1>4 DEF BindNewRuntime, StoreTypeOK
<1>5. ASSUME NEW t \in Turns, CancelBeforeAdmission(t)
      PROVE  StoreTypeOK'
    BY <1>0, <1>1, <1>5, InterruptTypeOK DEF CancelBeforeAdmission, Outcomes
<1>6. ASSUME NEW t \in Turns, PersistDispatchFailure(t)
      PROVE  StoreTypeOK'
    <2>1. DispatchFailureOutcome(t) \in Outcomes
        BY DEF DispatchFailureOutcome, Outcomes
    <2>. QED
        BY <1>0, <1>6, <2>1, InterruptTypeOK DEF PersistDispatchFailure
<1>7. ASSUME NEW t \in Turns, CancelTurn(t)
      PROVE  StoreTypeOK'
    <2>. DEFINE flag == turns[t].cancelRequested
                          \/ turns[t].dispatchState # "FINISHED"
    <2>1. flag \in BOOLEAN
        OBVIOUS
    <2>2. turns' = [turns EXCEPT ![t].cancelRequested = flag]
        BY <1>7 DEF CancelTurn
    <2>. HIDE DEF flag
    <2>3. turns' \in [Turns -> TurnRow]
        BY <2>1, <2>2
    <2>. QED
        BY <1>7, <2>3 DEF CancelTurn, StoreTypeOK
<1>8. ASSUME NEW t \in Turns, TurnStarted(t)
      PROVE  StoreTypeOK'
    <2>1. CASE /\ turns' = [turns EXCEPT ![t].status = "RUNNING",
                                         ![t].dispatchState = "ADMITTED"]
               /\ dialogue' = [dialogue EXCEPT !.status = "RUNNING"]
               /\ UNCHANGED interactions
        <3>1. turns' \in [Turns -> TurnRow]
            BY <2>1, TurnUpdate
        <3>2. dialogue' \in DialogueRow
            BY <2>1
        <3>. QED
            BY <2>1, <3>1, <3>2 DEF StoreTypeOK
    <2>. QED
        BY <1>1, <1>8, <2>1 DEF TurnStarted
<1>9. ASSUME NEW t \in Turns, TurnCompleted(t)
      PROVE  StoreTypeOK'
    <2>1. ASSUME NEW o \in RuntimeOutcomes, CompleteTurn(t, o)
          PROVE  StoreTypeOK'
        <3>1. TurnOutcome(o) \in Outcomes
            BY DEF TurnOutcome, Outcomes
        <3>2. turns' \in [Turns -> TurnRow]
            BY <2>1, <3>1, TurnUpdate DEF CompleteTurn
        <3>3. interactions' \in [Requests -> InteractionRow]
            BY <2>1, AbandonTypeOK DEF CompleteTurn
        <3>4. dialogue' \in DialogueRow
            BY <2>1, OutstandingCount DEF CompleteTurn
        <3>. QED
            BY <3>2, <3>3, <3>4 DEF StoreTypeOK
    <2>. QED
        BY <1>1, <1>9, <2>1 DEF TurnCompleted
<1>10. ASSUME NEW r \in Requests, Respond(r)
       PROVE  StoreTypeOK'
    <2>1. dialogue' = dialogue /\ turns' = turns
        BY <1>10 DEF Respond
    <2>2. interactions' = [interactions EXCEPT ![r].status = "RESPONDING"]
        BY <1>10 DEF Respond
    <2>3. [interactions[r] EXCEPT !.status = "RESPONDING"] \in InteractionRow
        BY DEF StoreTypeOK, InteractionRow, InteractionStatus
    <2>4. interactions' \in [Requests -> InteractionRow]
        BY <2>2, <2>3 DEF StoreTypeOK
    <2>. QED
        BY <2>1, <2>4 DEF StoreTypeOK
<1>11. ASSUME NEW r \in Requests, ResponseDeliveryFailed(r)
       PROVE  StoreTypeOK'
    <2>1. CASE responder[r].affected # NoTurn
        <3>1. responder[r].affected \in Turns
            BY <2>1 DEF Responder
        <3>2. AwaitsResponseOn(r, responder[r].affected) \in BOOLEAN
            BY DEF AwaitsResponseOn
        <3>. QED
            BY <1>0, <1>11, <2>1, <3>1, <3>2, InterruptTypeOK
            DEF ResponseDeliveryFailed, Outcomes
    <2>2. CASE /\ AbandonInteractions({r})
               /\ dialogue' = [dialogue EXCEPT !.status = "UNCERTAIN",
                                               !.pendingCount = 0,
                                               !.runtimeSessionId = NoSession]
               /\ UNCHANGED turns
        BY <2>2, AbandonTypeOK DEF StoreTypeOK
    <2>. QED
        BY <1>1, <1>11, <2>1, <2>2 DEF ResponseDeliveryFailed
<1>12. ASSUME NEW r \in Requests, InteractionResolved(r)
       PROVE  StoreTypeOK'
    <2>1. interactions' \in [Requests -> InteractionRow]
        BY <1>12 DEF InteractionResolved
    <2>2. turns' \in [Turns -> TurnRow]
        <3>. DEFINE after == TurnStatusAfterInteraction(interactions[r].turnId, r)
        <3>1. after \in TurnStatus
            BY DEF TurnStatusAfterInteraction
        <3>. HIDE DEF after
        <3>. QED
            BY <1>12, <3>1 DEF InteractionResolved, after
    <2>3. dialogue' \in DialogueRow
        BY <1>12, OutstandingCount
        DEF InteractionResolved, StatusAfterInteraction
    <2>. QED
        BY <2>1, <2>2, <2>3 DEF StoreTypeOK
<1>13. ASSUME NEW r \in Requests, NEW s \in Sessions,
              NEW t \in Turns \cup {NoTurn}, InteractionRequested(r, s, t)
       PROVE  StoreTypeOK'
    <2>1. turns' \in [Turns -> TurnRow]
        <3>1. CASE t = NoTurn
            BY <1>13, <3>1 DEF InteractionRequested
        <3>2. CASE t # NoTurn
            <4>1. t \in Turns
                BY <3>2
            <4>2. turns' = [turns EXCEPT ![t].status = "WAITING"]
                BY <1>13, <3>2 DEF InteractionRequested
            <4>. QED
                BY <4>1, <4>2
        <3>. QED
            BY <3>1, <3>2
    <2>2. dialogue' \in DialogueRow
        <3>. DEFINE count == dialogue.pendingCount + 1
        <3>1. count \in Nat
            OBVIOUS
        <3>2. dialogue' = [dialogue EXCEPT !.status = "WAITING",
                                           !.pendingCount = count]
            BY <1>13 DEF InteractionRequested
        <3>. HIDE DEF count
        <3>. QED
            BY <3>1, <3>2, DialogueUpdate
    <2>3. interactions' \in [Requests -> InteractionRow]
        BY <1>13 DEF InteractionRequested
    <2>. QED
        BY <2>1, <2>2, <2>3 DEF StoreTypeOK
<1>14. ASSUME NEW s \in Sessions, SessionClosed(s)
       PROVE  StoreTypeOK'
    <2>1. CASE CloseIdleSession
        BY <2>1, AbandonTypeOK DEF CloseIdleSession, StoreTypeOK
    <2>2. ASSUME NEW o \in {"CANCELLED", "FAILED"},
                 dialogue.activeTurnId # NoTurn,
                 CloseActiveSession(dialogue.activeTurnId, o)
          PROVE  StoreTypeOK'
        <3>1. turns' \in [Turns -> TurnRow]
            <4>1. CASE turns' = turns
                BY <4>1
            <4>2. CASE turns' = [turns EXCEPT
                          ![dialogue.activeTurnId].status = o,
                          ![dialogue.activeTurnId].dispatchState = "FINISHED"]
                <5>1. dialogue.activeTurnId \in Turns
                    BY <2>2
                <5>2. o \in TurnStatus
                    BY DEF Outcomes
                <5>. QED
                    BY <4>2, <5>1, <5>2, TurnUpdate
            <4>. QED
                BY <2>2, <4>1, <4>2 DEF CloseActiveSession
        <3>2. dialogue' \in DialogueRow
            BY <2>2 DEF CloseActiveSession
        <3>3. interactions' \in [Requests -> InteractionRow]
            BY <2>2, AbandonTypeOK DEF CloseActiveSession
        <3>. QED
            BY <3>1, <3>2, <3>3 DEF StoreTypeOK
    <2>. QED
        BY <1>1, <1>14, <2>1, <2>2 DEF SessionClosed
<1>15. ASSUME Reopen
       PROVE  StoreTypeOK'
    BY <1>15, AbandonTypeOK DEF Reopen, StoreTypeOK
<1>16. ASSUME Reconcile
       PROVE  StoreTypeOK'
    <2>1. CASE /\ dialogue.activeTurnId # NoTurn
               /\ InterruptTurn(dialogue.activeTurnId, TRUE, "UNCERTAIN")
        BY <1>0, <2>1, InterruptTypeOK DEF Outcomes
    <2>2. CASE DetachIdleRuntime
        BY <2>2, AbandonTypeOK DEF DetachIdleRuntime, StoreTypeOK
    <2>. QED
        BY <1>1, <1>16, <2>1, <2>2 DEF Reconcile
<1>. QED
    <2>1. CASE UNCHANGED vars
        BY <1>1, <2>1 DEF vars
    <2>2. CASE Next
        BY <1>1, <1>2, <1>3, <1>4, <1>5, <1>6, <1>7, <1>8, <1>9, <1>10, <1>11,
           <1>12, <1>13, <1>14, <1>15, <1>16, <2>2
        DEF Next, Dispatch, ReadBinding, BindExistingRuntime, OpenResolves,
            SendToRuntime, ReadCancelFlag, CancelFromDispatcher,
            ResultResolves, ResultRejects, DispatchFails, PersistFailureLost,
            CancelRuntimeTurn, ResponseDelivered, ResponseFails,
            SessionVanishes, Crash, store
    <2>. QED
        BY <2>1, <2>2

\* The two ways in which a dispatcher moves keep it well-typed.
LEMMA DispatcherMove ==
    ASSUME dispatcher \in [Turns -> Dispatcher], NEW t \in Turns,
           NEW pc \in DispatcherPC, AdvanceTo(t, pc) \/ LeaveAs(t, pc)
    PROVE  dispatcher' \in [Turns -> Dispatcher]
BY DEF AdvanceTo, LeaveAs, Dispatcher

\* Every step keeps the dispatchers well-typed.
LEMMA DispatcherTypeStep ==
    ASSUME TypeOK, [Next]_vars
    PROVE  dispatcher' \in [Turns -> Dispatcher]
<1>0. dispatcher \in [Turns -> Dispatcher]
    BY DEF TypeOK
<1>1. ASSUME NEW t \in Turns, NEW pc \in DispatcherPC,
             AdvanceTo(t, pc) \/ LeaveAs(t, pc)
      PROVE  dispatcher' \in [Turns -> Dispatcher]
    BY <1>0, <1>1, DispatcherMove
<1>2. ASSUME NEW t \in Turns, Dispatch(t)
      PROVE  dispatcher' \in [Turns -> Dispatcher]
    <2>1. CASE ReadBinding(t)
        BY <1>0, <2>1
        DEF ReadBinding, Dispatcher, DispatcherPC, TypeOK, DialogueRow
    <2>2. CASE BindNewRuntime(t)
        BY <1>0, <2>2 DEF BindNewRuntime, Dispatcher, DispatcherPC
    <2>3. CASE ReadCancelFlag(t)
        BY <1>1, <2>3 DEF ReadCancelFlag, DispatcherPC
    <2>4. CASE BeginDispatch(t) \/ CancelBeforeAdmission(t)
        BY <1>1, <2>4 DEF BeginDispatch, CancelBeforeAdmission, DispatcherPC
    <2>5. CASE \/ BindExistingRuntime(t) \/ OpenResolves(t)
               \/ SendToRuntime(t) \/ CancelFromDispatcher(t)
               \/ DispatchFails(t) \/ PersistDispatchFailure(t)
               \/ PersistFailureLost(t)
        BY <1>1, <2>5
        DEF BindExistingRuntime, OpenResolves, SendToRuntime,
            CancelFromDispatcher, DispatchFails, PersistDispatchFailure,
            PersistFailureLost, DispatcherPC
    <2>. QED
        BY <1>2, <2>1, <2>2, <2>3, <2>4, <2>5 DEF Dispatch
<1>3. ASSUME NEW t \in Turns,
             Send(t) \/ ResultResolves(t) \/ ResultRejects(t)
      PROVE  dispatcher' \in [Turns -> Dispatcher]
    BY <1>1, <1>3 DEF Send, ResultResolves, ResultRejects, DispatcherPC
<1>4. CASE Crash
    BY <1>0, <1>4 DEF Crash, Dispatcher, DispatcherPC
<1>5. CASE UNCHANGED dispatcher
    BY <1>0, <1>5
<1>. QED
    BY <1>2, <1>3, <1>4, <1>5
    DEF Next, vars, CancelTurn, CancelRuntimeTurn, TurnStarted, TurnCompleted,
        Respond, ResponseDelivered, ResponseFails, ResponseDeliveryFailed,
        InteractionResolved, InteractionRequested, SessionClosed,
        SessionVanishes, Reopen, Reconcile

\* Every step keeps the callers well-typed.
LEMMA CallersTypeStep ==
    ASSUME TypeOK, [Next]_vars
    PROVE  /\ canceller' \in [Turns -> Canceller]
           /\ responder' \in [Requests -> Responder]
<1>0. /\ canceller \in [Turns -> Canceller]
      /\ responder \in [Requests -> Responder]
    BY DEF TypeOK
<1>. DEFINE Goal == /\ canceller' \in [Turns -> Canceller]
                    /\ responder' \in [Requests -> Responder]
<1>1. CASE UNCHANGED callers
    BY <1>0, <1>1 DEF callers
<1>2. ASSUME NEW t \in Turns, CancelTurn(t) \/ CancelRuntimeTurn(t)
      PROVE  Goal
    BY <1>0, <1>2
    DEF CancelTurn, CancelRuntimeTurn, Canceller, TypeOK, DialogueRow
<1>3. ASSUME NEW r \in Requests, Respond(r)
      PROVE  Goal
    BY <1>0, <1>3 DEF Respond, Responder, TypeOK, DialogueRow, InteractionRow
<1>4. ASSUME NEW r \in Requests, ResponseDelivered(r) \/ ResponseFails(r)
                                    \/ ResponseDeliveryFailed(r)
      PROVE  Goal
    BY <1>0, <1>4
    DEF ResponseDelivered, ResponseFails, ResponseDeliveryFailed, Responder
<1>5. CASE Crash
    BY <1>5 DEF Crash, Canceller, Responder
<1>. QED
    BY <1>1, <1>2, <1>3, <1>4, <1>5
    DEF Next, vars, Dispatch, Send, BeginDispatch, ReadBinding, BindNewRuntime,
        BindExistingRuntime, OpenResolves, CancelBeforeAdmission,
        SendToRuntime, ReadCancelFlag, CancelFromDispatcher, ResultResolves,
        ResultRejects, DispatchFails, PersistDispatchFailure,
        PersistFailureLost, TurnStarted, TurnCompleted, InteractionResolved,
        InteractionRequested, SessionClosed, SessionVanishes, Reopen, Reconcile

\* Every step keeps the runtime's sessions and turns well-typed.
LEMMA RuntimeTypeStep ==
    ASSUME TypeOK, [Next]_vars
    PROVE  /\ sessions' \in [Sessions ->
                             {"unused", "opening", "open", "closed"}]
           /\ runtimeTurns' \in [Turns -> RuntimeTurn]
<1>. DEFINE Goal == /\ sessions' \in [Sessions ->
                                  {"unused", "opening", "open", "closed"}]
                    /\ runtimeTurns' \in [Turns -> RuntimeTurn]
<1>0. /\ sessions \in [Sessions -> {"unused", "opening", "open", "closed"}]
      /\ runtimeTurns \in [Turns -> RuntimeTurn]
    BY DEF TypeOK
<1>1. CASE UNCHANGED runtime
    BY <1>0, <1>1 DEF runtime
<1>2. ASSUME NEW t \in Turns,
             BindNewRuntime(t) \/ OpenResolves(t) \/ DispatchFails(t)
      PROVE  Goal
    BY <1>0, <1>2 DEF BindNewRuntime, OpenResolves, DispatchFails
<1>3. ASSUME NEW t \in Turns, SendToRuntime(t)
      PROVE  Goal
    BY <1>0, <1>3 DEF SendToRuntime, RuntimeTurn, TypeOK, Dispatcher
<1>4. ASSUME NEW t \in Turns, CancelFromDispatcher(t) \/ CancelRuntimeTurn(t)
      PROVE  Goal
    <2>1. RuntimeHas(t) \in BOOLEAN
        BY DEF RuntimeHas
    <2>2. AskToCancel(t) => runtimeTurns' \in [Turns -> RuntimeTurn]
        BY <1>0, <2>1 DEF AskToCancel, RuntimeTurn
    <2>. QED
        BY <1>0, <1>4, <2>2 DEF CancelFromDispatcher, CancelRuntimeTurn
<1>5. ASSUME NEW t \in Turns, TurnStarted(t) \/ TurnCompleted(t)
      PROVE  Goal
    <2>1. \/ runtimeTurns' = [runtimeTurns EXCEPT ![t].state = "started"]
          \/ runtimeTurns' = [runtimeTurns EXCEPT ![t] = Ended]
        BY <1>5 DEF TurnStarted, TurnCompleted
    <2>2. Ended \in RuntimeTurn
        BY DEF Ended, RuntimeTurn
    <2>3. runtimeTurns' \in [Turns -> RuntimeTurn]
        BY <1>0, <2>1, <2>2 DEF RuntimeTurn
    <2>. QED
        BY <1>0, <1>5, <2>3 DEF TurnStarted, TurnCompleted
<1>6. ASSUME NEW s \in Sessions, SessionClosed(s) \/ SessionVanishes(s)
      PROVE  Goal
    <2>1. EndSession(s)
        BY <1>6 DEF SessionClosed, SessionVanishes
    <2>2. Ended \in RuntimeTurn
        BY DEF Ended, RuntimeTurn
    <2>. QED
        BY <1>0, <2>1, <2>2 DEF EndSession
<1>7. CASE Crash
    BY <1>0, <1>7 DEF Crash, RuntimeTurn, Ended
<1>. QED
    BY <1>1, <1>2, <1>3, <1>4, <1>5, <1>6, <1>7
    DEF Next, vars, Dispatch, Send, BeginDispatch, ReadBinding,
        BindExistingRuntime, CancelBeforeAdmission, ReadCancelFlag,
        ResultResolves, ResultRejects, PersistDispatchFailure,
        PersistFailureLost, CancelTurn, Respond, ResponseDelivered,
        ResponseFails, ResponseDeliveryFailed, InteractionResolved,
        InteractionRequested, Reopen, Reconcile

\* Every step keeps the state of the process well-typed.
LEMMA ProcessTypeStep ==
    ASSUME TypeOK, [Next]_vars
    PROVE  phase' \in {"up", "booting"} /\ crashes' \in Nat
<1>1. CASE UNCHANGED process
    BY <1>1 DEF process, TypeOK
<1>2. CASE Crash
    BY <1>2 DEF Crash, TypeOK
<1>3. CASE Reconcile
    <2>1. phase' = "up" /\ crashes' = crashes
        BY <1>3 DEF Reconcile
    <2>. QED
        BY <2>1 DEF TypeOK
<1>4. ASSUME NEW t \in Turns, Dispatch(t)
      PROVE  UNCHANGED process
    BY <1>4
    DEF Dispatch, BeginDispatch, ReadBinding, BindNewRuntime,
        BindExistingRuntime, OpenResolves, CancelBeforeAdmission,
        SendToRuntime, ReadCancelFlag, CancelFromDispatcher, DispatchFails,
        PersistDispatchFailure, PersistFailureLost
<1>5. ASSUME NEW t \in Turns,
             \/ Send(t) \/ ResultResolves(t) \/ ResultRejects(t)
             \/ CancelTurn(t) \/ CancelRuntimeTurn(t)
             \/ TurnStarted(t) \/ TurnCompleted(t)
      PROVE  UNCHANGED process
    BY <1>5
    DEF Send, ResultResolves, ResultRejects, CancelTurn, CancelRuntimeTurn,
        TurnStarted, TurnCompleted
<1>6. ASSUME NEW r \in Requests,
             \/ Respond(r) \/ ResponseDelivered(r) \/ ResponseFails(r)
             \/ ResponseDeliveryFailed(r) \/ InteractionResolved(r)
             \/ \E s \in Sessions, t \in Turns \cup {NoTurn} :
                   InteractionRequested(r, s, t)
      PROVE  UNCHANGED process
    BY <1>6
    DEF Respond, ResponseDelivered, ResponseFails, ResponseDeliveryFailed,
        InteractionResolved, InteractionRequested
<1>7. CASE (\E s \in Sessions : SessionClosed(s) \/ SessionVanishes(s))
           \/ Reopen
    BY <1>1, <1>7 DEF SessionClosed, SessionVanishes, Reopen
<1>. QED
    BY <1>1, <1>2, <1>3, <1>4, <1>5, <1>6, <1>7 DEF Next, vars

\* Every reachable state is well-typed.
THEOREM TypeCorrect == Spec => []TypeOK
<1>1. Init => TypeOK
    BY DEF Init, TypeOK, DialogueRow, DialogueStatus, TurnRow, TurnStatus,
           DispatchState, InteractionRow, InteractionStatus, Dispatcher,
           DispatcherPC, Canceller, Responder, RuntimeTurn
<1>2. TypeOK /\ [Next]_vars => TypeOK'
    BY StoreTypeStep, DispatcherTypeStep, CallersTypeStep, RuntimeTypeStep,
       ProcessTypeStep DEF TypeOK, StoreTypeOK
<1>. QED
    BY <1>1, <1>2, PTL DEF Spec
=============================================================================
