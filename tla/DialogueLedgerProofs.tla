------------------------ MODULE DialogueLedgerProofs ------------------------
(***************************************************************************)
(* The rows of a dialogue implement TurnLedger, for every value of the     *)
(* constants.  The proof carries StoreInv: each operation on the rows      *)
(* preserves it and, seen through Verdict, admits a turn, settles the open *)
(* one, or changes nothing.                                                *)
(***************************************************************************)
EXTENDS DialogueLifecycleProofs

-----------------------------------------------------------------------------
(* Steps of the ledger, read off the rows.                                 *)

VerdictsKept == \A u \in Turns : Verdict(u)' = Verdict(u)

Admits(t) ==
    /\ Verdict(t) = "unsent" /\ Verdict(t)' = "open"
    /\ \A u \in Turns : Verdict(u) # "open"
    /\ \A u \in Turns \ {t} : Verdict(u)' = Verdict(u)

Settles(t) ==
    /\ Verdict(t) = "open" /\ Verdict(t)' \in Outcomes
    /\ \A u \in Turns \ {t} : Verdict(u)' = Verdict(u)

LedgerStep == VerdictsKept \/ \E t \in Turns : Admits(t) \/ Settles(t)

\* What every operation on the rows is shown to do.
StoreStep == StoreInv' /\ LedgerStep

LEMMA LedgerStepImplements ==
    ASSUME LedgerStep
    PROVE  [Ledger!Next]_([t \in Turns |-> Verdict(t)])
<1>. DEFINE v == [t \in Turns |-> Verdict(t)]
<1>1. CASE VerdictsKept
    BY <1>1 DEF VerdictsKept
<1>2. ASSUME NEW t \in Turns, Admits(t)
      PROVE  Ledger!Admit(t)
    BY <1>2 DEF Admits, Ledger!Admit
<1>3. ASSUME NEW t \in Turns, Settles(t)
      PROVE  Ledger!Settle(t)
    BY <1>3 DEF Settles, Outcomes, Ledger!Settle, Ledger!Verdicts
<1>. QED
    BY <1>1, <1>2, <1>3 DEF LedgerStep, Ledger!Next

\* Whether a turn is open is what its dispatch state says.
LEMMA OpenIsUnsettled ==
    ASSUME turns \in [Turns -> TurnRow], NEW t \in Turns
    PROVE  /\ Verdict(t) = "open" <=> Unsettled(t)
           /\ turns[t].dispatchState = "NONE" => Verdict(t) = "unsent"
BY DEF Verdict, Unsettled, TurnRow, TurnStatus, Outcomes, DispatchState

\* Rows unchanged.
LEMMA StutterStep ==
    ASSUME StoreInv, UNCHANGED store
    PROVE  StoreStep
<1>1. StoreInv'
    BY DEF store, StoreInv, ActiveTurnIsTheUnsettledOne, UncertainIsIdle,
           QuestionsAreOfActiveTurn, UnsentTurnsAreUntouched, Unsettled,
           Outstanding, OutstandingIn
<1>2. VerdictsKept
    BY DEF store, VerdictsKept, Verdict, Unsettled
<1>. QED
    BY <1>1, <1>2 DEF StoreStep, LedgerStep

\* An operation that settles the active turn and leaves no turn active and no
\* question of a turn outstanding.
LEMMA SettleStep ==
    ASSUME StoreTypeOK, StoreInv, NEW t \in Turns, dialogue.activeTurnId = t,
           NEW outcome \in Outcomes, NEW state \in {"FINISHED", "UNCERTAIN"},
           turns' = [turns EXCEPT ![t].status = outcome,
                                  ![t].dispatchState = state],
           dialogue'.activeTurnId = NoTurn,
           \A r \in Outstanding' : interactions'[r].turnId = NoTurn
    PROVE  StoreStep
<1>1. /\ turns'[t].status = outcome
      /\ turns'[t].dispatchState = state
      /\ \A u \in Turns \ {t} : turns'[u] = turns[u]
    BY DEF StoreTypeOK, TurnRow
<1>2. \A u \in Turns : Unsettled(u) <=> u = t
    BY TurnsAssumption DEF StoreInv, ActiveTurnIsTheUnsettledOne
<1>3. \A u \in Turns : ~Unsettled(u)'
    BY <1>1, <1>2 DEF Unsettled
<1>4. StoreInv'
    <2>1. ActiveTurnIsTheUnsettledOne'
        BY <1>3, TurnsAssumption DEF ActiveTurnIsTheUnsettledOne
    <2>2. UncertainIsIdle' /\ QuestionsAreOfActiveTurn'
        BY DEF UncertainIsIdle, QuestionsAreOfActiveTurn
    <2>3. UnsentTurnsAreUntouched'
        BY <1>1 DEF StoreInv, UnsentTurnsAreUntouched, Outcomes
    <2>. QED
        BY <2>1, <2>2, <2>3 DEF StoreInv
<1>5. Settles(t)
    <2>1. Verdict(t) = "open"
        BY <1>2, OpenIsUnsettled DEF StoreTypeOK
    <2>2. Verdict(t)' = outcome
        BY <1>1, <1>3 DEF Verdict
    <2>3. \A u \in Turns \ {t} : Verdict(u)' = Verdict(u)
        BY <1>1 DEF Verdict, Unsettled
    <2>. QED
        BY <2>1, <2>2, <2>3 DEF Settles
<1>. QED
    BY <1>4, <1>5 DEF StoreStep, LedgerStep

\* An operation that keeps the active turn, settles nothing, and writes the
\* status of unsettled turns only.
LEMMA KeepStep ==
    ASSUME StoreTypeOK, StoreInv, StoreTypeOK',
           dialogue'.activeTurnId = dialogue.activeTurnId,
           UncertainIsIdle', QuestionsAreOfActiveTurn',
           \A u \in Turns :
              /\ Unsettled(u) => Unsettled(u)' /\ turns'[u].status # "NONE"
              /\ ~Unsettled(u) =>
                    /\ turns'[u].status = turns[u].status
                    /\ turns'[u].dispatchState = turns[u].dispatchState
    PROVE  StoreStep
<1>1. \A u \in Turns : Unsettled(u)' <=> Unsettled(u)
    BY DEF Unsettled
<1>2. StoreInv'
    <2>1. ActiveTurnIsTheUnsettledOne'
        BY <1>1 DEF StoreInv, ActiveTurnIsTheUnsettledOne
    <2>2. UnsentTurnsAreUntouched'
        BY <1>1 DEF StoreInv, UnsentTurnsAreUntouched, Unsettled
    <2>. QED
        BY <2>1, <2>2 DEF StoreInv
<1>3. VerdictsKept
    BY <1>1 DEF VerdictsKept, Verdict
<1>. QED
    BY <1>2, <1>3 DEF StoreStep, LedgerStep

\* After a cleanup of everything nothing is outstanding; after a cleanup of
\* some, nothing new is.
LEMMA AbandonAll ==
    ASSUME NEW scope, AbandonInteractions(scope)
    PROVE  Outstanding' = Outstanding \ scope
BY DEF AbandonInteractions, Outstanding, OutstandingIn

LEMMA FinishStep ==
    ASSUME StoreTypeOK, StoreInv, NEW t \in Turns, dialogue.activeTurnId = t,
           NEW outcome \in Outcomes, FinishInterrupted(t, outcome)
    PROVE  StoreStep
<1>. DEFINE state == IF outcome = "UNCERTAIN" THEN "UNCERTAIN" ELSE "FINISHED"
<1>1. state \in {"FINISHED", "UNCERTAIN"}
    OBVIOUS
<1>2. /\ turns' = [turns EXCEPT ![t].status = outcome,
                                ![t].dispatchState = state]
      /\ dialogue'.activeTurnId = NoTurn
    BY DEF FinishInterrupted
<1>3. Outstanding' = {}
    BY AbandonAll DEF FinishInterrupted, Outstanding, OutstandingIn
<1>. HIDE DEF state
<1>. QED
    BY <1>1, <1>2, <1>3, SettleStep

\* InterruptDialogueTurnCommand, whatever the reason.
LEMMA InterruptStep ==
    ASSUME StoreTypeOK, StoreInv, NEW t \in Turns, NEW matches \in BOOLEAN,
           NEW outcome \in Outcomes, InterruptTurn(t, matches, outcome)
    PROVE  StoreStep
BY FinishStep, StutterStep DEF InterruptTurn, Interruptible

LEMMA SendStep ==
    ASSUME StoreTypeOK, StoreInv, NEW t \in Turns, Send(t)
    PROVE  StoreStep
<1>1. /\ turns'[t].status = "QUEUED"
      /\ turns'[t].dispatchState = "SAVED"
      /\ \A u \in Turns \ {t} : turns'[u] = turns[u]
    BY DEF Send, StoreTypeOK, TurnRow
<1>2. dialogue.activeTurnId = NoTurn /\ dialogue'.activeTurnId = t
      /\ dialogue'.status = "QUEUED"
    BY DEF Send, StoreTypeOK, DialogueRow
<1>3. \A u \in Turns : ~Unsettled(u)
    BY <1>2, TurnsAssumption DEF StoreInv, ActiveTurnIsTheUnsettledOne
<1>4. StoreInv'
    <2>1. ActiveTurnIsTheUnsettledOne'
        BY <1>1, <1>2, <1>3 DEF ActiveTurnIsTheUnsettledOne, Unsettled
    <2>2. UncertainIsIdle'
        BY <1>2 DEF UncertainIsIdle
    <2>3. QuestionsAreOfActiveTurn'
        BY <1>2 DEF Send, StoreInv, QuestionsAreOfActiveTurn, Outstanding,
                    OutstandingIn
    <2>4. UnsentTurnsAreUntouched'
        BY <1>1 DEF StoreInv, UnsentTurnsAreUntouched
    <2>. QED
        BY <2>1, <2>2, <2>3, <2>4 DEF StoreInv
<1>5. Admits(t)
    <2>1. Verdict(t) = "unsent"
        BY OpenIsUnsettled
        DEF Send, StoreInv, UnsentTurnsAreUntouched, StoreTypeOK
    <2>2. Verdict(t)' = "open"
        BY <1>1 DEF Verdict, Unsettled
    <2>3. \A u \in Turns : Verdict(u) # "open"
        BY <1>3, OpenIsUnsettled DEF StoreTypeOK
    <2>4. \A u \in Turns \ {t} : Verdict(u)' = Verdict(u)
        BY <1>1 DEF Verdict, Unsettled
    <2>. QED
        BY <2>1, <2>2, <2>3, <2>4 DEF Admits
<1>. QED
    BY <1>4, <1>5 DEF StoreStep, LedgerStep

LEMMA BeginDispatchStep ==
    ASSUME StoreTypeOK, StoreInv, StoreTypeOK', NEW t \in Turns,
           BeginDispatch(t)
    PROVE  StoreStep
<1>1. CASE InterruptTurn(t, TRUE, "CANCELLED")
    BY <1>1, InterruptStep DEF Outcomes
<1>2. CASE /\ turns[t].dispatchState = "SAVED"
           /\ turns' = [turns EXCEPT ![t].dispatchState = "DISPATCHING"]
           /\ UNCHANGED <<dialogue, interactions>>
    <2>1. \A u \in Turns :
              /\ turns'[u].status = turns[u].status
              /\ u # t => turns'[u].dispatchState = turns[u].dispatchState
              /\ turns'[t].dispatchState = "DISPATCHING"
        BY <1>2 DEF StoreTypeOK, TurnRow
    <2>2. UncertainIsIdle' /\ QuestionsAreOfActiveTurn'
        BY <1>2 DEF StoreInv, UncertainIsIdle, QuestionsAreOfActiveTurn,
                    Outstanding, OutstandingIn
    <2>3. \A u \in Turns :
              /\ Unsettled(u) => Unsettled(u)' /\ turns'[u].status # "NONE"
              /\ ~Unsettled(u) =>
                    /\ turns'[u].status = turns[u].status
                    /\ turns'[u].dispatchState = turns[u].dispatchState
        BY <1>2, <2>1 DEF Unsettled, StoreInv, UnsentTurnsAreUntouched
    <2>. QED
        BY <1>2, <2>2, <2>3, KeepStep
<1>. QED
    BY <1>1, <1>2, StutterStep DEF BeginDispatch

\* Interactions that are still outstanding were so before, for the same turn.
LEMMA QuestionsKept ==
    ASSUME StoreInv, dialogue'.activeTurnId = dialogue.activeTurnId,
           \A r \in Outstanding' :
              /\ r \in Outstanding
              /\ interactions'[r].turnId = interactions[r].turnId
    PROVE  QuestionsAreOfActiveTurn'
BY DEF StoreInv, QuestionsAreOfActiveTurn

LEMMA AbandonKeeps ==
    ASSUME interactions \in [Requests -> InteractionRow],
           NEW scope, AbandonInteractions(scope)
    PROVE  \A r \in Outstanding' :
              /\ r \in Outstanding
              /\ interactions'[r].turnId = interactions[r].turnId
BY DEF AbandonInteractions, Outstanding, OutstandingIn, InteractionRow

\* An operation that leaves the turns' statuses, dispatch states and the
\* pointer to the active one alone.
LEMMA TurnsKeptStep ==
    ASSUME StoreTypeOK, StoreInv, StoreTypeOK',
           \A u \in Turns :
              /\ turns'[u].status = turns[u].status
              /\ turns'[u].dispatchState = turns[u].dispatchState,
           dialogue'.activeTurnId = dialogue.activeTurnId,
           UncertainIsIdle',
           \A r \in Outstanding' :
              /\ r \in Outstanding
              /\ interactions'[r].turnId = interactions[r].turnId
    PROVE  StoreStep
<1>1. QuestionsAreOfActiveTurn'
    BY QuestionsKept
<1>2. \A u \in Turns : Unsettled(u) => Unsettled(u)' /\ turns'[u].status # "NONE"
    BY DEF Unsettled, StoreInv, UnsentTurnsAreUntouched
<1>. QED
    BY <1>1, <1>2, KeepStep

LEMMA BindNewRuntimeStep ==
    ASSUME StoreTypeOK, StoreInv, StoreTypeOK', NEW t \in Turns,
           BindNewRuntime(t)
    PROVE  StoreStep
<1>1. /\ dialogue'.activeTurnId = dialogue.activeTurnId
      /\ dialogue'.status = dialogue.status
    BY DEF BindNewRuntime, StoreTypeOK, DialogueRow
<1>2. UncertainIsIdle'
    BY <1>1 DEF StoreInv, UncertainIsIdle
<1>. QED
    BY <1>1, <1>2, TurnsKeptStep
    DEF BindNewRuntime, Outstanding, OutstandingIn

LEMMA CancelTurnStep ==
    ASSUME StoreTypeOK, StoreInv, StoreTypeOK', NEW t \in Turns, CancelTurn(t)
    PROVE  StoreStep
<1>1. \A u \in Turns :
          /\ turns'[u].status = turns[u].status
          /\ turns'[u].dispatchState = turns[u].dispatchState
    <2>. DEFINE flag == turns[t].cancelRequested
                          \/ turns[t].dispatchState # "FINISHED"
    <2>1. turns' = [turns EXCEPT ![t].cancelRequested = flag]
        BY DEF CancelTurn
    <2>. HIDE DEF flag
    <2>. QED
        BY <2>1 DEF StoreTypeOK, TurnRow
<1>2. UncertainIsIdle'
    BY DEF CancelTurn, StoreInv, UncertainIsIdle
<1>. QED
    BY <1>1, <1>2, TurnsKeptStep DEF CancelTurn, Outstanding, OutstandingIn

LEMMA RespondStep ==
    ASSUME StoreTypeOK, StoreInv, StoreTypeOK', NEW r \in Requests, Respond(r)
    PROVE  StoreStep
<1>1. \A q \in Outstanding' :
          q \in Outstanding /\ interactions'[q].turnId = interactions[q].turnId
    BY DEF Respond, Outstanding, OutstandingIn, StoreTypeOK, InteractionRow
<1>2. UncertainIsIdle'
    BY DEF Respond, StoreInv, UncertainIsIdle
<1>. QED
    BY <1>1, <1>2, TurnsKeptStep DEF Respond

LEMMA ResponseDeliveryFailedStep ==
    ASSUME TypeOK, StoreInv, StoreTypeOK', NEW r \in Requests,
           ResponseDeliveryFailed(r)
    PROVE  StoreStep
<1>0. StoreTypeOK
    BY DEF TypeOK, StoreTypeOK
<1>1. CASE responder[r].affected # NoTurn
    <2>1. responder[r].affected \in Turns
        BY <1>1 DEF TypeOK, Responder
    <2>2. AwaitsResponseOn(r, responder[r].affected) \in BOOLEAN
        BY DEF AwaitsResponseOn
    <2>. QED
        BY <1>0, <1>1, <2>1, <2>2, InterruptStep
        DEF ResponseDeliveryFailed, Outcomes
<1>2. CASE /\ dialogue.activeTurnId = NoTurn
           /\ AbandonInteractions({r})
           /\ dialogue' = [dialogue EXCEPT !.status = "UNCERTAIN",
                                           !.pendingCount = 0,
                                           !.runtimeSessionId = NoSession]
           /\ UNCHANGED turns
    <2>1. dialogue'.activeTurnId = NoTurn
        BY <1>0, <1>2 DEF StoreTypeOK, DialogueRow
    <2>2. UncertainIsIdle'
        BY <2>1 DEF UncertainIsIdle
    <2>. QED
        BY <1>0, <1>2, <2>1, <2>2, AbandonKeeps, TurnsKeptStep DEF StoreTypeOK
<1>. QED
    BY <1>1, <1>2, StutterStep DEF ResponseDeliveryFailed

LEMMA ReopenStep ==
    ASSUME StoreTypeOK, StoreInv, StoreTypeOK', Reopen
    PROVE  StoreStep
<1>1. dialogue.activeTurnId = NoTurn /\ dialogue'.activeTurnId = NoTurn
    BY DEF Reopen, StoreInv, UncertainIsIdle
<1>2. UncertainIsIdle'
    BY <1>1 DEF UncertainIsIdle
<1>. QED
    BY <1>1, <1>2, AbandonKeeps, TurnsKeptStep DEF Reopen, StoreTypeOK

LEMMA TurnStartedStep ==
    ASSUME StoreTypeOK, StoreInv, StoreTypeOK', NEW t \in Turns, TurnStarted(t)
    PROVE  StoreStep
<1>1. CASE /\ ConcernsTurn(t)
           /\ turns' = [turns EXCEPT ![t].status = "RUNNING",
                                     ![t].dispatchState = "ADMITTED"]
           /\ dialogue' = [dialogue EXCEPT !.status = "RUNNING"]
           /\ UNCHANGED interactions
    <2>1. /\ turns'[t].status = "RUNNING"
          /\ turns'[t].dispatchState = "ADMITTED"
          /\ \A u \in Turns \ {t} : turns'[u] = turns[u]
        BY <1>1 DEF StoreTypeOK, TurnRow
    <2>2. Unsettled(t)
        BY <1>1 DEF ConcernsTurn, StoreInv, ActiveTurnIsTheUnsettledOne
    <2>3. /\ dialogue'.activeTurnId = dialogue.activeTurnId
          /\ dialogue'.status = "RUNNING"
        BY <1>1 DEF StoreTypeOK, DialogueRow
    <2>4. UncertainIsIdle' /\ QuestionsAreOfActiveTurn'
        BY <1>1, <2>3 DEF StoreInv, UncertainIsIdle, QuestionsAreOfActiveTurn,
                          Outstanding, OutstandingIn
    <2>5. \A u \in Turns :
              /\ Unsettled(u) => Unsettled(u)' /\ turns'[u].status # "NONE"
              /\ ~Unsettled(u) =>
                    /\ turns'[u].status = turns[u].status
                    /\ turns'[u].dispatchState = turns[u].dispatchState
        BY <2>1, <2>2 DEF Unsettled, StoreInv, UnsentTurnsAreUntouched
    <2>. QED
        BY <2>3, <2>4, <2>5, KeepStep
<1>. QED
    BY <1>1, StutterStep DEF TurnStarted

LEMMA TurnCompletedStep ==
    ASSUME StoreTypeOK, StoreInv, NEW t \in Turns, TurnCompleted(t)
    PROVE  StoreStep
<1>1. ASSUME NEW o \in RuntimeOutcomes, ConcernsTurn(t), CompleteTurn(t, o)
      PROVE  StoreStep
    <2>. DEFINE outcome == TurnOutcome(o)
    <2>1. outcome \in Outcomes
        BY DEF TurnOutcome, Outcomes
    <2>2. dialogue.activeTurnId = t
        BY <1>1 DEF ConcernsTurn
    <2>3. /\ turns' = [turns EXCEPT ![t].status = outcome,
                                    ![t].dispatchState = "FINISHED"]
          /\ AbandonInteractions(OutstandingOf(t))
        BY <1>1 DEF CompleteTurn
    <2>4. dialogue'.activeTurnId = NoTurn
        BY <1>1 DEF CompleteTurn, StoreTypeOK, DialogueRow
    <2>5. \A r \in Outstanding' : interactions'[r].turnId = NoTurn
        <3>1. \A r \in Outstanding' :
                  /\ r \in Outstanding \ OutstandingOf(t)
                  /\ interactions'[r].turnId = interactions[r].turnId
            BY <2>3, AbandonAll, AbandonKeeps DEF StoreTypeOK
        <3>. QED
            BY <2>2, <3>1 DEF StoreInv, QuestionsAreOfActiveTurn, OutstandingOf
    <2>. HIDE DEF outcome
    <2>. QED
        BY <2>1, <2>2, <2>3, <2>4, <2>5, SettleStep
<1>. QED
    BY <1>1, StutterStep DEF TurnCompleted

LEMMA InteractionRequestedStep ==
    ASSUME StoreTypeOK, StoreInv, StoreTypeOK', NEW r \in Requests,
           NEW s \in Sessions, NEW t \in Turns \cup {NoTurn},
           InteractionRequested(r, s, t)
    PROVE  StoreStep
<1>1. /\ dialogue'.activeTurnId = dialogue.activeTurnId
      /\ dialogue'.status = "WAITING"
    <2>. DEFINE count == dialogue.pendingCount + 1
    <2>1. dialogue' = [dialogue EXCEPT !.status = "WAITING",
                                       !.pendingCount = count]
        BY DEF InteractionRequested
    <2>. HIDE DEF count
    <2>. QED
        BY <2>1 DEF StoreTypeOK, DialogueRow
<1>2. UncertainIsIdle'
    BY <1>1 DEF UncertainIsIdle
<1>3. QuestionsAreOfActiveTurn'
    <2>1. /\ interactions'[r].turnId = t
          /\ \A q \in Requests \ {r} : interactions'[q] = interactions[q]
        BY DEF InteractionRequested, StoreTypeOK
    <2>2. t # NoTurn => t = dialogue.activeTurnId
        BY DEF InteractionRequested
    <2>. QED
        BY <1>1, <2>1, <2>2 DEF StoreInv, QuestionsAreOfActiveTurn,
                                Outstanding, OutstandingIn
<1>4. \A u \in Turns :
          /\ turns'[u].dispatchState = turns[u].dispatchState
          /\ turns'[u].status = turns[u].status
                \/ (u = dialogue.activeTurnId /\ turns'[u].status = "WAITING")
    <2>1. CASE t = NoTurn
        BY <2>1 DEF InteractionRequested
    <2>2. CASE t # NoTurn
        <3>1. /\ turns' = [turns EXCEPT ![t].status = "WAITING"]
              /\ dialogue.activeTurnId = t
            BY <2>2 DEF InteractionRequested
        <3>. QED
            BY <3>1 DEF StoreTypeOK, TurnRow
    <2>. QED
        BY <2>1, <2>2
<1>5. \A u \in Turns :
          /\ Unsettled(u) => Unsettled(u)' /\ turns'[u].status # "NONE"
          /\ ~Unsettled(u) =>
                /\ turns'[u].status = turns[u].status
                /\ turns'[u].dispatchState = turns[u].dispatchState
    BY <1>4 DEF Unsettled, StoreInv, UnsentTurnsAreUntouched,
                ActiveTurnIsTheUnsettledOne
<1>. QED
    BY <1>1, <1>2, <1>3, <1>5, KeepStep

LEMMA InteractionResolvedStep ==
    ASSUME StoreTypeOK, StoreInv, StoreTypeOK', NEW r \in Requests,
           InteractionResolved(r)
    PROVE  StoreStep
<1>. DEFINE t     == interactions[r].turnId
            after == TurnStatusAfterInteraction(t, r)
<1>1. r \in Outstanding
    BY DEF InteractionResolved, Outstanding, OutstandingIn
<1>2. /\ dialogue'.activeTurnId = dialogue.activeTurnId
      /\ dialogue'.status \in {"WAITING", "READY", "RUNNING"}
    <2>. DEFINE status == StatusAfterInteraction(Outstanding \ {r})
                count  == Cardinality(Outstanding \ {r})
    <2>1. dialogue' = [dialogue EXCEPT !.status = status,
                                       !.pendingCount = count]
        BY DEF InteractionResolved
    <2>2. status \in {"WAITING", "READY", "RUNNING"}
        BY DEF StatusAfterInteraction
    <2>. HIDE DEF status, count
    <2>. QED
        BY <2>1, <2>2 DEF StoreTypeOK, DialogueRow
<1>3. UncertainIsIdle'
    BY <1>2 DEF UncertainIsIdle
<1>4. QuestionsAreOfActiveTurn'
    <2>1. interactions' = [interactions EXCEPT ![r].status = "RESOLVED"]
        BY DEF InteractionResolved
    <2>2. \A q \in Outstanding' :
              /\ q \in Outstanding
              /\ interactions'[q].turnId = interactions[q].turnId
        BY <2>1 DEF Outstanding, OutstandingIn, StoreTypeOK, InteractionRow
    <2>. QED
        BY <1>2, <2>2, QuestionsKept
<1>5. \A u \in Turns :
          /\ turns'[u].dispatchState = turns[u].dispatchState
          /\ turns'[u].status = turns[u].status
                \/ (u = dialogue.activeTurnId
                    /\ turns'[u].status \in {"WAITING", "RUNNING"})
    <2>1. after \in {"WAITING", "RUNNING"}
        BY DEF TurnStatusAfterInteraction
    <2>2. turns' = turns \/ (t # NoTurn
                             /\ turns' = [turns EXCEPT ![t].status = after])
        BY DEF InteractionResolved
    <2>3. t # NoTurn => t = dialogue.activeTurnId
        BY <1>1 DEF StoreInv, QuestionsAreOfActiveTurn
    <2>. HIDE DEF after
    <2>. QED
        BY <2>1, <2>2, <2>3 DEF StoreTypeOK, TurnRow
<1>6. \A u \in Turns :
          /\ Unsettled(u) => Unsettled(u)' /\ turns'[u].status # "NONE"
          /\ ~Unsettled(u) =>
                /\ turns'[u].status = turns[u].status
                /\ turns'[u].dispatchState = turns[u].dispatchState
    BY <1>5 DEF Unsettled, StoreInv, UnsentTurnsAreUntouched,
                ActiveTurnIsTheUnsettledOne
<1>. QED
    BY <1>2, <1>3, <1>4, <1>6, KeepStep

LEMMA SessionClosedStep ==
    ASSUME StoreTypeOK, StoreInv, StoreTypeOK', NEW s \in Sessions,
           SessionClosed(s)
    PROVE  StoreStep
<1>1. CASE dialogue.activeTurnId = NoTurn /\ CloseIdleSession
    <2>1. dialogue'.activeTurnId = NoTurn
        BY <1>1 DEF CloseIdleSession, StoreTypeOK, DialogueRow
    <2>2. UncertainIsIdle'
        BY <2>1 DEF UncertainIsIdle
    <2>. QED
        BY <1>1, <2>1, <2>2, AbandonKeeps, TurnsKeptStep
        DEF CloseIdleSession, StoreTypeOK
<1>2. ASSUME NEW outcome \in {"CANCELLED", "FAILED"},
             dialogue.activeTurnId # NoTurn,
             CloseActiveSession(dialogue.activeTurnId, outcome)
      PROVE  StoreStep
    <2>. DEFINE t == dialogue.activeTurnId
    <2>1. t \in Turns
        BY <1>2 DEF StoreTypeOK, DialogueRow
    <2>2. turns[t].dispatchState # "FINISHED"
        BY <2>1 DEF StoreInv, ActiveTurnIsTheUnsettledOne, Unsettled
    <2>3. /\ turns' = [turns EXCEPT ![t].status = outcome,
                                    ![t].dispatchState = "FINISHED"]
          /\ dialogue'.activeTurnId = NoTurn
        BY <1>2, <2>2 DEF CloseActiveSession
    <2>4. Outstanding' = {}
        BY <1>2, AbandonAll DEF CloseActiveSession, Outstanding, OutstandingIn
    <2>5. outcome \in Outcomes
        BY DEF Outcomes
    <2>. QED
        BY <2>1, <2>3, <2>4, <2>5, SettleStep
<1>. QED
    BY <1>1, <1>2, StutterStep DEF SessionClosed

LEMMA ReconcileStep ==
    ASSUME StoreTypeOK, StoreInv, StoreTypeOK', Reconcile
    PROVE  StoreStep
<1>1. CASE /\ dialogue.activeTurnId # NoTurn
           /\ InterruptTurn(dialogue.activeTurnId, TRUE, "UNCERTAIN")
    <2>1. dialogue.activeTurnId \in Turns
        BY <1>1 DEF StoreTypeOK, DialogueRow
    <2>. QED
        BY <1>1, <2>1, InterruptStep DEF Outcomes
<1>2. CASE dialogue.activeTurnId = NoTurn /\ DetachIdleRuntime
    <2>1. dialogue'.activeTurnId = NoTurn
        BY <1>2 DEF DetachIdleRuntime, StoreTypeOK, DialogueRow
    <2>2. UncertainIsIdle'
        BY <2>1 DEF UncertainIsIdle
    <2>. QED
        BY <1>2, <2>1, <2>2, AbandonKeeps, TurnsKeptStep
        DEF DetachIdleRuntime, StoreTypeOK
<1>3. CASE /\ dialogue.activeTurnId # NoTurn
           /\ turns[dialogue.activeTurnId].dispatchState = "FINISHED"
    BY <1>3 DEF StoreTypeOK, DialogueRow, StoreInv,
                ActiveTurnIsTheUnsettledOne, Unsettled
<1>. QED
    BY <1>1, <1>2, <1>3, StutterStep DEF Reconcile

-----------------------------------------------------------------------------
(* The theorems.                                                           *)

LEMMA NextStep ==
    ASSUME TypeOK, StoreInv, [Next]_vars
    PROVE  StoreStep
<1>0. StoreTypeOK /\ StoreTypeOK'
    BY StoreTypeStep DEF TypeOK, StoreTypeOK
<1>1. CASE UNCHANGED store
    BY <1>1, StutterStep
<1>2. ASSUME NEW t \in Turns,
             \/ CancelBeforeAdmission(t) \/ PersistDispatchFailure(t)
      PROVE  StoreStep
    <2>1. DispatchFailureOutcome(t) \in Outcomes /\ "CANCELLED" \in Outcomes
        BY DEF DispatchFailureOutcome, Outcomes
    <2>. QED
        BY <1>0, <1>1, <1>2, <2>1, InterruptStep
        DEF CancelBeforeAdmission, PersistDispatchFailure
<1>3. CASE Next
    BY <1>0, <1>1, <1>2, <1>3, SendStep, BeginDispatchStep, BindNewRuntimeStep,
       CancelTurnStep, RespondStep, ResponseDeliveryFailedStep, ReopenStep,
       TurnStartedStep, TurnCompletedStep, InteractionRequestedStep,
       InteractionResolvedStep, SessionClosedStep, ReconcileStep
    DEF Next, Dispatch, ReadBinding, BindExistingRuntime, OpenResolves,
        SendToRuntime, ReadCancelFlag, CancelFromDispatcher, ResultResolves,
        ResultRejects, DispatchFails, PersistFailureLost, CancelRuntimeTurn,
        ResponseDelivered, ResponseFails, SessionVanishes, Crash, store
<1>4. CASE UNCHANGED vars
    BY <1>1, <1>4 DEF vars
<1>. QED
    BY <1>3, <1>4

\* The inductive invariant holds in every reachable state.
THEOREM StoreInvariant == Spec => []StoreInv
<1>1. Init => StoreInv
    BY TurnsAssumption
    DEF Init, StoreInv, ActiveTurnIsTheUnsettledOne, UncertainIsIdle,
        QuestionsAreOfActiveTurn, UnsentTurnsAreUntouched, Unsettled,
        Outstanding, OutstandingIn
<1>2. TypeOK /\ StoreInv /\ [Next]_vars => StoreInv'
    BY NextStep DEF StoreStep
<1>. QED
    BY <1>1, <1>2, TypeCorrect, PTL DEF Spec

\* A turn is unsettled exactly while the dialogue points at it.
THEOREM ActiveTurnCorrect == Spec => []ActiveTurnIsTheUnsettledOne
<1>1. StoreInv => ActiveTurnIsTheUnsettledOne
    BY DEF StoreInv
<1>. QED
    BY <1>1, StoreInvariant, PTL

\* Whatever the runtime, the users and crashes do, messages are admitted one
\* at a time and a verdict once given stays.
THEOREM LedgerImplemented == Spec => ImplementsTurnLedger
<1>1. Init => Ledger!Init
    <2>. SUFFICES ASSUME Init PROVE Ledger!Init
        OBVIOUS
    <2>1. \A t \in Turns : turns[t].dispatchState = "NONE"
        BY DEF Init
    <2>2. \A t \in Turns : Verdict(t) = "unsent"
        BY <2>1 DEF Verdict, Unsettled
    <2>3. [t \in Turns |-> Verdict(t)] = [t \in Turns |-> "unsent"]
        BY <2>2
    <2>. QED
        BY <2>3 DEF Ledger!Init
<1>2. TypeOK /\ StoreInv /\ [Next]_vars
          => [Ledger!Next]_([t \in Turns |-> Verdict(t)])
    BY NextStep, LedgerStepImplements DEF StoreStep
<1>. QED
    BY <1>1, <1>2, TypeCorrect, StoreInvariant, PTL
    DEF Spec, ImplementsTurnLedger, Ledger!Spec
=============================================================================
