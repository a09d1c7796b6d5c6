\* Two messages behind a completed one, so that a dispatcher that outlived its
\* turn meets a third session; a crash, with the fairness of the process.
SPECIFICATION BoundSpec
CONSTANTS
    Turns = {1, 2}
    Sessions = {1, 2, 3}
    Requests = {}
    NoTurn = NoTurn
    NoSession = NoSession
    RuntimeOutcomes = {"completed"}
    MaxCrashes = 1
ACTION_CONSTRAINT InOrder
INVARIANTS
    ActiveTurnIsTheUnsettledOne
    NoLostCancel
    NoBlindResend
PROPERTIES
    CancelledByUserIsNotHandedOver
    SavedTurnIsHandled
    CancelTakesEffect
