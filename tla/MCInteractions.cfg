\* One turn, two interactions, every outcome, a crash.
SPECIFICATION Spec
CONSTANTS
    Turns = {t1}
    Sessions = {s1, s2}
    Requests = {r1, r2}
    NoTurn = NoTurn
    NoSession = NoSession
    RuntimeOutcomes = {"completed", "cancelled", "interrupted", "timed_out", "failed"}
    MaxCrashes = 1
SYMMETRY Symmetry
INVARIANTS
    TypeOK
    StatusAgreesWithWork
    PendingCountExact
    TurnWaitsForAnswers
PROPERTIES
    ImplementsTurnLedger
    RestartSettles
