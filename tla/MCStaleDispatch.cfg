\* Three turns, each with a session of its own: a dispatcher that outlives its
\* turn while a newer turn is being dispatched.
SPECIFICATION Spec
CONSTANTS
    Turns = {t1, t2, t3}
    Sessions = {s1, s2, s3}
    Requests = {}
    NoTurn = NoTurn
    NoSession = NoSession
    RuntimeOutcomes = {"completed"}
    MaxCrashes = 0
SYMMETRY Symmetry
PROPERTIES
    CancelledTurnStartsNoAgent
