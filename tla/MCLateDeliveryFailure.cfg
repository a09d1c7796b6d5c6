\* A response fails after its turn has ended.
SPECIFICATION Spec
CONSTANTS
    Turns = {t1}
    Sessions = {s1}
    Requests = {r1}
    NoTurn = NoTurn
    NoSession = NoSession
    RuntimeOutcomes = {"completed"}
    MaxCrashes = 0
SYMMETRY Symmetry
PROPERTIES
    FailedDeliveryIsRecorded
