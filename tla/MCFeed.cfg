\* One dialogue, one turn, and a client that pages, watches and reconnects.
SPECIFICATION Spec
CONSTANTS
    Originals = {d1}
    Forks = {}
    Turns = {t1}
    Interactions = {i1}
    Clients = {c1}
    NoTurn = NoTurn
    NoDialogue = NoDialogue
    NoId = NoId
    PageSize = 1
    BatchSize = 2
    MaxVersion = 2
    MaxItems = 5
    MaxFeed = 9
INVARIANTS
    ReplicaMatches
    TextGoesOn
PROPERTIES
    NothingReadUnseen
CHECK_DEADLOCK FALSE
