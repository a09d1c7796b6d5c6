\* A dialogue, a fork, two turns, two interactions, no client.
SPECIFICATION Spec
CONSTANTS
    Originals = {d1}
    Forks = {d2}
    Turns = {t1, t2}
    Interactions = {i1, i2}
    Clients = {}
    NoTurn = NoTurn
    NoDialogue = NoDialogue
    NoId = NoId
    PageSize = 1
    BatchSize = 2
    MaxVersion = 2
    MaxItems = 6
    MaxFeed = 100
VIEW Tables
SYMMETRY Alike
INVARIANTS
    TypeOK
    OneSequencePerDialogue
    NothingLeftOpen
PROPERTIES
    ForkKeepsItsPrefix
CHECK_DEADLOCK FALSE
