\* Two runtime processes on a session with one token between them, and a
\* subscriber that takes two rows at a time.
SPECIFICATION MCSpec
CONSTANTS
    Sessions = {s1}
    Writers = {w1, w2}
    EventIds = {1, 2, 3, 4}
    Tokens = {k1}
    Readers = {r1}
    NoEvent = NoEvent
    NoToken = NoToken
    NoStream = NoStream
    NoWriter = NoWriter
    EventTypes = {"accepted", "hibernated"}
    BatchSize = 2
    MaxSequence = 4
    MaxCalls = 4
CHECK_DEADLOCK FALSE
INVARIANTS
    TypeOK
    OneChainPerSession
    ProjectedOnceInOrder
    ReaderMissesNothing
PROPERTIES
    ImplementsEventLog
    ReaderCatchesUp
