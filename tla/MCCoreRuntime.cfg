\* Two runtimes of one process.
SPECIFICATION Spec
CONSTANTS
    Runtimes = {c1, c2}
    Nobody = Nobody
    Outside = Outside
INVARIANTS
    TypeOK
    OneRuntimePerProcess
    NothingOpenAfterClose
    CreatedWithItsDatabase
PROPERTIES
    CloseSettles
CHECK_DEADLOCK FALSE
