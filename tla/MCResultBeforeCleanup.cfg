\* One run with one attempt: finding 4.
SPECIFICATION Spec
CONSTANTS
    Runs = {r1}
    Invocations = {i1}
    NoRun = NoRun
PROPERTIES
    NoResultAfterFailedCleanup
CHECK_DEADLOCK FALSE
