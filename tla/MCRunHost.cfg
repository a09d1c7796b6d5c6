\* Two runs, each admitted, ended or failing in its own time, and an attempt of
\* either.
SPECIFICATION Spec
CONSTANTS
    Runs = {r1, r2}
    Invocations = {i1}
    NoRun = NoRun
INVARIANTS
    TypeOK
    ExecutesInItsDirectory
    NoLeaseOutlivesItsRun
PROPERTIES
    ShutdownReleases
    LeasesAreReleased
CHECK_DEADLOCK FALSE
