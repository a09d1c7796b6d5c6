\* One project, two runs, two archive calls, two create or restore calls.
SPECIFICATION Spec
CONSTANTS
    Projects = {p1}
    Runs = {r1, r2}
    Archivers = {a1, a2}
    Callers = {c1, c2}
    NoProject = NoProject
    MaxAttempts = 2
    MaxCrashes = 1
INVARIANTS
    TypeOK
    LiveRunIsOwned
    ArchivedProjectIsFinished
PROPERTIES
    ActivatedWithCurrentModel
    StartsWhateverFails
