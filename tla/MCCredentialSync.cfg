CONSTANTS
    Versions = {v1, v2}
    MaxEvents = 1
    QueueCap = 1
    MaxBusy = 5
    Gone = gone
    Empty = empty
    None = none
SPECIFICATION Spec
SYMMETRY Symmetry
INVARIANTS
    SettledMeansAgreed
    DeletedStaysDeleted
VIEW View
CONSTRAINT Bounded
