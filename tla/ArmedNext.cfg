SPECIFICATION Spec
CONSTANTS
    Tracks = {a, b, c}
    None = None
    MaxFaults = 2
    MaxInputs = 2
SYMMETRY AnyTrack
CHECK_DEADLOCK FALSE
INVARIANTS
    TypeOK
    AudibleIsCurrent
