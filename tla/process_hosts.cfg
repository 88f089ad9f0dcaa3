SPECIFICATION Spec
CONSTANTS
    Hosts = {here, there}
    Pids = {p1, p2}
    None = None
    MaxBorn = 4
    MaxDowns = 1
SYMMETRY Same
INVARIANTS
    TypeOK
    OwnChildIsTheTarget
    StopEndsIt
    OnePlane
    RunningIsRecorded
PROPERTIES
    AttachesToAPlane
CHECK_DEADLOCK FALSE
