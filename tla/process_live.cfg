SPECIFICATION FairSpec
CONSTANTS
    Hosts = {here, there}
    Pids = {p1, p2}
    None = None
    MaxBorn = 2
    MaxDowns = 0
PROPERTIES
    OwnExitIsNoticed
    StopReturns
CHECK_DEADLOCK FALSE
