\* Every route, a restart, two discoveries: the startup loop and start().
SPECIFICATION Spec
CONSTANTS
    q1 = q1
    q2 = q2
    NoDef = NoDef
    Discoveries <- MCDiscoveries
    UserOps <- AllUserOps
    MaxEdits = 1
    MaxClock = 1
    MaxFires = 1
    MaxRestarts = 1
SYMMETRY DiscoverySymmetry
INVARIANT TypeOK
PROPERTY StartupSchedulesAllLoaded
\* Every bound is an end of the run; an idle server is a legal final state.
CHECK_DEADLOCK FALSE
