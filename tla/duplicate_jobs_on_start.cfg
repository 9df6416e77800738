\* One discovery id, daemon registrations served while start_scheduler
\* runs, and manual starts: at most one cron job per discovery.
SPECIFICATION Spec
CONSTANTS
    q1 = q1
    q2 = q2
    NoDef = NoDef
    Discoveries <- MCDiscovery1
    UserOps <- OnlyStart
    MaxEdits = 0
    MaxClock = 2
    MaxFires = 1
    MaxRestarts = 0
INVARIANT SingleJobPerDiscovery
CHECK_DEADLOCK FALSE
