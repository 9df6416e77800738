\* A user edits a registered discovery; its cron job fires.
SPECIFICATION Spec
CONSTANTS
    q1 = q1
    q2 = q2
    NoDef = NoDef
    Discoveries <- MCDiscovery1
    UserOps <- OnlyUpdate
    MaxEdits = 1
    MaxClock = 0
    MaxFires = 1
    MaxRestarts = 0
PROPERTY EditsSurvive
CHECK_DEADLOCK FALSE
