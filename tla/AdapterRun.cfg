SPECIFICATION Spec
CONSTANTS
    Tools = 2
    MaxExtra = 0
    MaxStrays = 0
    MaxFaults = 1
INVARIANTS
    EffectPrepared
    StoppedEnded
    CompletedProved
    FailedUntouched
    WhicheverReadFirst
    NeverStuck
CHECK_DEADLOCK FALSE
