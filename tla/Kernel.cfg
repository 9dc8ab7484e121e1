\* One sleeper beside the keyboard and cursor tasks.
CONSTANTS
    Sleepers = {"task2"}
    SleepRounds = 2
    ScancodeCapacity = 1
    CursorCapacity = 1
    CursorEvery = 2
    MaxKeys = 2
    MaxQueued = 4
    TicksPerPoll = 1
SPECIFICATION Spec
INVARIANTS
    KernelTypeOK
    NoLostWakeup
    HaltOnlyWhenIdle
PROPERTIES
    KeysRead
    SleepEnds
