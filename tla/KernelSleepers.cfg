\* task2's sleep command and terminal1's editor loop both on the sleep timer.
CONSTANTS
    Sleepers = {"terminal1", "task2"}
    SleepRounds = 1
    ScancodeCapacity = 1
    CursorCapacity = 1
    CursorEvery = 2
    MaxKeys = 0
    MaxQueued = 5
    TicksPerPoll = 1
SPECIFICATION Spec
PROPERTY SleepEnds
