\* An if inside a loop body survives lowering and Evaluate never returns.
CONSTANTS
    IntBits = 4
    OverflowChecks = TRUE
    Programs <- NestedPrograms
    InitialTable <- EmptyTable
    HeapEntries = 4
    SinkCapacity = 4
    TimerValues = {0}
    Fuel = 40
SPECIFICATION Spec
PROPERTY EvaluationEnds
\* A unit's evaluation ends: Evaluate returns or the kernel halts on a panic.
CHECK_DEADLOCK FALSE
