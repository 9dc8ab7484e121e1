\* The evaluator on all units; it ends on those whose loop bodies are flat.
CONSTANTS
    IntBits = 4
    OverflowChecks = TRUE
    Programs <- AllPrograms
    InitialTable <- EmptyTable
    HeapEntries = 4
    SinkCapacity = 4
    TimerValues = {0}
    Fuel = 40
SPECIFICATION Spec
INVARIANT TypeOK
PROPERTY ImplementsInterpreter FlatBodiesEnd
\* A unit's evaluation ends: Evaluate returns or the kernel halts on a panic.
CHECK_DEADLOCK FALSE
