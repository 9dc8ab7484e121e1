CONSTANT Units <- WellScopedUnits
SPECIFICATION Spec
INVARIANT BindsWellTyped
CHECK_DEADLOCK FALSE
