CONSTANT Units <- ReadThenShadowUnits
SPECIFICATION Spec
INVARIANT ShadowingAllowed
CHECK_DEADLOCK FALSE
