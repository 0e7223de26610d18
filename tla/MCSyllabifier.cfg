SPECIFICATION Spec
CONSTANT Inputs <- MCInputs
INVARIANTS GraphIsPaths AmbiguousJoints
CHECK_DEADLOCK FALSE
