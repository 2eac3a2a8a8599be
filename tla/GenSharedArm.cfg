SPECIFICATION Spec
CONSTANT Programs <- MCSharedArm
INVARIANT TargetsKept
CHECK_DEADLOCK FALSE
