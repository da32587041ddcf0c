SPECIFICATION TSpec
CONSTANT Confs <- MCLockTests
INVARIANT OwnerCanRun
CHECK_DEADLOCK FALSE
