SPECIFICATION TSpec
CONSTANT Confs <- MCConfs
INVARIANTS MlfqInv
PROPERTIES KeepsOrder NoStarvation
CHECK_DEADLOCK FALSE
