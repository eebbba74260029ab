CONSTANT MaxConns = 2
SPECIFICATION Spec
INVARIANTS StaysNotReady
CHECK_DEADLOCK FALSE
