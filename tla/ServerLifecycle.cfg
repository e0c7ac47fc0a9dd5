SPECIFICATION Spec
CONSTANT MaxInits = 1
CHECK_DEADLOCK FALSE
INVARIANT BackendOutlivesServer
