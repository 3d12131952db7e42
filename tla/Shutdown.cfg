SPECIFICATION Spec
CONSTANTS
    MaxRetries = 1
INVARIANTS
    GracefulShutdown
CHECK_DEADLOCK FALSE
