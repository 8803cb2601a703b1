CONSTANTS
    MaxThreads <- MCMaxThreads
    HalfOpen = TRUE
SPECIFICATION Spec
PROPERTY DisconnectReturns
CHECK_DEADLOCK FALSE
