CONSTANTS
    MaxThreads <- MCMaxThreads
    HalfOpen = FALSE
SPECIFICATION Spec
PROPERTIES
    LossDetected
    DisconnectReturns
