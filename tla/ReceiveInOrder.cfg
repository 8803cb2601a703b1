CONSTANTS
    MaxThreads <- MCMaxThreads
    HalfOpen = FALSE
SPECIFICATION Spec
PROPERTY SnapshotInOrder
