CONSTANTS
    MaxThreads <- MCMaxThreads
    HalfOpen = FALSE
SPECIFICATION Spec
PROPERTY SnapshotResumes
