SPECIFICATION Spec
CONSTANTS
    Files <- MCFiles
    Envs <- MCEnvs
    Requests <- MCRequests
INVARIANTS
    ColdReadsServed
CHECK_DEADLOCK FALSE
