SPECIFICATION Spec
CONSTANTS
    Files <- MCFiles
    Envs <- MCEnvs
    Requests <- MCRequests
INVARIANTS
    TypeOK
    EnvironmentWins
    DefaultsAccepted
    FeaturesAsSwitched
CHECK_DEADLOCK FALSE
