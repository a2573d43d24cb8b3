SPECIFICATION Spec
CONSTANTS
    Requests = {buy, pay}
    Probes = {probe}
    KeptAlive = {buy, probe}
INVARIANTS
    TypeOK
    LayersFindTheirNeeds
    DrainProtectsRequests
    TransactionsEndBeforeExit
    ClosesInOrder
    ReadyMeansSeenUp
PROPERTIES
    ShutdownEnds
    ProbesAnswered
CHECK_DEADLOCK FALSE
