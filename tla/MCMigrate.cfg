SPECIFICATION Spec
CONSTANTS
    r1 = r1
    r2 = r2
    r3 = r3
    Runners = {r1, r2, r3}
    Indexed = {3}
    Scenarios <- MCScenarios
INVARIANTS
    TypeOK
    JournalMatchesSchema
    NoGaps
    UpCompletes
PROPERTIES
    ChangesAreAsked
    RunsEnd
