SPECIFICATION Spec
CONSTANTS
    r1 = r1
    r2 = r2
    r3 = r3
    Runners = {r1, r2, r3}
    Indexed = {3}
    Scenarios <- MCOverlap
INVARIANTS
    JournalMatchesSchema
