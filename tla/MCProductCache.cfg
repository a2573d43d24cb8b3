SPECIFICATION Spec
CONSTANTS
    a = a
    b = b
    c = c
    s1 = s1
    s2 = s2
    Readers = {a, b, c}
    Servers = {s1, s2}
    Deployments <- MCDeployments
    Products = {cola}
    InitStock <- MCInitStock
    Missing = Missing
    Nobody = Nobody
    MaxDrops = 1
INVARIANTS
    TypeOK
PROPERTIES
    MonotonicReads
    LoadsOnlyWhatIsMissing
    ColdReadsAreFresh
    EveryReadAnswered
    CacheConverges
