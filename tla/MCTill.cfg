SPECIFICATION Spec
CONSTANTS
    Amounts <- MCAmounts
    StartBanks <- MCStartBanks
    Room <- MCRoom
INVARIANTS
    PaysExactly
    FewestCoins
    NickelSuffices
