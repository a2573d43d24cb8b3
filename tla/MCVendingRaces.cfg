SPECIFICATION Spec
CONSTANTS
    cola = cola
    tea = tea
    m1 = m1
    p1 = p1
    p2 = p2
    r1 = r1
    r2 = r2
    NoBody = NoBody
    Products = {cola, tea}
    Machines = {m1}
    Purchases = {p1, p2}
    Restocks = {r1, r2}
    Bodies <- ContendedBodies
    Price <- MCPrice
    InitStock <- MCInitStock
    InitBank <- MCInitBank
    MaxConns = 2
    Removable = {}
INVARIANTS
    TypeOK
    StockConserved
    BooksHold
    AnswersTruthful
    NoCircularWait
PROPERTIES
    RestockAddsItsCoins
CHECK_DEADLOCK FALSE
