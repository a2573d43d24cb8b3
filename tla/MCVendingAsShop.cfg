SPECIFICATION Spec
CONSTANTS
    cola = cola
    tea = tea
    m1 = m1
    m2 = m2
    m3 = m3
    p1 = p1
    p2 = p2
    r1 = r1
    NoBody = NoBody
    Products = {cola, tea}
    Machines = {m1, m2, m3}
    Purchases = {p1, p2}
    Restocks = {r1}
    Bodies <- PrivateBodies
    Price <- MCPrice
    InitStock <- MCInitStock
    InitBank <- MCInitBank
    MaxConns = 2
    Removable = {cola, m1, m3}
INVARIANTS
    RefusalsFinal
PROPERTIES
    ImplementsShop
    EveryRequestAnswered
CHECK_DEADLOCK FALSE
