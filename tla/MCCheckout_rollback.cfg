\* README: a checkout that fails is rolled back.
CONSTANTS
    None = None
    Products = {p1, p2}
    Seeded = {p1, p2}
    SeedStock = 1
    MaxInt4 = 50
    StockQuantities = {}
    Faults = {}
    Users = {u1}
    Edits = {e1, e2}
    AddQuantities = {1, 2}
    MaxInt = 100
    RedisConnected = TRUE
    Checkouts = {r1}
SPECIFICATION Spec
CHECK_DEADLOCK FALSE
INVARIANT AllOrNothing
