\* README: checkout is one atomic transaction.
CONSTANTS
    None = None
    Products = {p1, p2}
    Seeded = {p1, p2}
    SeedStock = 2
    MaxInt4 = 50
    StockQuantities = {}
    Faults = {}
    Users = {u1}
    Edits = {e1}
    AddQuantities = {1}
    MaxInt = 100
    RedisConnected = TRUE
    Checkouts = {r1, r2}
SPECIFICATION Spec
CHECK_DEADLOCK FALSE
INVARIANT BoughtOnce
