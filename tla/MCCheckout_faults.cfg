\* Every fault, products created while checkouts run, and carts whose quantities wrap.
CONSTANTS
    None = None
    Products = {p1, p2}
    Seeded = {p1}
    SeedStock = 2
    MaxInt4 = 7
    StockQuantities <- MixedStock
    Faults = {"db", "redis", "crash", "expiry"}
    Users = {u1}
    Edits = {e1, e2}
    AddQuantities = {0, 7}
    MaxInt = 7
    RedisConnected = TRUE
    Checkouts = {r1, r2}
SPECIFICATION Spec
SYMMETRY Symmetry
CHECK_DEADLOCK FALSE
INVARIANTS
    TypeOK
    StockChain
    ConflictMeansProgress
    OrderBacked
    NoOversell
    CartWellFormed
    CartNeverInflates
PROPERTY SaleSpec
