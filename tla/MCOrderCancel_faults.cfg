\* Three cancellations of two orders, either of which may not exist, under faults.
SPECIFICATION Spec
CONSTANTS
    None = None
    Orders = {o1, o2}
    Users = {u1, u2}
    Products = {p1, p2}
    Cancels = {c1, c2, c3}
    Faults = {"db", "rows", "crash"}
SYMMETRY Symmetry
INVARIANTS
    TypeOK
    ConflictHasCause
    RestoreAfterCancel
    RestoreAccounted
    RestoredAgainOnlyInRace
CHECK_DEADLOCK FALSE
