\* Three requests to any operation of catalogue and coupons, under every fault.
CONSTANTS
    None = None
    Requests = {r1, r2, r3}
    Users = {u1, u2}
    Limits = {0, 1}
    Faults = {"db", "redis", "crash"}
SPECIFICATION LiveSpec
CHECK_DEADLOCK FALSE
INVARIANTS
    TypeOK
    StaleOnlyInRace
    UsesCounted
PROPERTY StaleEnds
