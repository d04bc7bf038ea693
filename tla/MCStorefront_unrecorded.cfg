\* An order with a coupon, whose use nobody records.
CONSTANTS
    None = None
    Requests = {r1}
    Users = {u1}
    Limits = {1}
    Faults = {}
SPECIFICATION ServedSpec
CHECK_DEADLOCK FALSE
PROPERTY UseRecorded
