\* One request whose outcome is not recorded: its payment stays PENDING.
CONSTANTS
    None = None
    Charges = {c1}
    Orders = {o1}
    Users = {u1}
    ClientKeys = {k1}
    Faults = {"db"}
SPECIFICATION LiveSpec
CHECK_DEADLOCK FALSE
PROPERTY PaymentSettles
