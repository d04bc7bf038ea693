\* Retries and races on one key and on several, under every fault.
CONSTANTS
    None = None
    Charges = {c1, c2, c3}
    Orders = {o1, o2}
    Users = {u1}
    ClientKeys = {k1}
    Faults = {"db", "crash"}
SPECIFICATION Spec
CHECK_DEADLOCK FALSE
SYMMETRY Symmetry
INVARIANTS
    TypeOK
    ChargedOncePerKey
    AnswerTruthful
PROPERTY ChargeSpec
