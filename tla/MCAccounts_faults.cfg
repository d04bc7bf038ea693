\* Overlapping registrations, sign-ins and profile updates under every fault.
SPECIFICATION Spec
CONSTANTS
    None = None
    NoKey = NoKey
    Requests = {r1, r2, r3}
    Routes = {"auth_register", "auth_login"}
    Clients = {"client"}
    MaxRequests = 2
    RedisConnected = TRUE
    Faults = {"redis", "db", "crash"}
    Emails = {a, b}
    Passwords = {p, long}
    LongPasswords = {long}
    RandomPassword = RandomPassword
    RegisterRoles = {"", "admin"}
SYMMETRY Symmetry
INVARIANTS
    TypeOK
    OneAccountPerEmail
    ClaimsHold
    PatchLostOnlyInRace
    WindowBound
    KeyExpires
CHECK_DEADLOCK FALSE
