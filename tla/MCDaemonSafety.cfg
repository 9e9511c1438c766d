SPECIFICATION Spec
CONSTANTS
    Main = Main
    None = None
    NoToken = NoToken
    c1 = c1
    h1 = h1
    t1 = t1
    t2 = t2
    Clients <- MCClients
    Callers <- MCCallers
    Senders <- MCSenders
    Tokens <- MCTokens
    MaxMenu = 2
    MaxLate = 1
    Reports = {TRUE, FALSE}
    Keys = {NoToken}
    Removals = TRUE
    Outages = FALSE
    RetryInterval = 1
    MaxBackoff = 2
SYMMETRY TokenSymmetry
INVARIANTS
    TypeOK
    TokenInSync
    PushIsFresh
    Attended
PROPERTIES
    NoRegress
    SilentWhenOff
