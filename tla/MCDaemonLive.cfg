SPECIFICATION FairSpec
CONSTANTS
    Main = Main
    None = None
    NoToken = NoToken
    c1 = c1
    h1 = h1
    t1 = t1
    t2 = t2
    Clients <- MCClients
    Callers <- MCCallers
    Senders <- MCSenders
    Tokens <- MCOneToken
    MaxMenu = 1
    MaxLate = 0
    Reports = {TRUE, FALSE}
    Keys = {t1}
    Removals = FALSE
    Outages = TRUE
    RetryInterval = 1
    MaxBackoff = 2
INVARIANTS
    StaleSocketGone
PROPERTIES
    TerminationCompletes
    ClientAnswered
    ShutdownCarriedOut
    HandshakeCompletes
