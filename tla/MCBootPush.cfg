SPECIFICATION CliFairSpec
CONSTANTS
    Main = Main
    None = None
    NoToken = NoToken
    c1 = c1
    t1 = t1
    Clients <- OneClient
    Callers <- NoCallers
    Senders <- OneClientSenders
    Tokens <- OneToken
    MaxMenu = 2
    MaxLate = 0
    Reports = {TRUE}
    Keys = {t1}
    Removals = FALSE
    Outages = TRUE
    RetryInterval = 1
    MaxBackoff = 1
INVARIANTS
    CliTypeOK
    PushedIsFresh
    ReadIsAnswered
PROPERTIES
    PushReturns
    KeepsPromise
