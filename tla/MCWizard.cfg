SPECIFICATION Spec
CONSTANTS
    Absent = NoFile
    NoFile = NoFile
    Truncated = Torn
    Torn = Torn
    Hosts <- MCHosts
    OddHosts <- MCOddHosts
    Macs <- MCMacs
    WebhookIDs <- MCWebhookIDs
    Broadcasts <- MCBroadcasts
    Servers <- MCServers
    Hostnames <- MCHostnames
    CNames <- MCCNames
    Interfaces <- MCInterfaces
    Entries <- MCEntries
    Typed <- MCTyped
    PortInputs <- MCPortInputs
    WaitInputs <- MCWaitInputs
    EditedWaits <- MCEditedWaits
    MaxVisits = 2
INVARIANTS
    TypeOK
    SavedLoads
    AsAsked
    NoDrift
    ResultComes
PROPERTIES
    SurveyGoesOn
CHECK_DEADLOCK FALSE
