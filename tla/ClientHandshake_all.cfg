CONSTANTS
    Protocols = {"a", "b"}
    Clients <- MCClients
    Servers <- MCServers
    Foreign <- MCForeign
SPECIFICATION FairSpec
INVARIANTS TypeOK OneOutcome NothingLeftOpen Agreed
PROPERTY Settles
CHECK_DEADLOCK FALSE
