\* A client dies while its setCallback is on the way.
SPECIFICATION FairSpec
CONSTANTS
    Clients = {"c1", "c2"}
    Events = {"e1"}
    MaxCalls = 2
PROPERTIES DeathHandled
CHECK_DEADLOCK FALSE
