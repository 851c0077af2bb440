SPECIFICATION Spec
CONSTANTS
    Payloads = {1, 2}
    WithId = {1}
    WithToken = {1}
    LongToken = {1}
    MaxRetry = 2
    MaxFaults = 3
    Default = Default  Made = Made  Cut = Cut  None = None
\* A device that has given up on WiFi stays as it is.
CHECK_DEADLOCK FALSE
INVARIANTS
    CacheIsStored
    GatewayAndTokenMatch
    GivesUpLate
PROPERTIES
    BootEnds
    PresenceSettles
