SPECIFICATION Spec
CONSTANTS
    r1 = r1  r2 = r2
    c1 = c1
    d1 = d1
    None = None
    Devices = {d1}
    Requests = {r1, r2}
    Chunked = {r1}
    Cancels = {c1}
    DeviceOf <- OneDevice
    MapLimit = 1
\* Clients send finitely many requests and then the relay is at rest.
CHECK_DEADLOCK FALSE
INVARIANTS
    CancelMapSound
    EnvelopeOnce
    SettledNotWorking
PROPERTIES
    VictimNeverPrompted
    IsVoiceTurn
    EveryTurnEnds
