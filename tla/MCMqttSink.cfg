SPECIFICATION Spec
CONSTANTS
    t1 = t1  t2 = t2  d1 = d1
    None = None
    Turns = {t1, t2}
    Devices = {d1}
    DeviceOf <- OneDevice
    VerdictOf <- Outcomes
    Script <- Publishes
    QueueLen = 2
    Recents = 1
    MaxStops = 1
    MaxOutages = 1
\* Finitely many turns are made and then the relay is at rest.
CHECK_DEADLOCK FALSE
INVARIANTS
    RetainedIsLast
PROPERTIES
    QueueDrains
    IsLossyFeed
