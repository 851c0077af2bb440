SPECIFICATION Spec
CONSTANTS
    Uploads = {u1, u2}
    Devices = {d1, d2}
    Blobs <- MCBlobs
    SizeOf <- MCSizeOf
    MaxCount = 3
    MaxBytes = 4
    TTL = 1
    Absent = Absent
    NoSession = NoSession
INVARIANTS
    TotalIsSum
    HandedAtMostOnce
    HandedIsAcked
PROPERTIES
    NoResurrection
    Isolation
    AbandonedIsSwept
