SPECIFICATION UploadSpec
CONSTANTS
    Uploads = {u1, u2}
    Devices = {d1, d2}
    Me = d1
    Blobs <- MCBlobs
    SizeOf <- MCSizeOf
    Clips <- MCClips
    MaxCount = 2
    MaxBytes = 3
    DeviceMax = 2
    TTL = 1
    MaxFaults = 2
    Absent = Absent
    NoSession = NoSession
\* The client makes one upload.
CHECK_DEADLOCK FALSE
INVARIANTS
    TurnIsRecording
    VerdictDeserved
