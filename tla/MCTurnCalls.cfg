SPECIFICATION Spec
CONSTANTS
    Providers = {"stub", "deepgram", "whisper", "deepgram-stream"}
    SttTimeout = 1
    HermesTimeout = 2
    StreamLimit = 1
    MaxLen = 2
    MaxHeard = 3
\* The turn leaves the calls and goes on in RelayTurn.
CHECK_DEADLOCK FALSE
INVARIANTS
    StreamPicks
    AgentHasItsTime
PROPERTIES
    CallsEnd
    TurnStepsOnly
