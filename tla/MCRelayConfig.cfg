SPECIFICATION Spec
CONSTANTS
    Savers = {s1, s2}
    Forms <- MCForms
    HandMade <- MCHandMade
    ProcEnvs <- MCProcEnvs
    Special <- MCSpecial
    Size <- MCSize
    GoodUrls = {"http://h:1", "http://h:2"}
    Positive = {"15", "120", "300"}
    FreePorts = {"8081", "7000", "9000"}
    MaxSaves = 3
    MaxEdits = 2
    Missing = Missing
\* A relay that does not start stays down once the bounds are used up.
CHECK_DEADLOCK FALSE
INVARIANTS
    FileIsLastSaved
    SavedApplies
