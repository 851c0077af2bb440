SPECIFICATION FairSpec
CONSTANTS
    v1 = v1  v2 = v2
    old = old  new = new  bad = bad  junk = junk
    n1 = n1  n2 = n2
    Page = Page  Blank = Blank  None = None
    Devices = {n1, n2}
    Node = n1
    Versions = {v1, v2}
    Typed = {v2}
    Images = {old, new}
    Factory = old
    Kind <- KindHere
    Embedded <- VersionHere
    AllowLists <- FleetLists
    LongLists = {}
    Checks = {"written"}
    MaxPublishes = 1
    MaxFaults = 0
CHECK_DEADLOCK FALSE
PROPERTIES PublishedArrives
