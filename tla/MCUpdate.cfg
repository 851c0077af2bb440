SPECIFICATION FairSpec
CONSTANTS
    v1 = v1  v2 = v2
    old = old  new = new  bad = bad  junk = junk
    n1 = n1  n2 = n2
    Page = Page  Blank = Blank  None = None
    Devices = {n1, n2}
    Node = n1
    Versions = {v1, v2}
    Typed = {v2}
    Images = {old, new, bad, junk}
    Factory = old
    Kind <- KindHere
    Embedded <- VersionHere
    AllowLists <- Lists
    LongLists <- Long
    Checks = {"written", "meant"}
    MaxPublishes = 2
    MaxFaults = 1
\* Publishes and faults are finite, and an up-to-date device only polls.
CHECK_DEADLOCK FALSE
INVARIANTS
    NeverBricked
    OnlyOfferedBoots
    ReadyStays
PROPERTIES
    ComesBack
