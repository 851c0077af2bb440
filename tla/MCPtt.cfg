SPECIFICATION PttSpec
\* A period is the unit.
CONSTANTS
    Period = 1
    Debounce = 4
    Window = 8
    Jitter = 1
    MaxLag = 6
PROPERTIES
    DoublePressNeedsDelay
    QuickReportNeedsDelay
    HeldIsReported
