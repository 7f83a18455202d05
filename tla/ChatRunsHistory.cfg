CONSTANTS
    w1 = w1  w2 = w2
    NoTab = NoTab
    MaxRuns = 1
    Tabs = {w1, w2}
    MaxTexts = 2
    MaxEvents = 1
SPECIFICATION Spec
INVARIANTS
    NoTextTwice
CHECK_DEADLOCK FALSE
