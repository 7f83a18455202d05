CONSTANTS
    w1 = w1  w2 = w2
    NoTab = NoTab
    MaxRuns = 2
    Tabs = {w1}
    MaxTexts = 1
    MaxEvents = 1
SPECIFICATION Spec
PROPERTIES
    NewerRunKept
CHECK_DEADLOCK FALSE
