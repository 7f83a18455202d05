CONSTANTS
    p1 = p1
    MailCount = 1
    Wanted = {1}
    ListLimit = 1
    Passes = {p1}
    Mishaps = {"defer", "database"}
    MaxMishaps = 2
SPECIFICATION SweepSpec
INVARIANTS
    RerunExplained
CHECK_DEADLOCK FALSE
