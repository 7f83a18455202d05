CONSTANTS
    s1 = s1  s2 = s2  k1 = k1  k2 = k2  v1 = v1  v2 = v2  v3 = v3
    p1 = p1  p2 = p2  r1 = r1  r2 = r2  r3 = r3  f1 = f1  f2 = f2  m1 = m1  m2 = m2
    NoHandle = NoHandle  NoSocket = NoSocket  NoKey = NoKey
    NoRequest = NoRequest  NoFile = NoFile  Placeholder = Placeholder
    Sockets = {s1, s2}
    Keys = {k1, k2}
    Views = {v1, v2, v3}
    Faults = {"drop", "subscribe"}
    MailCount = 3
    Wanted = {1, 3}
    ListLimit = 2
    Passes = {p1, p2}
    Mishaps = {"crash", "mailbox", "database", "defer", "delivery"}
    MaxMishaps = 2
    Requests = {r1, r2, r3}
    Ticks = {p1, p2}
    Documents = 1
    MaxRestarts = 1
    MaxRefused = 1
    ProbeTicks = {p1}
    Trackers = 1
    TerminalAfter = 4
    MaxSpacing = 20
    DisableAfter = 2
    MaxRestartTries = 3
    MaxDegraded = 50
    Pushes = 2
    Reverts = FALSE
    Attempts = 2
    MaxStale = 1
    MaxRate = 1
    MaxDown = 1
    Files = {f1, f2}
    Frames = {m1, m2}
    MaxCollisions = 2
    SlowSends = FALSE
    UploadFaults = {"disk", "database", "restart"}
    MaxUploadFaults = 1
SPECIFICATION PartsSpec
INVARIANTS
    PartsTypeOK
    OneUpstreamPerSession
    HandlesOwned
    IdleUpstreamCloses
    LiveClaimKept
    SettledWasTold
    LiveRunShown
    ThrowNeedsTurnover
    
    
    
PROPERTIES
    UnusedHandleReturned
    FollowsLedger
    MailSettles
    JobSettles
    
    PushSettles
    AbandonedCollected
CHECK_DEADLOCK FALSE
