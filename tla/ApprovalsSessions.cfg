CONSTANTS
    c1 = c1  c2 = c2  c3 = c3  c4 = c4  b1 = b1  b2 = b2  b3 = b3  b4 = b4
    NoCallId = NoCallId  NoCall = NoCall  NoBinding = NoBinding
    Calls = {c1, c2, c3, c4}
    Bindings = {b1, b2, b3, b4}
    Gated = {b1, b2, b3, b4}
    Attributable = {b1, b2, b3}
    NamesSession = {c1, c2, c3, c4}
    BindingOf <- MixedBinding
    SessionOf <- OwnSessions
    PrincipalOf <- TwoPrincipals
    IdOf <- SharedIds
    MaxPending = 1
    MaxRows = 2
    MaxChecks = 1
    MaxRequests = 1
    Faults = {}
SPECIFICATION Spec
INVARIANTS
    RunsAreApproved
    
PROPERTIES
    FollowsLifecycle
