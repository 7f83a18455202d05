CONSTANTS
    c1 = c1  c2 = c2  c3 = c3  c4 = c4  b1 = b1  b2 = b2  b3 = b3  b4 = b4
    NoCallId = NoCallId  NoCall = NoCall  NoBinding = NoBinding
    Calls = {c1, c2}
    Bindings = {b1, b2}
    Gated = {b1, b2}
    Attributable = {b1, b2}
    NamesSession = {c1, c2}
    BindingOf <- MixedBinding
    SessionOf <- OneSession
    PrincipalOf <- OnePrincipal
    IdOf <- SharedIds
    MaxPending = 2
    MaxRows = 2
    MaxChecks = 2
    MaxRequests = 1
    Faults = {"broadcast", "report", "cancel"}
SPECIFICATION Spec
INVARIANTS
    RunsAreApproved
