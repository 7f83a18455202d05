CONSTANTS
    l1 = l1  l2 = l2  m1 = m1
    NoLink = NoLink
    NoMsg = NoMsg
    Links = {l1, l2}
    Msgs = {m1}
    MaxReconnects = 1
    MaxHeals = 1
    FrameBufferMax = 1
    MaxDrops = 2
SPECIFICATION FairTabSpec
INVARIANTS
    TabTypeOK
    HistoryWaitTimed
    NeverStranded
    
PROPERTIES
    LoadEnds
CHECK_DEADLOCK FALSE
