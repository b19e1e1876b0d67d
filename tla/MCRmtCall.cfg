CONSTANTS
    l1 = l1
    l2 = l2
    l3 = l3
    l4 = l4
    Null = Null
    Leg <- TwoLegs
    Target <- SameItem
    NumItem = 2
    NumDlg = 2
    NumTrans = 2
    NumChan = 2
    MaxExtra = 2
    Faults = {{}}
SPECIFICATION FairSpec
CHECK_DEADLOCK FALSE
INVARIANTS WaitsForSomething InvitingIsAsked
PROPERTY ImplementsMediaService
