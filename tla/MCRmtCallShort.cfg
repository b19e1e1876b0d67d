CONSTANTS
    l1 = l1
    l2 = l2
    l3 = l3
    l4 = l4
    Null = Null
    Leg <- FourLegs
    Target <- MixedItems
    NumItem = 2
    NumDlg = 2
    NumTrans = 1
    NumChan = 1
    MaxExtra = 0
    Faults = {{}}
SPECIFICATION FairSpec
CHECK_DEADLOCK FALSE
INVARIANT TypeOK
PROPERTY EveryInviteAnswered
