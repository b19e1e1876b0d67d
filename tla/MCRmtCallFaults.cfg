CONSTANTS
    l1 = l1
    l2 = l2
    l3 = l3
    l4 = l4
    Null = Null
    Leg <- TwoLegs
    Target <- SameItem
    NumItem = 1
    NumDlg = 2
    NumTrans = 2
    NumChan = 1
    MaxExtra = 2
    Faults = {{"loss", "late"}, {"earlyBye", "sendto"}}
SPECIFICATION Spec
CHECK_DEADLOCK FALSE
SYMMETRY Symm
INVARIANTS
    ForwardingIsOwned
    TransmitterForDialog
PROPERTIES
    ImplementsTransmitter
    ImplementsDlgPool
