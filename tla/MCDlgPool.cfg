CONSTANTS
    i1 = i1
    i2 = i2
    c1 = c1
    c2 = c2
    a = a
    b = b
    Null = Null
    NumDlg = 2
    Item <- MCItem
    CallId <- MCCallId
    Tag <- MCTag
    TransId <- MCTransId
    SendCanFail = TRUE
    MemCanFail = TRUE
    CompareCanFail = FALSE
    MaxAsked = 2
SPECIFICATION Spec
CHECK_DEADLOCK FALSE
SYMMETRY Symm
INVARIANTS
    TypeOK
    PoolPartition
    OneDialogPerCall
PROPERTY IdentityKept
