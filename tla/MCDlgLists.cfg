CONSTANTS
    i1 = i1
    i2 = i2
    c1 = c1
    a = a
    Null = Null
    NumDlg = 3
    Item <- MCItem
    CallId = {c1}
    Tag = {a}
    TransId = {0}
    SendCanFail = TRUE
    MemCanFail = TRUE
    CompareCanFail = TRUE
    MaxAsked = 1
SPECIFICATION Spec
CHECK_DEADLOCK FALSE
SYMMETRY Symm
PROPERTY ImplementsDlgPool
