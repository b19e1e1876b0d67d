CONSTANTS
    NumTrans = 3
    NumChan = 2
    a1 = a1
    a2 = a2
    Addr <- MCAddr
    Null = Null
SPECIFICATION Spec
SYMMETRY Symm
INVARIANTS
    TypeOK
    UnusedIsRest
PROPERTY
    SwitchKept
