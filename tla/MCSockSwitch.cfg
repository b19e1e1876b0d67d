CONSTANTS
    ds1 = ds1
    ds2 = ds2
    d1 = d1
    d2 = d2
    m1 = m1
    m2 = m2
    DsId <- Users
    Local <- LocalAddrs
    Src <- SrcAddrs
    Dst <- Targets2
    Multicast <- Joined
    Mmb <- Members
    MaxRcvGrp = 2
    MaxSnd = 1
    HashSize = 3
    Null = Null
    MaxCmd = 3
    MaxSlow = 1
SPECIFICATION Spec
CHECK_DEADLOCK FALSE
SYMMETRY Symm
INVARIANTS
    TypeOK
    MembersPlaced
    GroupsNeeded
    PacketsFindMembers
    ToldIsDone
PROPERTY
    ImplementsForwarding
