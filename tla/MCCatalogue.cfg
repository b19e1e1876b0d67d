SPECIFICATION Spec
CONSTANTS
    Dev = {"dev1", "dev2"}
    ItemsOf <- Items22
    MaxRegDev = 2
    MaxRes = 3
    MaxItem = 2
    MaxReg = 2
    MaxQuery = 1
    MaxFault = 2
    Faults = {"lose", "dup", "sendto", "switch", "race"}
INVARIANTS TypeOK EntriesAgree OneInvite ToldAllButLast ItemsKnown
CHECK_DEADLOCK FALSE
