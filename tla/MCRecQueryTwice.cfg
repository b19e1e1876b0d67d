SPECIFICATION Spec
CONSTANTS
    Item = {"cam1", "cam2"}
    Other = "nobody"
    Records <- MCRecords
    Null = Null
    NumRec = 4
    MaxMsg = 1
    Limit = 2
    DevBatch = 1
    GbBatch = 2
    ResBatch = 2
    MaxQuery = 1
    MaxFault = 1
    Faults = {"dup"}
INVARIANT RepeatsAddNothing
CHECK_DEADLOCK FALSE
