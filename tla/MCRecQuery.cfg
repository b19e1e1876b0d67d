SPECIFICATION Spec
CONSTANTS
    Item = {"cam1", "cam2"}
    Other = "nobody"
    Records <- MCRecords
    Null = Null
    NumRec = 4
    MaxMsg = 1
    Limit = 3
    DevBatch = 3
    GbBatch = 2
    ResBatch = 2
    MaxQuery = 3
    MaxFault = 2
    Faults = {"lose", "dup", "sendto", "grow", "otherId"}
INVARIANTS TypeOK RecordsConserved QueriesDistinct ToldIsAsked ToldOnce QueriesSettle
CHECK_DEADLOCK FALSE
