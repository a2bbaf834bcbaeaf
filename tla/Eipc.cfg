SPECIFICATION FairSpec
CONSTANTS
    CAP = 3
    MaxSeq = 4
    TamperSeq = 99
    MaxFlips = 1
    None = None
INVARIANTS
    RingWellFormed
    DeliveredInOrder
    SendAuditedFirst
PROPERTIES
    IsBoundedFifo
    ReceiverFinishes
CHECK_DEADLOCK FALSE
