SPECIFICATION MailboxFairSpec
CONSTANTS
    Cores <- MCCores
    Depth = 2
    Coroutine = TRUE
    MaxMsgs <- MCMaxMsgs
INVARIANTS
    MailboxTypeOK
    RingHoldsPending
    DeliveredInOrder
    QueryHolds
PROPERTY
    StalledLoadCompletes
