SPECIFICATION MailboxSpec
CONSTANTS
    Cores <- MCCores
    Depth = 2
    Coroutine = FALSE
    MaxMsgs <- MCMaxMsgs
INVARIANT
    RingHoldsPending
