CONSTANTS
    Addr <- MCAddr
    Mac <- MCMac
    NoMac = "none"
    HelloInterval = 2
    Lifetimes <- MCLifetimes
SPECIFICATION Spec
INVARIANTS
    TypeOK
    TimerCoversList
    FailureDetectedInTime
    CreditHonoured
    NoClosedLinkKept
PROPERTY
    LossReported
