\* Every form of the console, opened twice, with three requests to send.
SPECIFICATION Spec
CONSTANTS
    MaxVersion = 3
    MaxSends = 3
    MaxIntents = 2
    None = None
INVARIANTS
    TypeOK
    RetriedOnce
    EnsuredOnce
    HonestSuccess
PROPERTIES
    ConfirmedNotResent
CHECK_DEADLOCK FALSE
