SPECIFICATION Spec
CONSTANTS
    e1 = e1
    e2 = e2
    a1 = a1
    a2 = a2
    usd = usd
    eur = eur
    NoMetadata = NoMetadata
    EmptyMetadata = EmptyMetadata
    Metadata = {}
    NoAccount = NoAccount
    NoTransaction = NoTransaction
    NoCommand = NoCommand
    NoDetails = NoDetails
    NoThread = NoThread
    NoEvent = NoEvent
    NoDelivery = NoDelivery
    Worker = Worker
    Currencies = {usd, eur}
    Commands <- WithOffset
    EventIds = {e1}
    AccountIds = {a1}
    Threads = {t1, t2}
    Requests = {r1}
    FallbackModes = {TRUE}
    MaxAttempts = 2
    FailureThreshold = 2
    BatchSize = 1
    MaxFaults = 1
INVARIANTS FailedMeansNotRecorded
