SPECIFICATION FairSpec
CONSTANTS
    e1 = e1
    e2 = e2
    a1 = a1
    a2 = a2
    usd = usd
    eur = eur
    NoMetadata = NoMetadata
    EmptyMetadata = EmptyMetadata
    Metadata = {}
    NoAccount = NoAccount
    NoTransaction = NoTransaction
    NoCommand = NoCommand
    NoDetails = NoDetails
    NoThread = NoThread
    NoEvent = NoEvent
    NoDelivery = NoDelivery
    Worker = Worker
    Currencies = {usd, eur}
    Commands <- TwoCurrencies
    EventIds = {e1, e2}
    AccountIds = {a1}
    Threads = {t1}
    Requests = {r1}
    FallbackModes = {TRUE}
    MaxAttempts = 1
    FailureThreshold = 1
    BatchSize = 2
    MaxFaults = 2
PROPERTIES QueueDrains
