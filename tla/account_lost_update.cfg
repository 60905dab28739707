SPECIFICATION AccountSpec
CONSTANTS
    e1 = e1
    e2 = e2
    e3 = e3
    a1 = a1
    a2 = a2
    usd = usd
    eur = eur
    NoMetadata = NoMetadata
    EmptyMetadata = EmptyMetadata
    Metadata = {}
    NoAccount = NoAccount
    NoTransaction = NoTransaction
    NoCommand = NoCommand
    NoDetails = NoDetails
    Currencies = {usd, eur}
    EventIds = {e1, e2, e3}
    AccountIds = {a1}
    Threads = {t1, t2}
    Commands <- OneAccountCommands
INVARIANTS BalanceMatchesLedger

