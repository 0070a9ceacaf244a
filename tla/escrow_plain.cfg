SPECIFICATION Spec
CONSTANTS
    Accounts = {a1, a2, a3}
    Contract = Contract
    Yield = Yield
    None = None
    Funds = 3
    MilestoneVecs <- PlainVecs
    Deadlines = {0, 1}
    Protocols = {None}
    Recurrences <- EveryLedger
    ReleaseAmounts = {1}
    FeeRates = {5000}
    Gifts = {}
    TTL_MIN_LEDGERS = 1
    TTL_MAX_LEDGERS = 3
    PersistentTTL = 1
    I128_MAX = 15000
    MaxTime = 2
SYMMETRY Symmetry
INVARIANTS TypeOK Custody
PROPERTIES TerminalFinal Consent KeptAlive
