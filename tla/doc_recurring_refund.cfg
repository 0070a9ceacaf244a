SPECIFICATION Spec
CONSTANTS
    Contract = Contract
    Yield = Yield
    None = None
    FeeRates = {0}
    Gifts = {}
    I128_MAX = 100000
    Accounts = {a1, a2}
    Funds = 3
    MilestoneVecs <- OncePending
    Deadlines = {1}
    Protocols = {None}
    Recurrences <- EveryLedger
    ReleaseAmounts = {1}
    TTL_MIN_LEDGERS = 1
    TTL_MAX_LEDGERS = 4
    PersistentTTL = 2
    MaxTime = 3
INVARIANTS RefundIsUnspent
