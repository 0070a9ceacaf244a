SPECIFICATION FairSpec
CONSTANTS
    Accounts = {a1, a2}
    Contract = Contract
    Yield = Yield
    None = None
    Funds = 3
    MilestoneVecs <- TwoPending
    Deadlines = {1, 2}
    Protocols = {None, Yield}
    Recurrences <- NoRecurrence
    ReleaseAmounts = {1}
    FeeRates = {5000}
    Gifts = {}
    TTL_MIN_LEDGERS = 1
    TTL_MAX_LEDGERS = 2
    PersistentTTL = 1
    I128_MAX = 20000
    MaxTime = 3
PROPERTIES DeadlineRefund ImplementsCustody
