SPECIFICATION ClientSpec
CONSTANTS
    Accounts = {a1, a2}
    Contract = Contract
    Yield = Yield
    None = None
    Funds = 2
    MilestoneVecs <- Once
    Deadlines = {0}
    Protocols = {None}
    Recurrences <- NoRecurrence
    ReleaseAmounts = {1}
    FeeRates = {0}
    Gifts = {}
    TTL_MIN_LEDGERS = 1
    TTL_MAX_LEDGERS = 3
    PersistentTTL = 9
    I128_MAX = 15000
    MaxTime = 1
    MaxCalls = 2
    Users = {a1}
INVARIANTS ToldTrue LandedOnce
