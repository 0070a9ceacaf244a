SPECIFICATION EventSpec
CONSTANTS
    Accounts = {a1, a2}
    Contract = Contract
    Yield = Yield
    None = None
    Funds = 4
    MilestoneVecs <- OpenVecs
    Deadlines = {0, 1}
    Protocols = {None, Yield}
    Recurrences <- EveryLedger
    ReleaseAmounts = {1}
    FeeRates = {5000, 20000}
    Gifts = {3}
    TTL_MIN_LEDGERS = 0
    TTL_MAX_LEDGERS = 4
    PersistentTTL = 1
    I128_MAX = 30000
    MaxTime = 2
SYMMETRY Symmetry
INVARIANTS Solvent RefundCovered RecurringPace EventsTell WalletsTold
PROPERTIES Consent
