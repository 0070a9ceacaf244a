CHECK_DEADLOCK FALSE
SPECIFICATION Spec
CONSTANTS
    Accounts = {a1, a2}
    EscrowFactory = EscrowFactory
    Tokens = {t1, t2}
    Amounts <- SmallAmounts
    Gifts = {2}
    None = None
    Funds = 2
    MaxEscrows = 3
SYMMETRY Symmetry
INVARIANTS FactoryTypeOK PoolExact IndexesExact SettlementCovered
PROPERTIES SettledProperly ImplementsCustody
