SPECIFICATION HistorySpec
CONSTANTS
    SHARE_PRECISION = 2
    LAMPORTS_PER_XNT = 2
    CLASS_CEIL <- MCClassCeil
    LOCK_SECONDS <- MCLockSeconds
    Wallets = {w1}
    NoWallet = NoWallet
    PoolConfigured = TRUE
    PoolStart <- MCPoolUneven
    Modes = {"Treasury", "Hybrid"}
    StakeAmounts = {8}
    TopUpAmounts = {3}
    YieldAmounts = {2}
    DevPrices = {}
    PoolDeltas <- MCStorm
    RENT_EXEMPT = 2
    DAY = 2
    MaxVows = 1
    MaxTime = 3
    MaxEpoch = 2
    MaxFunds = 18
    MaxCommitments = 1
    MaxHarvested = 9
INVARIANTS
    YieldNotFromPrincipal
PROPERTIES
    NoUnbackedClaims
