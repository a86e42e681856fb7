SPECIFICATION FairSpec
CONSTANTS
    SHARE_PRECISION = 2
    LAMPORTS_PER_XNT = 2
    CLASS_CEIL <- MCClassCeil
    LOCK_SECONDS <- MCLockSeconds
    Wallets = {w1}
    NoWallet = NoWallet
    PoolConfigured = TRUE
    PoolStart <- MCPoolUneven
    Modes = {"Compound"}
    StakeAmounts = {4}
    TopUpAmounts = {}
    YieldAmounts = {}
    DevPrices = {}
    PoolDeltas <- MCBothWays
    RENT_EXEMPT = 2
    DAY = 2
    MaxVows = 1
    MaxTime = 2
    MaxEpoch = 2
    MaxFunds = 13
    MaxCommitments = 1
    MaxHarvested = 3
PROPERTIES
    UnstakeCompletes
