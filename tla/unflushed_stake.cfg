SPECIFICATION Spec
CONSTANTS
    SHARE_PRECISION = 2
    LAMPORTS_PER_XNT = 2
    CLASS_CEIL <- MCClassCeil
    LOCK_SECONDS <- MCLockSeconds
    Wallets = {w1}
    NoWallet = NoWallet
    PoolConfigured = TRUE
    PoolStart <- MCPoolPar
    Modes = {"Compound"}
    StakeAmounts = {8}
    TopUpAmounts = {}
    YieldAmounts = {}
    DevPrices = {}
    PoolDeltas <- MCRewards
    RENT_EXEMPT = 2
    DAY = 2
    MaxVows = 1
    MaxTime = 2
    MaxEpoch = 2
    MaxFunds = 14
    MaxCommitments = 1
    MaxHarvested = 3
INVARIANTS
    SharesBackedByFunds
