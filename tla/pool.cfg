SPECIFICATION Spec
CONSTANTS
    SHARE_PRECISION = 2
    LAMPORTS_PER_XNT = 2
    CLASS_CEIL <- MCClassCeil
    LOCK_SECONDS <- MCLockSeconds
    Wallets = {w1}
    NoWallet = NoWallet
    PoolConfigured = TRUE
    PoolStart <- MCPoolAny
    Modes = {"Treasury"}
    StakeAmounts = {4}
    TopUpAmounts = {}
    YieldAmounts = {}
    DevPrices = {}
    PoolDeltas <- MCSwing
    RENT_EXEMPT = 2
    DAY = 2
    MaxVows = 2
    MaxTime = 2
    MaxEpoch = 2
    MaxFunds = 13
    MaxCommitments = 1
    MaxHarvested = 3
INVARIANTS
    TypeOK
    TotalsAgree
    PayoutCovered
PROPERTIES
    ProRataFair
