SPECIFICATION MigrationSpec
CONSTANTS
    SHARE_PRECISION = 2
    LAMPORTS_PER_XNT = 2
    CLASS_CEIL <- MCClassCeil
    LOCK_SECONDS <- MCLockSeconds
    Wallets = {w1}
    NoWallet = NoWallet
    PoolConfigured = TRUE
    PoolStart <- MCPoolPar
    Modes = {"Compound"}
    StakeAmounts = {4}
    TopUpAmounts = {}
    YieldAmounts = {}
    DevPrices = {}
    PoolDeltas = {}
    RENT_EXEMPT = 1
    DAY = 1
    MaxVows = 2
    MaxTime = 2
    MaxEpoch = 1
    MaxFunds = 20
    MaxCommitments = 1
    MaxHarvested = 0
    Admins = {a1}
    MaxMigrations = 1
PROPERTIES
    ShortageShared
