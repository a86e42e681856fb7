SPECIFICATION SessionSpec
CONSTANTS
    SHARE_PRECISION = 2
    LAMPORTS_PER_XNT = 2
    CLASS_CEIL <- MCClassCeil
    LOCK_SECONDS <- MCLockSeconds
    Wallets = {w1}
    NoWallet = NoWallet
    PoolConfigured = FALSE
    PoolStart <- MCPoolPar
    Modes = {"Compound"}
    StakeAmounts = {4}
    TopUpAmounts = {}
    YieldAmounts = {1, 2}
    DevPrices = {}
    PoolDeltas = {}
    RENT_EXEMPT = 1
    DAY = 2
    MaxVows = 1
    MaxTime = 2
    MaxEpoch = 1
    MaxFunds = 9
    MaxCommitments = 2
    MaxHarvested = 0
    Slots = {0}
    Programs = {app1, app2}
    ProgramLists = {{}, {app1}}
    SessionParams <- MCOpenParams
    ProfileIds = {}
    NoProfile = NoProfile
    ProfileParams <- MCProfileParams
    SpendAmounts = {0, 1, 2}
    MaxTxs = 2
    MaxSessions = 1
PROPERTIES
    InvalidatedSessionsNeverSpend
