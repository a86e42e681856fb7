SPECIFICATION SessionSpec
CONSTANTS
    SHARE_PRECISION = 2
    LAMPORTS_PER_XNT = 2
    CLASS_CEIL <- MCClassCeil
    LOCK_SECONDS <- MCLockSeconds
    Wallets = {w1}
    NoWallet = NoWallet
    PoolConfigured = FALSE
    PoolStart <- MCPoolPar
    Modes = {"Compound"}
    StakeAmounts = {4}
    TopUpAmounts = {}
    YieldAmounts = {1, 2}
    DevPrices = {}
    PoolDeltas = {}
    RENT_EXEMPT = 1
    DAY = 1
    MaxVows = 1
    MaxTime = 3
    MaxEpoch = 1
    MaxFunds = 9
    MaxCommitments = 2
    MaxHarvested = 0
    Slots = {s1}
    Programs = {app1}
    ProgramLists = {{app1}}
    SessionParams <- MCSessionParams
    ProfileIds = {p1}
    NoProfile = NoProfile
    ProfileParams <- MCProfileParams
    SpendAmounts = {1, 2}
    MaxTxs = 3
    MaxSessions = 3
INVARIANTS
    SessionWithinLimits
PROPERTIES
    SessionKeysNeverReused
    SpendsInOwnCommitment
    ImplementsCore
