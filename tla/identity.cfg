SPECIFICATION Spec
CONSTANTS
    SHARE_PRECISION = 2
    LAMPORTS_PER_XNT = 2
    CLASS_CEIL <- MCClassCeil
    LOCK_SECONDS <- MCLockSeconds
    Wallets = {w1}
    NoWallet = NoWallet
    PoolConfigured = FALSE
    PoolStart <- MCPoolPar
    Modes = {"Compound", "Treasury", "Hybrid"}
    StakeAmounts = {5}
    TopUpAmounts = {2}
    YieldAmounts = {2}
    DevPrices = {1, 3}
    PoolDeltas = {}
    RENT_EXEMPT = 2
    DAY = 2
    MaxVows = 1
    MaxTime = 3
    MaxEpoch = 2
    MaxFunds = 9
    MaxCommitments = 2
    MaxHarvested = 4
INVARIANTS
    TypeOK
    EscrowHoldsPosition
    FulfilmentLedger
    MaturedAfterLock
    TierMatchesStake
    GainBackedByShares
PROPERTIES
    LeaverEarnsDust
    ImplementsLifecycle
