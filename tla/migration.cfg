SPECIFICATION MigrationSpec
CONSTANTS
    SHARE_PRECISION = 2
    LAMPORTS_PER_XNT = 2
    CLASS_CEIL <- MCLowCeil
    LOCK_SECONDS <- MCLockSeconds
    Wallets = {w1, w2}
    NoWallet = NoWallet
    PoolConfigured = FALSE
    PoolStart <- MCPoolPar
    Modes = {"Compound"}
    StakeAmounts = {2}
    TopUpAmounts = {2}
    YieldAmounts = {1}
    DevPrices = {}
    PoolDeltas = {}
    RENT_EXEMPT = 1
    DAY = 1
    MaxVows = 2
    MaxTime = 2
    MaxEpoch = 1
    MaxFunds = 6
    MaxCommitments = 1
    MaxHarvested = 0
    Admins = {a1, a2}
    MaxMigrations = 1
SYMMETRY KeySymmetry
INVARIANTS
    MigrationTypeOK
    RecordsReflectIdentities
    TotalsNeverOverstate
    CounterPastIdentities
PROPERTIES
    FulfilmentsEarned
    IdentityPermanent
