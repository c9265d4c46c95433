SPECIFICATION LimitedSpec
CONSTANTS
    WAD = 1000
    SLOTS_PER_YEAR = 1
    MAX_BONUS_PCT = 25
    MAX_PROTOCOL_LIQUIDATION_FEE_DECA_BPS = 50
    MAX_OBLIGATION_RESERVES = 3
    LIQUIDATION_CLOSE_FACTOR = 20
    MAX_LIQUIDATABLE_VALUE_AT_ONCE = 500
    GLOBAL_ALLOWED = 650
    GLOBAL_UNHEALTHY = 700
    Reserves <- MCReserves
    Users = {ann, bob}
    Obligations = {ob}
    OwnerOf <- MCOwnerOf
    Admins = {owner}
    RelendOwner = relend
    Anyone = anyone
    U64_MAX = 10000
    MarketLimits <- MCMarketLimits
    FirstConfig <- MCFirstConfig
    FirstDeposit = 3
    MintScale <- MCMintScale
    Wallet <- MCWallet
    MaxSlot = 2
    Dust = 100
    DepositAmounts = {}
    RedeemAmounts = {1}
    PledgeAmounts = {3}
    WithdrawAmounts = {1}
    BorrowAmounts = {1}
    RepayAmounts = {}
    LiquidateAmounts = {}
    ForgiveAmounts = {}
    Reconfigs <- MCReconfigs
    LimiterConfigs <- MCLimits
    Whitelists = {anyone}
INVARIANTS ReserveOutflowLimited MarketOutflowLimited
CHECK_DEADLOCK FALSE
