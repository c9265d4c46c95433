SPECIFICATION FairFlashSpec
CONSTANTS
    WAD = 1000
    SLOTS_PER_YEAR = 1
    MAX_BONUS_PCT = 25
    MAX_PROTOCOL_LIQUIDATION_FEE_DECA_BPS = 50
    MAX_OBLIGATION_RESERVES = 3
    LIQUIDATION_CLOSE_FACTOR = 20
    MAX_LIQUIDATABLE_VALUE_AT_ONCE = 500
    GLOBAL_ALLOWED = 650
    GLOBAL_UNHEALTHY = 700
    Reserves <- MCReserves
    Users = {ann}
    Obligations = {ob}
    OwnerOf <- MCOwnerOf
    Admins = {owner}
    RelendOwner = relend
    Anyone = anyone
    U64_MAX = 10000
    MarketLimits <- MCOff
    FirstConfig <- MCFirstConfig
    FirstDeposit = 3
    MintScale <- MCMintScale
    Wallet <- MCWallet
    MaxSlot = 2
    Dust = 50
    DepositAmounts = {}
    RedeemAmounts = {}
    PledgeAmounts = {3}
    WithdrawAmounts = {}
    BorrowAmounts = {1}
    RepayAmounts = {10000}
    LiquidateAmounts = {}
    ForgiveAmounts = {}
    Reconfigs = {}
    LimiterConfigs = {}
    Whitelists = {anyone}
    Programs <- MCPrograms
    NoFlashLoans = 10000
INVARIANTS
    RepaidOnce
PROPERTIES
    FlashLeavesNoDebt
    LoansArePaidFor
    LoansComeBack
CHECK_DEADLOCK FALSE
