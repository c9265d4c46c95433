SPECIFICATION LockerSpec
CONSTANTS
    Lockers = {l1}
    Programs = {pool, other}
    DefaultEntry = default
    WHITELIST_SIZE = 2
    Admins = {owner, heir}
    Accounts = {free}
    Schedules <- MCSchedules
    Deposits = {3, 5}
    WithdrawAmounts = {1, 2}
    RelayAmounts <- MCRelayed
    MaxTime = 9
INVARIANTS
    WithdrawnIsVested
    VestsAtMostDeposit
CHECK_DEADLOCK FALSE
