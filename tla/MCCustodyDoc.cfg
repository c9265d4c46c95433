SPECIFICATION LockerSpec
CONSTANTS
    Lockers = {l1}
    Programs = {pool, other}
    DefaultEntry = default
    WHITELIST_SIZE = 2
    Admins = {owner}
    Accounts = {free}
    Schedules <- MCSchedules
    Deposits = {3, 5}
    WithdrawAmounts = {1, 2}
    RelayAmounts <- MCRelayed
    MaxTime = 9
INVARIANT OwnedIsCustody
CHECK_DEADLOCK FALSE
