SPECIFICATION ReearnSpec
CONSTANTS
    Obligations = {o1}
    Reserves = {r1}
    Tokens = {relend, other}
    RELEND = relend
    other = other
    Operators = {op}
    DAY = 2
    Shortest = 1
    BASE = 2
    BILLION = 2
    U64MAX = 8
    Unit = 2
    LockDurations = {1, 2}
    Amounts = {2, 5}
    Exponents <- MCExponents
    Yields <- MCYields
    Deposits = {0, 3}
    Supplies = {4}
    MaxVault = 4
    MaxTime = 5
INVARIANTS
    
    OncePerLockDuration
    RefreshesSplitTheReward
CHECK_DEADLOCK FALSE
