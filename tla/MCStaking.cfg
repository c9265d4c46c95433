SPECIFICATION PoolSpec
CONSTANTS
    ann = ann
    bob = bob
    annSet = annSet
    bobSet = bobSet
    annLocked = annLocked
    bobLocked = bobLocked
    NoSet = NoSet
    NoReward = NoReward
    Sets <- MCSets
    SetsOf <- MCSetsOf
    LockedSetsOf <- MCLockedSetsOf
    Stakers = {ann}
    Rewarders = {r1, r2}
    Receipts = {p1, p2}
    StakeRate = 2
    QueueLength = 2
    Timelocks = {0, 1}
    MaxTime = 3
    Wallet <- MCWallet
    LockerFunds <- MCLockerFunds
    DepositAmounts = {2}
    StakeAmounts = {1}
    Totals = {2}
    Lifetimes = {1}
    Kinds = {"Locked"}
INVARIANTS
    
    
    QueueMatchesHistory
PROPERTIES
    StakeForfeitsNothing
SYMMETRY MCSymmetry
CHECK_DEADLOCK FALSE
