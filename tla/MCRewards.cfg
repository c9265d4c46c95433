SPECIFICATION PoolSpec
CONSTANTS
    ann = ann
    bob = bob
    annSet = annSet
    bobSet = bobSet
    annLocked = annLocked
    bobLocked = bobLocked
    NoSet = NoSet
    NoReward = NoReward
    Sets <- MCSets
    SetsOf <- MCSetsOf
    LockedSetsOf <- MCLockedSetsOf
    Stakers = {ann, bob}
    Rewarders = {r1, r2}
    Receipts = {p1}
    StakeRate = 1
    QueueLength = 2
    Timelocks = {1}
    MaxTime = 3
    Wallet <- MCUneven
    LockerFunds <- MCNothing
    DepositAmounts = {1}
    StakeAmounts = {1}
    Totals = {4}
    Lifetimes = {1}
    Kinds = {"Unlocked"}
INVARIANTS
    TypeOK
    
    
    SupplyIsHeld
PROPERTIES
    RewardsArePayouts
SYMMETRY MCSymmetry
CHECK_DEADLOCK FALSE
