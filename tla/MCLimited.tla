----------------------------- MODULE MCLimited ------------------------------
\* Two reserves without interest, one user who owns the obligation, limits
\* of one token on each reserve and of two on the market.
EXTENDS LimitedLending

Flat ==
    [optimal_utilization_rate |-> 50, max_utilization_rate |-> 80,
     loan_to_value_ratio |-> 90, liquidation_threshold |-> 90,
     max_liquidation_threshold |-> 90,
     liquidation_bonus |-> 5, max_liquidation_bonus |-> 10,
     min_borrow_rate |-> 0, optimal_borrow_rate |-> 0,
     max_borrow_rate |-> 0, super_max_borrow_rate |-> 0,
     borrow_fee_wad |-> 0, flash_loan_fee_wad |-> 0, host_fee_percentage |-> 0,
     deposit_limit |-> 20, borrow_limit |-> 20,
     protocol_liquidation_fee |-> 10, protocol_take_rate |-> 0,
     added_borrow_weight_bps |-> 0, reserve_type |-> "Regular"]

MCReserves == {1, 2}
MCFirstConfig == <<Flat, Flat>>
MCMintScale == <<1, 1>>
MCOwnerOf == [o \in Obligations |-> CHOOSE u \in Users : TRUE]
MCWallet == [r \in MCReserves |-> [u \in Users |->
                IF (r = 1) = (u = MCOwnerOf[CHOOSE o \in Obligations : TRUE]) THEN 3 ELSE 0]]
MCMarketLimits == Config(2, 2)
MCReconfigs == {Flat}
MCLimits == {Config(2, 1)}
=============================================================================
