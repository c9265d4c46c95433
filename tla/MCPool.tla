------------------------------- MODULE MCPool -------------------------------
(***************************************************************************)
(* One reserve that is both deposited in and borrowed from: a depositor, a *)
(* borrower who pledges, and interest high enough to round at every step.  *)
(***************************************************************************)
EXTENDS Lending

MCConfig ==
    [optimal_utilization_rate |-> 50, max_utilization_rate |-> 80,
     loan_to_value_ratio |-> 50, liquidation_threshold |-> 60,
     max_liquidation_threshold |-> 80,
     liquidation_bonus |-> 5, max_liquidation_bonus |-> 10,
     min_borrow_rate |-> 10, optimal_borrow_rate |-> 30,
     max_borrow_rate |-> 60, super_max_borrow_rate |-> 90,
     borrow_fee_wad |-> 0, flash_loan_fee_wad |-> 0, host_fee_percentage |-> 0,
     deposit_limit |-> 20, borrow_limit |-> 20,
     protocol_liquidation_fee |-> 10, protocol_take_rate |-> 20,
     added_borrow_weight_bps |-> 0, reserve_type |-> "Regular"]

MCReserves == {1}
MCFirstConfig == [r \in MCReserves |-> MCConfig]
MCMintScale == [r \in MCReserves |-> 1]
MCOwnerOf == [o \in Obligations |-> CHOOSE u \in Users : TRUE]
Owners == {MCOwnerOf[o] : o \in Obligations}
MCWallet == [r \in MCReserves |-> [u \in Users |-> IF u \in Owners THEN 4 ELSE 5]]
MCOff == Config(0, 0)
MCAmounts == {3}
MCAll == {2, U64_MAX}
=============================================================================
