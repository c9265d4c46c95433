------------------------------ MODULE MCAdmin ------------------------------
(***************************************************************************)
(* One reserve whose configuration, limiters and authorities change under  *)
(* a small loan that ends with less collateral than debt: every interest   *)
(* goes to the protocol, so that the collateral does not grow with it.     *)
(***************************************************************************)
EXTENDS Lending

Flat ==
    [optimal_utilization_rate |-> 50, max_utilization_rate |-> 80,
     loan_to_value_ratio |-> 90, liquidation_threshold |-> 95,
     max_liquidation_threshold |-> 95,
     liquidation_bonus |-> 5, max_liquidation_bonus |-> 10,
     min_borrow_rate |-> 35, optimal_borrow_rate |-> 35,
     max_borrow_rate |-> 35, super_max_borrow_rate |-> 35,
     borrow_fee_wad |-> 0, flash_loan_fee_wad |-> 0, host_fee_percentage |-> 0,
     deposit_limit |-> 20, borrow_limit |-> 20,
     protocol_liquidation_fee |-> 10, protocol_take_rate |-> 100,
     added_borrow_weight_bps |-> 0, reserve_type |-> "Regular"]
Steep == [Flat EXCEPT !.max_borrow_rate = 45, !.super_max_borrow_rate = 45,
                      !.max_liquidation_bonus = 25, !.protocol_liquidation_fee = 0]

MCReserves == {1}
MCFirstConfig == <<Flat>>
MCMintScale == <<5>>
MCOwnerOf == [o \in Obligations |-> CHOOSE u \in Users : TRUE]
MCWallet == [r \in MCReserves |-> [u \in Users |-> 4]]
MCOff == Config(0, 0)
MCReconfigs == {Steep}
MCLimits == {Config(0, 0)}
=============================================================================
