------------------------------ MODULE MCCross -------------------------------
(***************************************************************************)
(* Three reserves: 1 is pledged and borrowed from, 2 is borrowed from with *)
(* an added weight and a fee shared with a host, 3 is of the isolated      *)
(* tier.  An obligation has room for three entries.                        *)
(***************************************************************************)
EXTENDS Lending

Regular ==
    [optimal_utilization_rate |-> 50, max_utilization_rate |-> 80,
     loan_to_value_ratio |-> 75, liquidation_threshold |-> 75,
     max_liquidation_threshold |-> 80,
     liquidation_bonus |-> 5, max_liquidation_bonus |-> 10,
     min_borrow_rate |-> 20, optimal_borrow_rate |-> 40,
     max_borrow_rate |-> 60, super_max_borrow_rate |-> 90,
     borrow_fee_wad |-> 0, flash_loan_fee_wad |-> 0, host_fee_percentage |-> 0,
     deposit_limit |-> 20, borrow_limit |-> 20,
     protocol_liquidation_fee |-> 10, protocol_take_rate |-> 20,
     added_borrow_weight_bps |-> 0, reserve_type |-> "Regular"]
Heavy == [Regular EXCEPT !.added_borrow_weight_bps = 2000,
                         !.borrow_fee_wad = 100, !.host_fee_percentage = 20]
Isolated == [Regular EXCEPT !.reserve_type = "Isolated",
                            !.loan_to_value_ratio = 0, !.liquidation_threshold = 0]

MCReserves == {1, 2, 3}
MCFirstConfig == <<Regular, Heavy, Isolated>>
\* A limit that a borrow of 3 respects and its fee of 2 exceeds.
MCDocConfig == <<Regular, [Heavy EXCEPT !.borrow_limit = 4], Isolated>>
MCMintScale == <<1, 1, 1>>
MCOwnerOf == [o \in Obligations |-> CHOOSE u \in Users : TRUE]
Owners == {MCOwnerOf[o] : o \in Obligations}
MCWallet == [r \in MCReserves |->
                [u \in Users |-> IF (u \in Owners) = (r # 2) THEN 14 ELSE 0]]
MCOff == Config(0, 0)
=============================================================================
