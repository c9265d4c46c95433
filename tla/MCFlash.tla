------------------------------ MODULE MCFlash -------------------------------
(***************************************************************************)
(* One reserve with interest and a debt, and every transaction of at most  *)
(* three instructions with a flash borrow: none, one or two repayments, of *)
(* its amount or another, naming it or another instruction, with or        *)
(* without a lending instruction before, between or after them.            *)
(***************************************************************************)
EXTENDS FlashLoan

MCConfig ==
    [optimal_utilization_rate |-> 50, max_utilization_rate |-> 80,
     loan_to_value_ratio |-> 50, liquidation_threshold |-> 60,
     max_liquidation_threshold |-> 80,
     liquidation_bonus |-> 5, max_liquidation_bonus |-> 10,
     min_borrow_rate |-> 10, optimal_borrow_rate |-> 30,
     max_borrow_rate |-> 60, super_max_borrow_rate |-> 90,
     borrow_fee_wad |-> 0, flash_loan_fee_wad |-> 100, host_fee_percentage |-> 20,
     deposit_limit |-> 20, borrow_limit |-> 20,
     protocol_liquidation_fee |-> 10, protocol_take_rate |-> 20,
     added_borrow_weight_bps |-> 0, reserve_type |-> "Regular"]

MCReserves == {1}
MCFirstConfig == <<MCConfig>>
MCMintScale == <<1>>
MCOwnerOf == [o \in Obligations |-> CHOOSE u \in Users : TRUE]
MCWallet == [r \in MCReserves |-> [u \in Users |-> 10]]
MCOff == Config(0, 0)

Instructions ==
    {FlashBorrowOf(1, 3), FlashRepayOf(1, 3, 1), FlashRepayOf(1, 3, 2),
     FlashRepayOf(1, 2, 1), Other}
MCPrograms ==
    {p \in UNION {[1..n -> Instructions] : n \in 1..3} :
        \E i \in DOMAIN p : p[i].kind = "FlashBorrow"}
    \cup {<<FlashRepayOf(1, 3, 1)>>, <<Foreign, FlashBorrowOf(1, 3), FlashRepayOf(1, 3, 2)>>}
=============================================================================
