----------------------------- MODULE FlashLoan ------------------------------
(***************************************************************************)
(* Transactions that hold flash loans: a list of instructions that run one *)
(* after the other in one slot and leave their effects only if all of them *)
(* succeed.  process_flash_borrow_reserve_liquidity lends on the strength  *)
(* of a look ahead in the list: exactly one later instruction repays the   *)
(* loan, and none borrows again.  Between the two any lending instruction  *)
(* may run on a reserve that counts the loan as a debt no obligation owes. *)
(*                                                                         *)
(* Instructions are numbered from 1 (from 0 in the instructions sysvar).   *)
(* Only top-level ones are modelled: is_cpi_call refuses a flash borrow or *)
(* repayment that another program invokes.                                 *)
(***************************************************************************)
EXTENDS Lending

CONSTANTS Programs,     \* the instruction lists tried
          NoFlashLoans  \* the fee that disables flash loans, u64::MAX

VARIABLES tx,       \* the transaction under way, with the accounts it began on
          lent      \* history: [reserve -> flash loans out, in tokens]

accounts == [market |-> market, reserve |-> reserve, obligation |-> obligation,
             token |-> token, ctoken |-> ctoken, minted |-> minted]
flashVars == <<vars, tx, lent>>

Idle == [program |-> <<>>]
Running == tx # Idle

FlashBorrowOf(r, n) == [kind |-> "FlashBorrow", reserve |-> r, amount |-> n]
FlashRepayOf(r, n, i) ==
    [kind |-> "FlashRepay", reserve |-> r, amount |-> n, borrow_instruction_index |-> i]
Other == [kind |-> "Lending"]       \* any other instruction of this program
Foreign == [kind |-> "Foreign"]     \* an instruction of another program
Instruction ==
    [kind : {"FlashBorrow"}, reserve : Reserves, amount : Nat]
    \cup [kind : {"FlashRepay"}, reserve : Reserves, amount : Nat,
          borrow_instruction_index : Nat \ {0}]
    \cup {Other, Foreign}

ASSUME ProgramsAssumption == Programs \subseteq Seq(Instruction)

-----------------------------------------------------------------------------
Later(program, i, kind) == {j \in i + 1..Len(program) : program[j].kind = kind}

\* What a flash borrow at i asks of the instructions after it.
NeedsNoRepay(program, i) ==
    /\ Later(program, i, "FlashBorrow") = {}
    /\ Cardinality(Later(program, i, "FlashRepay")) =< 1
RepayTwice(program, i) ==
    /\ Later(program, i, "FlashBorrow") = {}
    /\ Later(program, i, "FlashRepay") # {}
    /\ \A j \in Later(program, i, "FlashRepay") :
          program[j] = FlashRepayOf(program[i].reserve, program[i].amount, i)
RepaidLater(program, i) ==
    /\ Later(program, i, "FlashBorrow") = {}
    /\ \E j \in Later(program, i, "FlashRepay") :
          /\ Later(program, i, "FlashRepay") = {j}
          /\ program[j] = FlashRepayOf(program[i].reserve, program[i].amount, i)

\* What a flash repayment at i asks of the instruction it names.
NamesItsBorrow(program, i) ==
    LET b == program[i].borrow_instruction_index
    IN  /\ b =< i
        /\ program[b] = FlashBorrowOf(program[i].reserve, program[i].amount)

\* The reserve that lends: its interest is brought up to date first.
LendsUnrefreshed(res) == res
LendsRefreshed(res) == RefreshInterest(res, slot)

\* process_flash_borrow_reserve_liquidity, to the user of the transaction.
FlashBorrow ==
    LET i == tx.at
        r == tx.program[i].reserve
        n == tx.program[i].amount
    IN  /\ tx.program[i].kind = "FlashBorrow"
        /\ Live(reserve[r])
        /\ CanRefresh(reserve[r], slot)
        /\ reserve[r].config.flash_loan_fee_wad # NoFlashLoans
        /\ RepaidLater(tx.program, i)
        /\ CanLend(reserve[r], FromInt(n))
        /\ token[r][Vault] >= n
        /\ reserve' = [reserve EXCEPT ![r] = MarkStale(Lend(LendsRefreshed(@), FromInt(n)))]
        /\ token' = Move(token, r, Vault, tx.user, n)
        /\ lent' = [lent EXCEPT ![r] = @ + n]
        /\ UNCHANGED <<slot, market, obligation, ctoken, minted>>

\* process_flash_repay_reserve_liquidity: the amount goes back to the vault
\* and the fees, on top of it, to the host and the fee receiver.
FlashRepay ==
    LET i    == tx.at
        r    == tx.program[i].reserve
        n    == tx.program[i].amount
        fees == Fees(reserve[r].config, FromInt(n), reserve[r].config.flash_loan_fee_wad, FALSE)
    IN  /\ tx.program[i].kind = "FlashRepay"
        /\ Live(reserve[r])
        /\ fees.ok /\ fees.host =< fees.total
        /\ NamesItsBorrow(tx.program, i)
        /\ token[r][tx.user] >= n + fees.total
        /\ reserve' = [reserve EXCEPT ![r] = MarkStale(Settle(@, n, FromInt(n)))]
        /\ token' = Move(Move(Move(token, r, tx.user, Vault, n),
                              r, tx.user, Host, fees.host),
                         r, tx.user, FeeReceiver, fees.total - fees.host)
        /\ lent' = [lent EXCEPT ![r] = @ - n]
        /\ UNCHANGED <<slot, market, obligation, ctoken, minted>>

LendingInstruction ==
    OpenAccounts \/ Upkeep \/ Pool \/ Collateral \/ Debt \/ Liquidations \/ Administration

-----------------------------------------------------------------------------
\* The runtime (external): instructions in order, all or nothing.

Begin(u, program) ==
    /\ ~Running
    /\ tx' = [program |-> program, user |-> u, at |-> 1, began |-> accounts]
    /\ UNCHANGED <<vars, lent>>

Execute ==
    /\ Running /\ tx.at =< Len(tx.program)
    /\ \/ FlashBorrow
       \/ FlashRepay
       \/ tx.program[tx.at].kind = "Lending" /\ LendingInstruction /\ UNCHANGED lent
       \/ tx.program[tx.at].kind = "Foreign" /\ UNCHANGED <<vars, lent>>
    /\ tx' = [tx EXCEPT !.at = @ + 1]

Commit ==
    /\ Running /\ tx.at > Len(tx.program)
    /\ tx' = Idle
    /\ UNCHANGED <<vars, lent>>

\* An instruction fails: the accounts are what they were at the beginning.
Abort ==
    /\ Running /\ tx.at =< Len(tx.program)
    /\ market' = tx.began.market /\ reserve' = tx.began.reserve
    /\ obligation' = tx.began.obligation
    /\ token' = tx.began.token /\ ctoken' = tx.began.ctoken /\ minted' = tx.began.minted
    /\ lent' = [r \in Reserves |-> 0]
    /\ tx' = Idle
    /\ UNCHANGED slot

\* A transaction of one lending instruction, and the clock.
Single ==
    /\ ~Running
    /\ Tick \/ LendingInstruction
    /\ UNCHANGED <<tx, lent>>

RunTransaction == Execute \/ Commit \/ Abort

FlashInit == Init /\ tx = Idle /\ lent = [r \in Reserves |-> 0]
FlashNext ==
    \/ \E u \in Users, program \in Programs : Begin(u, program)
    \/ RunTransaction \/ Single
FlashSpec == FlashInit /\ [][FlashNext]_flashVars

\* The runtime does not leave a transaction half way: its next instruction runs
\* or fails.  Nobody is ever obliged to begin one.
FairFlashSpec == FlashSpec /\ WF_flashVars(RunTransaction)

-----------------------------------------------------------------------------
\* Every flash loan comes back, whatever the list of instructions: the look ahead
\* accepts no repayment that the list does not hold or that will not match, and
\* an instruction that fails on the way to it takes the loan back.
LoansComeBack == \A r \in Reserves : lent[r] > 0 ~> lent[r] = 0

\* No loan is repaid twice: a second repayment would settle a debt that the
\* obligations still owe.
RepaidOnce == \A r \in Reserves : lent[r] >= 0

\* A flash loan leaves no debt behind: with what is out, the reserve's total moves
\* as the obligations' debts do, through every transaction that is not undone.
\* While a loan is out the reserve's utilization and so its borrow rate are
\* inflated; no interest is computed on them.
Undone == Running /\ tx.at =< Len(tx.program) /\ tx' = Idle
WithLoans(r) == Unmatched(r) + FromInt(lent[r])
FlashLeavesNoDebt ==
    [][~Undone => \A r \in Reserves : MatchKept(r, WithLoans(r), WithLoans(r)')]_flashVars

\* What the receivers of fees hold, in some state of the token accounts.
Received(balances, r) == balances[r][FeeReceiver] + balances[r][Host]

\* A transaction that commits has paid for its loan: at least the rate, and
\* never less than one token to each receiver, however small the loan.
LoansArePaidFor ==
    [][tx # Idle /\ tx' = Idle /\ tx.at > Len(tx.program) =>
         \A i \in DOMAIN tx.program : tx.program[i].kind = "FlashBorrow" =>
            LET r      == tx.program[i].reserve
                c      == reserve[r].config
                before == Received(tx.began.token, r)
            IN  c.flash_loan_fee_wad > 0 /\ tx.program[i].amount > 0 =>
                  Received(token, r) - before >=
                     Larger(IF c.host_fee_percentage > 0 THEN 2 ELSE 1,
                            Floor(Mul(FromInt(tx.program[i].amount), c.flash_loan_fee_wad)))
      ]_flashVars
=============================================================================
