------------------------------ MODULE Lending -------------------------------
(***************************************************************************)
(* The lending program: processor.rs over its accounts.  One action is one *)
(* instruction, which the runtime executes whole or rolls back, so a guard *)
(* stands for an early error return anywhere in the handler.  Accounts of  *)
(* the token program (external) are the functions token and ctoken; their  *)
(* transfers fail when the source holds too little.  Signatures, account   *)
(* ownership and address checks are left out: an action's parameters are   *)
(* the accounts that pass them.                                            *)
(***************************************************************************)
EXTENDS Obligation

CONSTANTS Reserves,         \* a set of naturals, in the order of addresses
          Users, Obligations,
          OwnerOf,          \* the user who may open each obligation
          Admins, RelendOwner,
          Anyone,           \* "no whitelisted liquidator"
          U64_MAX,          \* u64::MAX, also the amount that means "all"
          MarketLimits,     \* the limiter configuration of the market
          FirstConfig, FirstDeposit, MintScale, Wallet,
          MaxSlot,
          Dust              \* a part of a token that rounding may cost

\* The amounts and configurations tried.
CONSTANTS DepositAmounts, RedeemAmounts, PledgeAmounts, WithdrawAmounts,
          BorrowAmounts, RepayAmounts, LiquidateAmounts, ForgiveAmounts,
          Reconfigs, LimiterConfigs, Whitelists

ASSUME ReservesAssumption == Reserves \subseteq Nat
ASSUME ConfigsAssumption ==
    FirstConfig \in [Reserves -> ConfigType] /\ Reconfigs \subseteq ConfigType

ASSUME LimitsAssumption ==
    MarketLimits \in LimiterConfigType /\ LimiterConfigs \subseteq LimiterConfigType

ASSUME AmountsAssumption ==
    /\ U64_MAX \in Nat /\ FirstDeposit \in Nat
    /\ MintScale \in [Reserves -> Nat \ {0}]
    /\ Wallet \in [Reserves -> [Users -> Nat]]
    /\ DepositAmounts \subseteq Nat /\ RedeemAmounts \subseteq Nat
    /\ PledgeAmounts \subseteq Nat /\ WithdrawAmounts \subseteq Nat
    /\ BorrowAmounts \subseteq Nat /\ RepayAmounts \subseteq Nat
    /\ LiquidateAmounts \subseteq Nat /\ ForgiveAmounts \subseteq Nat
    /\ MaxSlot \in Nat \ {0}

VARIABLES slot,         \* the clock
          market,       \* the lending market account
          reserve,      \* the reserve accounts
          obligation,   \* the obligation accounts
          token,        \* [reserve -> [holder -> liquidity tokens]]
          ctoken,       \* [reserve -> [holder -> collateral tokens]]
          minted        \* the collateral mints' supplies
vars == <<slot, market, reserve, obligation, token, ctoken, minted>>

\* The reserve's own token accounts, beside those of the users.
Vault == "liquidity supply"
Custody == "collateral supply"
FeeReceiver == "fee receiver"
Host == "host fee receiver"
Holders == Users \cup {Vault, FeeReceiver, Host}

ASSUME AccountsAssumption ==
    /\ IsFiniteSet(Users) /\ IsFiniteSet(Obligations)
    /\ Users \cap {Vault, Custody, FeeReceiver, Host} = {}
    /\ OwnerOf \in [Obligations -> Users]
    /\ Whitelists \subseteq Users \cup {Anyone}

Live(account) == account.version # 0
Fresh(account) == Live(account) /\ ~IsStale(account, slot)

\* spl_token_transfer, mint_to and burn.
Move(balances, r, from, to, n) ==
    [balances EXCEPT ![r][from] = @ - n, ![r][to] = @ + n]

Blank == [version |-> 0]

Init ==
    /\ slot = 1
    /\ market \in {[owner |-> a, risk_authority |-> a, whitelisted_liquidator |-> Anyone,
                    rate_limiter |-> New(MarketLimits, 1)] : a \in Admins \ {RelendOwner}}
    /\ reserve = [r \in Reserves |-> Blank]
    /\ obligation = [o \in Obligations |-> Blank]
    /\ token = [r \in Reserves |->
                   [h \in Holders |-> IF h \in Users THEN Wallet[r][h] ELSE 0]]
    /\ ctoken = [r \in Reserves |-> [h \in Users \cup {Custody} |-> 0]]
    /\ minted = [r \in Reserves |-> 0]

Tick ==
    /\ slot < MaxSlot
    /\ slot' = slot + 1
    /\ UNCHANGED <<market, reserve, obligation, token, ctoken, minted>>

-----------------------------------------------------------------------------
\* The market and its reserves.

\* process_init_reserve, signed by the market's owner, funded by a user.
InitReserve(r, u) ==
    /\ ~Live(reserve[r])
    /\ ValidConfig(FirstConfig[r])
    /\ token[r][u] >= FirstDeposit
    /\ LET res == NewReserve(slot, FirstConfig[r], MintScale[r])
           new == LiquidityToCollateral(res, FirstDeposit)
       IN  /\ reserve' = [reserve EXCEPT ![r] = DepositLiquidity(res, FirstDeposit, new)]
           /\ ctoken' = [ctoken EXCEPT ![r][u] = @ + new]
           /\ minted' = [minted EXCEPT ![r] = @ + new]
    /\ token' = Move(token, r, u, Vault, FirstDeposit)
    /\ UNCHANGED <<slot, market, obligation>>

\* process_refresh_reserve: price (always 1) and interest.
RefreshReserve(r) ==
    /\ Live(reserve[r])
    /\ CanRefresh(reserve[r], slot)
    /\ reserve' = [reserve EXCEPT ![r] = RefreshInterest(@, slot)]
    /\ UNCHANGED <<slot, market, obligation, token, ctoken, minted>>

\* process_set_lending_market_owner_and_config: the limiter starts afresh
\* only when its configuration changes.
SetOwnerAndConfig(owner, risk, liquidator, limits) ==
    /\ market' = [owner |-> owner, risk_authority |-> risk,
                  whitelisted_liquidator |-> liquidator,
                  rate_limiter |-> IF limits = market.rate_limiter.config
                                   THEN market.rate_limiter ELSE New(limits, slot)]
    /\ UNCHANGED <<slot, reserve, obligation, token, ctoken, minted>>

\* process_set_lending_market_risk_authority.
SetRiskAuthority(risk) ==
    /\ market' = [market EXCEPT !.risk_authority = risk]
    /\ UNCHANGED <<slot, reserve, obligation, token, ctoken, minted>>

\* process_update_reserve_config, by signer: the first role that matches.
Reconfigured(res, signer, config, limits) ==
    IF signer = market.owner
    THEN [res EXCEPT !.config = config,
                     !.rate_limiter = IF limits = @.config THEN @ ELSE New(limits, slot)]
    ELSE IF signer = market.risk_authority
    THEN [res EXCEPT !.config = RiskConfig(@, config),
                     !.rate_limiter = IF limits.window_duration > 0 /\ limits.max_outflow = 0
                                      THEN New(limits, slot) ELSE @]
    ELSE [res EXCEPT !.config = FeeConfig(@, config)]

UpdateReserveConfig(r, signer, config, limits) ==
    /\ Live(reserve[r])
    /\ ValidConfig(config)
    /\ signer \in {market.owner, market.risk_authority, RelendOwner}
    /\ reserve' = [reserve EXCEPT ![r] = MarkStale(Reconfigured(@, signer, config, limits))]
    /\ UNCHANGED <<slot, market, obligation, token, ctoken, minted>>

\* process_redeem_fees: anyone sends the accumulated fees to their receiver.
RedeemProtocolFees(r) ==
    /\ Fresh(reserve[r])
    /\ LET amount == RedeemableFees(reserve[r])
       IN  /\ amount # 0
           /\ reserve' = [reserve EXCEPT ![r] = MarkStale(RedeemFees(@, amount))]
           /\ token[r][Vault] >= amount
           /\ token' = Move(token, r, Vault, FeeReceiver, amount)
    /\ UNCHANGED <<slot, market, obligation, ctoken, minted>>

-----------------------------------------------------------------------------
\* Deposits and redemptions.

\* _deposit_reserve_liquidity's conditions on a refreshed reserve.
CanDeposit(res, amount) ==
    /\ TotalSupply(res) >= 0
    /\ Floor(FromInt(amount) + TotalSupply(res)) =< res.config.deposit_limit

\* process_deposit_reserve_liquidity.
Deposit(u, r, amount) ==
    /\ Live(reserve[r]) /\ amount # 0
    /\ CanRefresh(reserve[r], slot)
    /\ LET res == RefreshInterest(reserve[r], slot)
           new == LiquidityToCollateral(res, amount)
       IN  /\ CanDeposit(res, amount)
           /\ reserve' = [reserve EXCEPT ![r] = MarkStale(DepositLiquidity(res, amount, new))]
           /\ ctoken' = [ctoken EXCEPT ![r][u] = @ + new]
           /\ minted' = [minted EXCEPT ![r] = @ + new]
    /\ token[r][u] >= amount
    /\ token' = Move(token, r, u, Vault, amount)
    /\ UNCHANGED <<slot, market, obligation>>

\* The two limiters an outflow of `amount` (a Decimal) passes: the market's
\* counts its value, the reserve's its tokens.
AdmitsOutflow(res, amount) ==
    /\ Admits(market.rate_limiter, slot, MarketValue(res, amount))
    /\ Admits(res.rate_limiter, slot, amount)
MarketUncounted(res, amount) == market
MarketAfter(res, amount) ==
    [market EXCEPT !.rate_limiter = Updated(@, slot, MarketValue(res, amount))]
OutflowUncounted(res, amount) == res
CountOutflow(res, amount) ==
    [res EXCEPT !.rate_limiter = Updated(@, slot, amount)]

\* What _redeem_reserve_collateral asks of the reserve.
CanPay(res, coll) ==
    /\ TotalSupply(res) >= 0
    /\ ExchangeRate(res) > 0
    /\ CanRedeem(res, CollateralToLiquidity(res, coll), coll)

\* process_redeem_reserve_collateral.
Redeem(u, r, coll) ==
    /\ Fresh(reserve[r]) /\ coll # 0
    /\ CanPay(reserve[r], coll)
    /\ ctoken[r][u] >= coll
    /\ LET res == reserve[r]
           liq == CollateralToLiquidity(res, coll)
       IN  /\ AdmitsOutflow(res, FromInt(liq))
           /\ market' = MarketAfter(res, FromInt(liq))
           /\ reserve' = [reserve EXCEPT ![r] =
                 MarkStale(CountOutflow(RedeemCollateral(res, liq, coll), FromInt(liq)))]
           /\ token[r][Vault] >= liq
           /\ token' = Move(token, r, Vault, u, liq)
    /\ ctoken' = [ctoken EXCEPT ![r][u] = @ - coll]
    /\ minted' = [minted EXCEPT ![r] = @ - coll]
    /\ UNCHANGED <<slot, obligation>>

-----------------------------------------------------------------------------
\* Obligations and their collateral.

\* process_init_obligation.
InitObligation(o) ==
    /\ ~Live(obligation[o])
    /\ obligation' = [obligation EXCEPT ![o] = NewObligation(slot, OwnerOf[o])]
    /\ UNCHANGED <<slot, market, reserve, token, ctoken, minted>>

\* process_refresh_obligation.
RefreshAnObligation(o) ==
    /\ Live(obligation[o])
    /\ CanRefreshObligation(obligation[o], reserve, slot)
    /\ obligation' = [obligation EXCEPT ![o] = RefreshObligation(@, reserve, slot)]
    /\ UNCHANGED <<slot, market, reserve, token, ctoken, minted>>

\* process_deposit_obligation_collateral, signed by the owner.
DepositObligation(o, r, coll) ==
    LET ob == obligation[o]
    IN  /\ Live(ob) /\ Live(reserve[r]) /\ coll # 0
        /\ CanRefresh(reserve[r], slot)
        /\ CanPledge(ob, r)
        /\ ctoken[r][ob.owner] >= coll
        /\ reserve' = [reserve EXCEPT ![r] = MarkStale(RefreshInterest(@, slot))]
        /\ obligation' = [obligation EXCEPT ![o] = MarkStale(Pledge(@, r, coll))]
        /\ ctoken' = Move(ctoken, r, ob.owner, Custody, coll)
        /\ UNCHANGED <<slot, market, token, minted>>

\* process_deposit_reserve_liquidity_and_obligation_collateral: what the
\* deposit minted, possibly nothing, is pledged.  The second refresh finds
\* no slot elapsed.
DepositAndPledge(o, r, amount) ==
    LET ob == obligation[o]
        u  == ob.owner
    IN  /\ Live(ob) /\ Live(reserve[r]) /\ amount # 0
        /\ CanRefresh(reserve[r], slot)
        /\ CanPledge(ob, r)
        /\ LET res == RefreshInterest(reserve[r], slot)
               new == LiquidityToCollateral(res, amount)
           IN  /\ CanDeposit(res, amount)
               /\ reserve' = [reserve EXCEPT ![r] = MarkStale(DepositLiquidity(res, amount, new))]
               /\ obligation' = [obligation EXCEPT ![o] = MarkStale(Pledge(@, r, new))]
               /\ ctoken' = [ctoken EXCEPT ![r][Custody] = @ + new]
               /\ minted' = [minted EXCEPT ![r] = @ + new]
        /\ token[r][u] >= amount
        /\ token' = Move(token, r, u, Vault, amount)
        /\ UNCHANGED <<slot, market>>

\* What _withdraw_obligation_collateral withdraws of the amount asked for:
\* less when the debt needs the collateral or, if limited, when the limiters
\* leave less to flow out.
OutflowCap(res, value) ==
    Smaller(ValueToLiquidity(res, Smaller(RemainingOutflow(market.rate_limiter, slot,
                                                           FromInt(U64_MAX)), value)),
            RemainingOutflow(res.rate_limiter, slot, FromInt(U64_MAX)))
Withdrawable(ob, r, asked, limited) ==
    LET res  == reserve[r]
        held == ob.deposits[r].deposited_amount
        flow == Floor(Mul(OutflowCap(res, 2 * ob.deposited_value), ExchangeRate(res)))
    IN  Smaller(asked, Smaller(MaxWithdraw(ob, res, held), IF limited THEN flow ELSE U64_MAX))

CanWithdraw(o, r) ==
    LET ob == obligation[o]
    IN  /\ Fresh(ob) /\ Fresh(reserve[r])
        /\ TotalSupply(reserve[r]) >= 0
        /\ r \in DOMAIN ob.deposits
        /\ ob.deposits[r].deposited_amount # 0

\* process_withdraw_obligation_collateral.
WithdrawObligation(o, r, asked) ==
    LET ob   == obligation[o]
        coll == Withdrawable(ob, r, asked, FALSE)
    IN  /\ asked # 0
        /\ CanWithdraw(o, r)
        /\ coll # 0
        /\ ctoken[r][Custody] >= coll
        /\ obligation' = [obligation EXCEPT ![o] = MarkStale(Release(@, r, coll))]
        /\ ctoken' = Move(ctoken, r, Custody, ob.owner, coll)
        /\ UNCHANGED <<slot, market, reserve, token, minted>>

\* process_withdraw_obligation_collateral_and_redeem_reserve_liquidity.
WithdrawAndRedeem(o, r, asked) ==
    LET ob   == obligation[o]
        res  == reserve[r]
        coll == Withdrawable(ob, r, asked, TRUE)
        liq  == CollateralToLiquidity(res, coll)
    IN  /\ CanWithdraw(o, r)
        /\ coll # 0
        /\ CanPay(res, coll)
        /\ AdmitsOutflow(res, FromInt(liq))
        /\ ctoken[r][Custody] >= coll /\ token[r][Vault] >= liq
        /\ obligation' = [obligation EXCEPT ![o] = MarkStale(Release(@, r, coll))]
        /\ market' = MarketAfter(res, FromInt(liq))
        /\ reserve' = [reserve EXCEPT ![r] =
              MarkStale(CountOutflow(RedeemCollateral(res, liq, coll), FromInt(liq)))]
        /\ token' = Move(token, r, Vault, ob.owner, liq)
        /\ ctoken' = [ctoken EXCEPT ![r][Custody] = @ - coll]
        /\ minted' = [minted EXCEPT ![r] = @ - coll]
        /\ UNCHANGED slot

-----------------------------------------------------------------------------
\* Debts.

\* The isolated-tier rule of process_borrow_obligation_liquidity.
TierUnchecked(ob, r) == TRUE
TierAllows(ob, r) ==
    IF reserve[r].config.reserve_type = "Isolated"
    THEN \/ ob.borrows = <<>>
         \/ Len(ob.borrows) = 1 /\ ob.borrows[1].borrow_reserve = r
    ELSE ~ob.borrowing_isolated_asset

\* What calculate_borrow is asked for: the value left to the obligation and
\* the tokens left to the reserve and to the limiters.
LoanOf(ob, res, asked) ==
    LET value    == RemainingBorrowValue(ob)
        capacity == Larger(0, FromInt(res.config.borrow_limit) - res.borrowed_amount_wads)
    IN  IF asked = U64_MAX
        THEN MaxBorrow(res, value, Smaller(capacity, OutflowCap(res, value)))
        ELSE ExactBorrow(res, asked, value)

\* process_borrow_obligation_liquidity, signed by the owner; the fee is
\* shared only when the instruction names a host.
Borrow(o, r, asked, hosted) ==
    LET ob   == obligation[o]
        res  == reserve[r]
        loan == LoanOf(ob, res, asked)
        host == IF hosted THEN loan.fees.host ELSE 0
    IN  /\ asked # 0
        /\ Fresh(res) /\ Fresh(ob)
        /\ asked # U64_MAX =>
              Floor(FromInt(asked) + res.borrowed_amount_wads) =< res.config.borrow_limit
        /\ DOMAIN ob.deposits # {} /\ ob.deposited_value # 0
        /\ TierAllows(ob, r)
        /\ RemainingBorrowValue(ob) # 0
        /\ loan.ok /\ loan.receive # 0
        /\ AdmitsOutflow(res, loan.amount)
        /\ CanLend(res, loan.amount)
        /\ CanOwe(ob, r)
        /\ host =< loan.fees.total
        /\ token[r][Vault] >= loan.receive + loan.fees.total
        /\ market' = MarketAfter(res, loan.amount)
        /\ reserve' = [reserve EXCEPT ![r] =
              MarkStale(Lend(CountOutflow(@, loan.amount), loan.amount))]
        /\ obligation' = [obligation EXCEPT ![o] =
              MarkStale(Owe(@, r, res.cumulative_borrow_rate_wads, loan.amount))]
        /\ token' = Move(Move(Move(token, r, Vault, Host, host),
                              r, Vault, FeeReceiver, loan.fees.total - host),
                         r, Vault, ob.owner, loan.receive)
        /\ UNCHANGED <<slot, ctoken, minted>>

\* process_repay_obligation_liquidity: anyone pays, and only the debt repaid
\* is brought up to date.
Repay(u, o, r, asked) ==
    LET ob     == obligation[o]
        i      == BorrowIndex(ob, r)
        res    == RefreshInterest(reserve[r], slot)
        debt   == Accrue(ob.borrows[i], res.cumulative_borrow_rate_wads)
        settle == IF asked = U64_MAX THEN debt.borrowed_amount_wads
                  ELSE Smaller(FromInt(asked), debt.borrowed_amount_wads)
    IN  /\ asked # 0
        /\ Live(ob) /\ Live(reserve[r])
        /\ CanRefresh(reserve[r], slot)
        /\ i # 0
        /\ ob.borrows[i].borrowed_amount_wads # 0
        /\ CanAccrue(ob.borrows[i], res.cumulative_borrow_rate_wads)
        /\ Ceil(settle) # 0
        /\ token[r][u] >= Ceil(settle)
        /\ reserve' = [reserve EXCEPT ![r] = MarkStale(Settle(res, Ceil(settle), settle))]
        /\ obligation' = [obligation EXCEPT ![o] =
              MarkStale(PayOff([@ EXCEPT !.borrows[i] = debt], i, settle))]
        /\ token' = Move(token, r, u, Vault, Ceil(settle))
        /\ UNCHANGED <<slot, market, ctoken, minted>>

\* process_forgive_debt, signed by the market's owner: only when no
\* collateral is left, and down to one percent of the collateral supply.
Forgivable(res) ==
    TotalSupply(res) - Mul(FromInt(res.mint_total_supply), FromPercent(1))

ForgiveDebt(o, r, asked) ==
    LET ob     == obligation[o]
        res    == reserve[r]
        i      == BorrowIndex(ob, r)
        amount == Smaller(FromInt(asked),
                          Smaller(ob.borrows[i].borrowed_amount_wads, Forgivable(res)))
    IN  /\ Fresh(res) /\ Fresh(ob)
        /\ DOMAIN ob.deposits = {}
        /\ Forgivable(res) >= 0
        /\ i # 0
        /\ amount =< res.borrowed_amount_wads
        /\ reserve' = [reserve EXCEPT ![r] = MarkStale(Forgive(@, amount))]
        /\ obligation' = [obligation EXCEPT ![o] = MarkStale(PayOff(@, i, amount))]
        /\ UNCHANGED <<slot, market, token, ctoken, minted>>

-----------------------------------------------------------------------------
\* Liquidation.

Unhealthy(ob) == ob.borrowed_value >= ob.unhealthy_borrow_value
LiquidatesAnyone(ob) == ob.borrowed_value # 0
Liquidatable(ob) == ob.borrowed_value # 0 /\ Unhealthy(ob)

\* _liquidate_obligation's conditions: the debt is the head of the list.
CanLiquidate(o, debt, coll) ==
    LET ob == obligation[o]
    IN  /\ Fresh(reserve[debt]) /\ Fresh(reserve[coll]) /\ Fresh(ob)
        /\ ob.deposited_value # 0 /\ Liquidatable(ob)
        /\ BorrowIndex(ob, debt) = 1
        /\ ob.borrows[1].market_value # 0
        /\ coll \in DOMAIN ob.deposits
        /\ ob.deposits[coll].market_value # 0

\* calculate_liquidation of borrow i, paid from one deposit.
LiquidationOf(ob, i, coll, asked) ==
    Liquidation(reserve[coll], ob, ob.borrows[i], ob.deposits[coll],
                FromInt(asked), MaxLiquidation(ob, ob.borrows[i]))

\* process_liquidate_obligation_and_redeem_reserve_collateral: the liquidator
\* u repays part of the debt and takes collateral, of which as much as the
\* collateral's reserve has liquidity for is redeemed outside the limiters;
\* the protocol's fee is paid from the liquidator's own tokens.
Liquidate(u, o, debt, coll, asked) ==
    LET ob       == obligation[o]
        i        == BorrowIndex(ob, debt)
        part     == LiquidationOf(ob, i, coll, asked)
        repaid   == [reserve EXCEPT ![debt] = MarkStale(Settle(@, part.repay, part.settle))]
        res      == RefreshInterest(repaid[coll], slot)
        redeemed == Smaller(part.withdraw, LiquidityToCollateral(res, res.available_amount))
        liq      == CollateralToLiquidity(res, redeemed)
        fee      == ProtocolLiquidationFee(res, liq, BonusRate(reserve[coll], ob))
        paid     == Move(token, debt, u, Vault, part.repay)
        received == Move(paid, coll, Vault, u, liq)
    IN  /\ asked # 0
        /\ CanLiquidate(o, debt, coll)
        /\ market.whitelisted_liquidator \in {Anyone, u}
        /\ part.repay # 0 /\ part.withdraw # 0
        /\ token[debt][u] >= part.repay
        /\ ctoken[coll][Custody] >= part.withdraw
        /\ TotalSupply(res) >= 0
        /\ obligation' = [obligation EXCEPT ![o] =
              MarkStale(Release(PayOff(@, i, part.settle), coll, part.withdraw))]
        /\ ctoken' = [ctoken EXCEPT ![coll][Custody] = @ - part.withdraw,
                                    ![coll][u] = @ + part.withdraw - redeemed]
        /\ \/ /\ redeemed = 0
              /\ reserve' = [repaid EXCEPT ![coll] = res]
              /\ token' = paid
              /\ minted' = minted
           \/ /\ redeemed # 0
              /\ CanPay(res, redeemed)
              /\ received[coll][u] >= fee
              /\ reserve' = [repaid EXCEPT ![coll] =
                                MarkStale(RedeemCollateral(res, liq, redeemed))]
              /\ token' = Move(received, coll, u, FeeReceiver, fee)
              /\ minted' = [minted EXCEPT ![coll] = @ - redeemed]
        /\ UNCHANGED <<slot, market>>

-----------------------------------------------------------------------------
OpenAccounts ==
    \/ \E r \in Reserves, u \in Users : InitReserve(r, u)
    \/ \E o \in Obligations : InitObligation(o)

Upkeep ==
    \/ \E r \in Reserves : RefreshReserve(r)
    \/ \E o \in Obligations : RefreshAnObligation(o)
    \/ \E r \in Reserves : RedeemProtocolFees(r)

Pool ==
    \E r \in Reserves :
        \/ \E u \in Users : \E n \in DepositAmounts : Deposit(u, r, n)
        \/ \E u \in Users : \E n \in RedeemAmounts : Redeem(u, r, n)

Collateral ==
    \E o \in Obligations, r \in Reserves :
        \/ \E n \in PledgeAmounts : DepositObligation(o, r, n)
        \/ \E n \in PledgeAmounts : DepositAndPledge(o, r, n)
        \/ \E n \in WithdrawAmounts : WithdrawObligation(o, r, n)
        \/ \E n \in WithdrawAmounts : WithdrawAndRedeem(o, r, n)

Debt ==
    \E o \in Obligations, r \in Reserves :
        \/ \E n \in BorrowAmounts, hosted \in BOOLEAN : Borrow(o, r, n, hosted)
        \/ \E u \in Users : \E n \in RepayAmounts : Repay(u, o, r, n)
        \/ \E n \in ForgiveAmounts : ForgiveDebt(o, r, n)

Liquidations ==
    \E u \in Users, o \in Obligations, debt, coll \in Reserves :
        \E n \in LiquidateAmounts : Liquidate(u, o, debt, coll, n)

Administration ==
    \/ \E r \in Reserves, signer \in Admins, c \in Reconfigs, l \in LimiterConfigs :
          UpdateReserveConfig(r, signer, c, l)
    \/ \E owner, risk \in Admins, u \in Whitelists, l \in LimiterConfigs :
          SetOwnerAndConfig(owner, risk, u, l)
    \/ \E risk \in Admins : SetRiskAuthority(risk)

Next == Tick \/ OpenAccounts \/ Upkeep \/ Pool \/ Collateral \/ Debt
            \/ Liquidations \/ Administration

Spec == Init /\ [][Next]_vars

-----------------------------------------------------------------------------
\* Properties.

LiveReserves == {r \in Reserves : Live(reserve[r])}
LiveObligations == {o \in Obligations : Live(obligation[o])}

\* The debt of an obligation to a reserve, and its collateral there.
DebtOf(ob, r) ==
    IF Live(ob) /\ BorrowIndex(ob, r) # 0
    THEN ob.borrows[BorrowIndex(ob, r)].borrowed_amount_wads ELSE 0
PledgeOf(ob, r) ==
    IF Live(ob) /\ r \in DOMAIN ob.deposits THEN ob.deposits[r].deposited_amount ELSE 0

\* The reserves as a refresh in this slot would leave them, and an obligation
\* as it would be valued on them.
Accrued(r) == IF Live(reserve[r]) THEN RefreshInterest(reserve[r], slot) ELSE reserve[r]
Revalued(o) == RefreshObligation(obligation[o], [r \in Reserves |-> Accrued(r)], slot)

DepositType == [deposited_amount : Nat, market_value : Nat]
BorrowType ==
    [borrow_reserve : Reserves, cumulative_borrow_rate_wads : Nat,
     borrowed_amount_wads : Nat, market_value : Nat]
\* (with deposits in the reserves D)
ObligationType(D) ==
    [version : {1}, last_update : UpdateType, owner : Users,
     deposits : [D -> DepositType],
     borrows : Seq(BorrowType),
     deposited_value : Nat, borrowed_value : Nat, allowed_borrow_value : Nat,
     unhealthy_borrow_value : Nat, super_unhealthy_borrow_value : Nat,
     borrowing_isolated_asset : BOOLEAN]

\* The accounts hold what their Rust types can hold: no amount is negative.
TypeOK ==
    /\ slot \in 1..MaxSlot
    /\ market.owner \in Admins /\ market.risk_authority \in Admins
    /\ market.whitelisted_liquidator \in Users \cup {Anyone}
    /\ market.rate_limiter \in LimiterType
    /\ \A r \in LiveReserves : reserve[r] \in ReserveType
    /\ \A o \in LiveObligations :
          \E D \in SUBSET Reserves : obligation[o] \in ObligationType(D)
    /\ token \in [Reserves -> [Holders -> Nat]]
    /\ ctoken \in [Reserves -> [Users \cup {Custody} -> Nat]]
    /\ minted \in [Reserves -> Nat]

\* A reserve's books and its token account agree: the liquidity it counts as
\* available is in its vault, through every fee, rounding and liquidation.
VaultHoldsAvailable ==
    \A r \in LiveReserves : token[r][Vault] = reserve[r].available_amount

\* The supply the exchange rate divides is that of the collateral mint: no
\* handler mints or burns without counting, or counts without doing it.
MintIsCounted == \A r \in LiveReserves : reserve[r].mint_total_supply = minted[r]

\* Every collateral token counted is someone's: in a user's account or in
\* custody for an obligation.
SharesAreHeld ==
    \A r \in LiveReserves :
        reserve[r].mint_total_supply =
            SumFunctionOnSet(ctoken[r], Users \cup {Custody})

\* The collateral the obligations count is in custody: what one withdraws or
\* loses in a liquidation is never another's.
PledgesAreHeld ==
    \A r \in LiveReserves :
        ctoken[r][Custody] =
            SumFunctionOnSet([o \in Obligations |-> PledgeOf(obligation[o], r)], Obligations)

\* A collateral token of reserve a is worth at most one of b, but for what is
\* lost when `out` liquidity is redeemed at a rate truncated to WAD: one part in
\* WAD of the supply it is redeemed from, shared by all tokens.
ValueKept(a, b, out) ==
    TotalSupply(b) * a.mint_total_supply * WAD + out * (TotalSupply(b) + FromInt(out))
        >= TotalSupply(a) * b.mint_total_supply * WAD

\* The liquidity redeemed for tokens burnt: what left the vault, and what a
\* liquidator who redeems from the reserve he repays put into it in the same step.
SettledDebt(r) ==
    SumFunctionOnSet([o \in Obligations |-> DebtOf(obligation[o], r) - DebtOf(obligation'[o], r)],
                     Obligations)
Redeemed(r) ==
    IF reserve'[r].mint_total_supply < reserve[r].mint_total_supply
    THEN token[r][Vault] - token'[r][Vault] + Ceil(SettledDebt(r)) ELSE 0

Forgiven(r) ==
    /\ reserve'[r].borrowed_amount_wads < reserve[r].borrowed_amount_wads
    /\ reserve'[r].available_amount = reserve[r].available_amount

\* No instruction but forgive_debt makes a collateral token that is worth
\* something worth less liquidity, and a redemption takes from those who stay
\* at most what truncating the exchange rate can take.
KeepsShareValue(r) ==
    /\ Live(reserve[r]) /\ ~Forgiven(r)
    /\ reserve[r].mint_total_supply > 0 /\ TotalSupply(reserve[r]) > 0
    => ValueKept(reserve[r], reserve'[r], Redeemed(r))
ShareValueNeverFalls == [][\A r \in Reserves : KeepsShareValue(r)]_vars

\* No reserve with collateral tokens outstanding is ever stuck: its supply
\* covers its fees, its interest can be computed in every slot, and every
\* debt to it can be accrued.
NoReserveStuck ==
    \A r \in LiveReserves : reserve[r].mint_total_supply > 0 =>
        /\ TotalSupply(reserve[r]) >= 0
        /\ CanRefresh(reserve[r], slot)
        /\ \A o \in LiveObligations : \A i \in DOMAIN obligation[o].borrows :
              obligation[o].borrows[i].borrow_reserve = r =>
                CanAccrue(obligation[o].borrows[i], reserve[r].cumulative_borrow_rate_wads)

\* The debt of an obligation at the reserve's present rate, and all of them.
AccruedDebt(ob, r) ==
    IF DebtOf(ob, r) = 0 THEN 0
    ELSE Accrue(ob.borrows[BorrowIndex(ob, r)],
                reserve[r].cumulative_borrow_rate_wads).borrowed_amount_wads
OwedTo(r) == SumFunctionOnSet([o \in Obligations |-> AccruedDebt(obligation[o], r)], Obligations)
Unmatched(r) == OwedTo(r) - reserve[r].borrowed_amount_wads

\* The rate at which a step charges a reserve's debts, and what truncating may
\* then cost: two parts in WAD of every debt, and a unit for each and the total.
ChargedFor(r) == reserve'[r].last_update.slot - reserve[r].last_update.slot
ChargedRate(r) == IF ChargedFor(r) > 0 THEN CompoundedRate(reserve[r], ChargedFor(r)) ELSE One
Truncated(ob, r) == IF DebtOf(ob, r) = 0 THEN 0 ELSE Ceil(2 * AccruedDebt(ob, r)) + 1
Rounding(r) ==
    SumFunctionOnSet([o \in Obligations |-> Truncated(obligation[o], r)], Obligations) + 1

\* What the debts differ from the total by, `before` a step and `after` it, grows
\* by the rate charged alone; a total that a settlement exceeds becomes zero.
MatchKept(r, before, after) ==
    Live(reserve[r]) =>
        LET rate  == ChargedRate(r)
            slack == IF ChargedFor(r) > 0 THEN rate * Rounding(r) ELSE 0
        IN  /\ WAD * after - rate * before =< slack
            /\ \/ rate * before - WAD * after =< slack
               \/ reserve'[r].borrowed_amount_wads = 0

\* The reserve's total of its debts and the debts themselves, which accrue and
\* are settled separately, move together: exactly in every step that charges no
\* interest, and within the rounding of one truncated product in a step that does.
DebtsMatchTheReserve == [][\A r \in Reserves : MatchKept(r, Unmatched(r), Unmatched(r)')]_vars

\* An obligation that borrows or takes collateral back is left within what it
\* may borrow, valued on the reserves as they are after the step and not on
\* those it was valued on, but for Dust: redemptions in between may have taken
\* a truncated part of a share.
DebtsAreCovered ==
    [][\A o \in Obligations :
         LET a == obligation[o]
             b == obligation'[o]
             borrowed  == \E r \in Reserves : DebtOf(b, r) > DebtOf(a, r)
                             /\ reserve'[r].available_amount < reserve[r].available_amount
             withdrawn == \E r \in Reserves : PledgeOf(b, r) < PledgeOf(a, r)
                             /\ a.borrows # <<>> /\ a.borrows = b.borrows
         IN  Live(a) /\ (borrowed \/ withdrawn) =>
                (Revalued(o).borrowed_value =< Revalued(o).allowed_borrow_value + Dust)'
      ]_vars

\* A liquidation takes a debt down and collateral away in one step.
Liquidated(o) ==
    /\ Live(obligation[o])
    /\ \E r \in Reserves : PledgeOf(obligation'[o], r) < PledgeOf(obligation[o], r)
    /\ \E r \in Reserves : DebtOf(obligation'[o], r) < DebtOf(obligation[o], r)

\* Only an obligation that is unhealthy on the current reserves loses
\* collateral to a liquidator, whatever was deposited, repaid or accrued
\* between its valuation and the liquidation.
OnlyUnhealthyLiquidated ==
    [][\A o \in Obligations : Liquidated(o) => Unhealthy(Revalued(o))]_vars

\* A liquidator takes at most the value repaid with the largest bonus, but
\* for one collateral token.
LiquidationTakesAtMostBonus ==
    [][\A o \in Obligations : Liquidated(o) =>
         \A c, d \in Reserves :
            LET taken == PledgeOf(obligation[o], c) - PledgeOf(obligation'[o], c)
                paid  == DebtOf(obligation[o], d) - DebtOf(obligation'[o], d)
            IN  taken > 0 /\ paid > 0 =>
                  CollateralValue(Accrued(c), taken - 1)
                    =< Mul(MarketValue(reserve[d], paid), One + FromPercent(MAX_BONUS_PCT))
      ]_vars

\* The debt a liquidator must take is the heaviest one whenever the
\* obligation is fresh, in whatever order debts were made and repaid.
HeadIsHeaviest ==
    \A o \in LiveObligations :
        LET bs == obligation[o].borrows
        IN  Fresh(obligation[o]) =>
                \A i \in 2..Len(bs) : Heavier(bs[1], bs[i], reserve)

\* A fresh obligation's debts carry the current rate of their reserves.
FreshDebtsAreAccrued ==
    \A o \in LiveObligations : Fresh(obligation[o]) =>
        \A i \in DOMAIN obligation[o].borrows :
            LET b == obligation[o].borrows[i]
            IN  b.cumulative_borrow_rate_wads = Accrued(b.borrow_reserve).cumulative_borrow_rate_wads

\* An isolated-tier debt is an obligation's only debt.
IsolatedDebtIsAlone ==
    \A o \in LiveObligations :
        LET bs == obligation[o].borrows
        IN  (\E i \in DOMAIN bs : reserve[bs[i].borrow_reserve].config.reserve_type = "Isolated")
                => Len(bs) = 1

\* Whoever signs a reconfiguration, and although only the configuration sent
\* is validated and not what is made of it and of the old one, the one stored
\* keeps everything the arithmetic relies on: rates, thresholds and bonuses in
\* order, percentages below 100, no collateral value on the isolated tier.
ConfigsStayConsistent == \A r \in LiveReserves : ConsistentConfig(reserve[r].config)

\* "Cannot borrow above the borrow limit" (processor.rs:1568).
BorrowsWithinLimit ==
    [][\A r \in Reserves :
         LET a == reserve[r]
             b == reserve'[r]
         IN  Live(a) /\ b.borrowed_amount_wads > a.borrowed_amount_wads
                 /\ b.available_amount < a.available_amount =>
                     Floor(b.borrowed_amount_wads) =< b.config.borrow_limit]_vars
=============================================================================
