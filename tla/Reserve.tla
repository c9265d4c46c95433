------------------------------ MODULE Reserve -------------------------------
(***************************************************************************)
(* sdk/src/state/reserve.rs and last_update.rs, as functions on a reserve  *)
(* record.  A function of the source that returns an error becomes a       *)
(* condition (its name begins with Can, or it is a field `ok`) and a       *)
(* result; the handlers of module Lending take the condition as a guard.   *)
(* Key bytes, oracles and mint addresses are left out.                     *)
(***************************************************************************)
EXTENDS RateLimiter, Sequences

CONSTANTS SLOTS_PER_YEAR,       \* slots over which a borrow rate is charged
          MAX_BONUS_PCT,        \* cap of a liquidation bonus, in percent
          MAX_PROTOCOL_LIQUIDATION_FEE_DECA_BPS

ASSUME ReserveAssumption ==
    /\ WAD % 100 = 0
    /\ SLOTS_PER_YEAR \in Nat \ {0}
    /\ MAX_BONUS_PCT \in Nat

\* get_price in processor.rs: both prices of every asset are 1.
MARKET_PRICE == One

-----------------------------------------------------------------------------
\* LastUpdate::new, update_slot, mark_stale and is_stale.
NewUpdate(slot) == [slot |-> slot, stale |-> TRUE]
UpdatedAt(slot) == [slot |-> slot, stale |-> FALSE]
MarkStale(acct) == [acct EXCEPT !.last_update.stale = TRUE]
IsStaleFlagOnly(acct, slot) == acct.last_update.stale
IsStale(acct, slot) ==
    \/ acct.last_update.stale
    \/ slot - acct.last_update.slot >= 1

-----------------------------------------------------------------------------
\* ReserveConfig, without the fee receiver.
ConfigType ==
    [optimal_utilization_rate : Nat, max_utilization_rate : Nat, loan_to_value_ratio : Nat,
     liquidation_threshold : Nat, max_liquidation_threshold : Nat,
     liquidation_bonus : Nat, max_liquidation_bonus : Nat,
     min_borrow_rate : Nat, optimal_borrow_rate : Nat, max_borrow_rate : Nat,
     super_max_borrow_rate : Nat, borrow_fee_wad : Nat, flash_loan_fee_wad : Nat,
     host_fee_percentage : Nat, deposit_limit : Nat, borrow_limit : Nat,
     protocol_liquidation_fee : Nat, protocol_take_rate : Nat,
     added_borrow_weight_bps : Nat, reserve_type : {"Regular", "Isolated"}]

\* validate_reserve_config: what the arithmetic relies on, and the cap of
\* bonus and fee together.
WithinBonusCap(c) ==
    c.max_liquidation_bonus * 100 + c.protocol_liquidation_fee * 10 =< MAX_BONUS_PCT * 100
ConsistentConfig(c) ==
    /\ c.optimal_utilization_rate =< c.max_utilization_rate
    /\ c.max_utilization_rate =< 100
    /\ c.loan_to_value_ratio < 100
    /\ c.loan_to_value_ratio =< c.liquidation_threshold
    /\ c.liquidation_threshold =< c.max_liquidation_threshold
    /\ c.max_liquidation_threshold =< 100
    /\ c.liquidation_bonus =< c.max_liquidation_bonus
    /\ c.max_liquidation_bonus =< 100
    /\ c.min_borrow_rate =< c.optimal_borrow_rate
    /\ c.optimal_borrow_rate =< c.max_borrow_rate
    /\ c.max_borrow_rate =< c.super_max_borrow_rate
    /\ c.borrow_fee_wad < WAD
    /\ c.host_fee_percentage =< 100
    /\ c.protocol_liquidation_fee =< MAX_PROTOCOL_LIQUIDATION_FEE_DECA_BPS
    /\ c.protocol_take_rate =< 100
    /\ c.reserve_type = "Isolated" => c.loan_to_value_ratio = 0 /\ c.liquidation_threshold = 0
ValidConfig(c) == ConsistentConfig(c) /\ WithinBonusCap(c)

\* What each signer of update_reserve_config may change: the risk authority
\* only some fields, the limits only downwards; the relend owner only fees.
\* super_max_borrow_rate is not among the former, and Reserve::unpack raises
\* it to max_borrow_rate when it reads the account back.
RiskConfigUnraised(old, new) ==
    [old EXCEPT
        !.borrow_limit = Smaller(@, new.borrow_limit),
        !.deposit_limit = Smaller(@, new.deposit_limit),
        !.borrow_fee_wad = new.borrow_fee_wad,
        !.optimal_utilization_rate = new.optimal_utilization_rate,
        !.max_utilization_rate = new.max_utilization_rate,
        !.min_borrow_rate = new.min_borrow_rate,
        !.optimal_borrow_rate = new.optimal_borrow_rate,
        !.max_borrow_rate = new.max_borrow_rate,
        !.added_borrow_weight_bps = new.added_borrow_weight_bps,
        !.protocol_take_rate = new.protocol_take_rate]
RiskConfig(old, new) ==
    [RiskConfigUnraised(old, new) EXCEPT
        !.super_max_borrow_rate = Larger(@, new.max_borrow_rate)]

FeeConfig(old, new) ==
    [old EXCEPT
        !.borrow_fee_wad = new.borrow_fee_wad,
        !.flash_loan_fee_wad = new.flash_loan_fee_wad,
        !.host_fee_percentage = new.host_fee_percentage,
        !.protocol_liquidation_fee = new.protocol_liquidation_fee,
        !.protocol_take_rate = new.protocol_take_rate]

UpdateType == [slot : Nat, stale : BOOLEAN]
ReserveType ==
    [version : {1}, last_update : UpdateType,
     available_amount : Nat, borrowed_amount_wads : Nat,
     cumulative_borrow_rate_wads : Nat, accumulated_protocol_fees_wads : Nat,
     mint_total_supply : Nat, mint_scale : Nat \ {0}, config : ConfigType,
     rate_limiter : LimiterType]

\* Reserve::init with ReserveLiquidity::new and ReserveCollateral::new.  An
\* account of version 0 is one that init_reserve has not written yet.
NewReserve(slot, config, scale) ==
    [version |-> 1, last_update |-> NewUpdate(slot),
     available_amount |-> 0, borrowed_amount_wads |-> 0,
     cumulative_borrow_rate_wads |-> One, accumulated_protocol_fees_wads |-> 0,
     mint_total_supply |-> 0, mint_scale |-> scale, config |-> config,
     rate_limiter |-> New(Config(0, 0), slot)]

-----------------------------------------------------------------------------
\* total_supply, and the ratio of collateral tokens to liquidity.
TotalSupply(res) ==
    FromInt(res.available_amount) + res.borrowed_amount_wads
        - res.accumulated_protocol_fees_wads

ExchangeRate(res) ==
    IF res.mint_total_supply = 0 \/ TotalSupply(res) = 0 THEN One
    ELSE Div(FromInt(res.mint_total_supply), TotalSupply(res))

LiquidityToCollateralUp(res, amount) == Ceil(Mul(FromInt(amount), ExchangeRate(res)))
LiquidityToCollateral(res, amount) == Floor(Mul(FromInt(amount), ExchangeRate(res)))
DecimalCollateralToLiquidity(res, amount) == Div(amount, ExchangeRate(res))
CollateralToLiquidity(res, amount) == Floor(DecimalCollateralToLiquidity(res, FromInt(amount)))

\* deposit_liquidity and redeem_collateral, given the other side's amount.
DepositUncounted(res, liquidity, collateral) ==
    [res EXCEPT !.available_amount = @ + liquidity]
DepositLiquidity(res, liquidity, collateral) ==
    [res EXCEPT !.available_amount = @ + liquidity, !.mint_total_supply = @ + collateral]

CanRedeem(res, liquidity, collateral) ==
    collateral =< res.mint_total_supply /\ liquidity =< res.available_amount
RedeemKeepsShares(res, liquidity, collateral) ==
    [res EXCEPT !.available_amount = @ - liquidity]
RedeemCollateral(res, liquidity, collateral) ==
    [res EXCEPT !.available_amount = @ - liquidity, !.mint_total_supply = @ - collateral]

-----------------------------------------------------------------------------
\* market_value of an amount, in the quote currency.
MarketValue(res, amount) ==
    Div(Mul(MARKET_PRICE, amount), FromInt(res.mint_scale))
ValueToLiquidity(res, value) == Div(value * res.mint_scale, MARKET_PRICE)
BorrowWeight(res) == One + FromBps(res.config.added_borrow_weight_bps)

-----------------------------------------------------------------------------
\* utilization_rate and current_borrow_rate: three linear segments.
UtilizationRate(res) ==
    IF TotalSupply(res) = 0 \/ res.borrowed_amount_wads = 0 THEN 0
    ELSE Div(res.borrowed_amount_wads,
             res.borrowed_amount_wads + FromInt(res.available_amount))

Between(weight, low, high) == Mul(weight, FromPercent(high) - FromPercent(low)) + FromPercent(low)

CurrentBorrowRate(res) ==
    LET c       == res.config
        use     == UtilizationRate(res)
        optimal == FromPercent(c.optimal_utilization_rate)
        max     == FromPercent(c.max_utilization_rate)
    IN  IF use =< optimal
        THEN IF optimal = 0 THEN FromPercent(c.min_borrow_rate)
             ELSE Between(Div(use, optimal), c.min_borrow_rate, c.optimal_borrow_rate)
        ELSE IF use =< max
        THEN Between(Div(use - optimal, max - optimal), c.optimal_borrow_rate, c.max_borrow_rate)
        ELSE Between(Div(use - max, FromPercent(100 - c.max_utilization_rate)),
                     c.max_borrow_rate, c.super_max_borrow_rate)

\* compound_interest over the slots elapsed, at the current borrow rate.
CompoundedRate(res, elapsed) ==
    Pow(One + DivInt(CurrentBorrowRate(res), SLOTS_PER_YEAR), elapsed)
NetNewDebt(res, rate) == Mul(res.borrowed_amount_wads, rate) - res.borrowed_amount_wads

Compound(res, rate) ==
    [res EXCEPT
        !.cumulative_borrow_rate_wads = Mul(@, rate),
        !.accumulated_protocol_fees_wads =
            Mul(NetNewDebt(res, rate), FromPercent(res.config.protocol_take_rate)) + @,
        !.borrowed_amount_wads = @ + NetNewDebt(res, rate)]

\* accrue_interest followed by update_slot: _refresh_reserve_interest.  The
\* checked arithmetic fails when the debt or the rate would shrink.
CanRefresh(res, slot) ==
    /\ slot >= res.last_update.slot
    /\ TotalSupply(res) >= 0
    /\ slot > res.last_update.slot =>
          NetNewDebt(res, CompoundedRate(res, slot - res.last_update.slot)) >= 0

RefreshInterest(res, slot) ==
    LET elapsed == slot - res.last_update.slot
    IN  [(IF elapsed > 0 THEN Compound(res, CompoundedRate(res, elapsed)) ELSE res)
            EXCEPT !.last_update = UpdatedAt(slot)]

-----------------------------------------------------------------------------
\* ReserveLiquidity::borrow, repay, forgive_debt and redeem_fees.
CanLend(res, amount) == Floor(amount) =< res.available_amount
Lend(res, amount) ==
    [res EXCEPT !.available_amount = @ - Floor(amount), !.borrowed_amount_wads = @ + amount]

SettleWholeTokens(res, repay, settle) ==
    [res EXCEPT !.available_amount = @ + repay, !.borrowed_amount_wads = @ - FromInt(repay)]
SettleRoundsDown(res, repay, settle) ==
    [res EXCEPT !.available_amount = @ + Floor(settle),
                !.borrowed_amount_wads = @ - Smaller(settle, @)]
Settle(res, repay, settle) ==
    [res EXCEPT !.available_amount = @ + repay,
                !.borrowed_amount_wads = @ - Smaller(settle, @)]

Forgive(res, amount) == [res EXCEPT !.borrowed_amount_wads = @ - amount]

RedeemableFees(res) == Smaller(res.available_amount, Floor(res.accumulated_protocol_fees_wads))
RedeemFeesKept(res, amount) == [res EXCEPT !.available_amount = @ - amount]
RedeemFees(res, amount) ==
    [res EXCEPT !.available_amount = @ - amount,
                !.accumulated_protocol_fees_wads = @ - FromInt(amount)]

-----------------------------------------------------------------------------
\* calculate_fees: the fee of a borrow or flash loan and the host's part.
\* Exclusive fees come on top of the amount, inclusive ones out of it.
FeesUnbounded(config, amount, rate, inclusive) ==
    LET fee == Mul(amount, rate)
    IN  [ok |-> fee < amount, total |-> Round(fee), host |-> 0]
Fees(config, amount, rate, inclusive) ==
    LET hosted == config.host_fee_percentage > 0
        charge == IF inclusive THEN Mul(amount, Div(rate, rate + One)) ELSE Mul(amount, rate)
        fee    == Larger(charge, FromInt(IF hosted THEN 2 ELSE 1))
        host   == Larger(Round(Mul(fee, FromPercent(config.host_fee_percentage))), 1)
    IN  IF rate > 0 /\ amount > 0
        THEN [ok |-> fee < amount, total |-> Round(fee), host |-> IF hosted THEN host ELSE 0]
        ELSE [ok |-> TRUE, total |-> 0, host |-> 0]

\* calculate_borrow of everything that can be borrowed (u64::MAX)...
MaxBorrow(res, max_value, remaining) ==
    LET value  == Div(ValueToLiquidity(res, max_value), BorrowWeight(res))
        amount == Smaller(Smaller(value, remaining), FromInt(res.available_amount))
        fees   == Fees(res.config, amount, res.config.borrow_fee_wad, TRUE)
    IN  [ok      |-> fees.ok /\ fees.total =< Floor(amount),
         amount  |-> amount,
         receive |-> Floor(amount) - fees.total,
         fees    |-> fees]

\* ...and of an exact amount received.
ExactBorrow(res, receive, max_value) ==
    LET fees   == Fees(res.config, FromInt(receive), res.config.borrow_fee_wad, FALSE)
        amount == FromInt(receive) + FromInt(fees.total)
    IN  [ok      |-> fees.ok /\ Mul(MarketValue(res, amount), BorrowWeight(res)) =< max_value,
         amount  |-> amount,
         receive |-> receive,
         fees    |-> fees]

-----------------------------------------------------------------------------
\* calculate_bonus of an unhealthy obligation, as a rate above one.
BonusRate(res, ob) ==
    LET c      == res.config
        fee    == FromDecaBps(c.protocol_liquidation_fee)
        low    == FromPercent(c.liquidation_bonus)
        high   == FromPercent(c.max_liquidation_bonus)
        range  == ob.super_unhealthy_borrow_value - ob.unhealthy_borrow_value
        weight == Smaller(Div(ob.borrowed_value - ob.unhealthy_borrow_value, range), One)
        bonus  == IF range = 0 THEN low + fee ELSE low + Mul(weight, high - low) + fee
    IN  One + Smaller(bonus, FromPercent(MAX_BONUS_PCT))

\* The part of calculate_liquidation common to full and partial liquidation:
\* what is settled and withdrawn when `amount` of the debt, worth `value`
\* with its bonus, is paid from the collateral.
TakeCollateralSwapped(collateral, amount, value, least) ==
    [settle |-> amount, repay |-> Ceil(amount), withdraw |-> collateral.deposited_amount]
TakeCollateral(collateral, amount, value, least) ==
    LET settle   == IF value > collateral.market_value
                    THEN Mul(amount, Div(collateral.market_value, value)) ELSE amount
        withdraw == IF value >= collateral.market_value THEN collateral.deposited_amount
                    ELSE Larger(least,
                                Floor(Mul(FromInt(collateral.deposited_amount),
                                          Div(value, collateral.market_value))))
    IN  [settle |-> settle, repay |-> Ceil(settle), withdraw |-> withdraw]

\* calculate_liquidation: a debt worth at most one is closed whole, whatever
\* amount was asked for; of a larger one at most the close factor.
Liquidation(res, ob, liquidity, collateral, amount, closable) ==
    LET bonus  == BonusRate(res, ob)
        part   == Smaller(closable, Smaller(amount, liquidity.borrowed_amount_wads))
        value  == Mul(Mul(liquidity.market_value, Div(part, liquidity.borrowed_amount_wads)), bonus)
    IN  IF liquidity.market_value =< One
        THEN TakeCollateral(collateral, liquidity.borrowed_amount_wads,
                       Mul(liquidity.market_value, bonus), 1)
        ELSE TakeCollateral(collateral, part, value, 0)

\* calculate_protocol_liquidation_fee: never less than one token.
ProtocolLiquidationFee(res, amount, bonus) ==
    Larger(1, Ceil(Mul(Div(FromInt(amount), bonus),
                       FromDecaBps(res.config.protocol_liquidation_fee))))
=============================================================================
