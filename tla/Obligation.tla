----------------------------- MODULE Obligation -----------------------------
(***************************************************************************)
(* sdk/src/state/obligation.rs, and the valuation of                       *)
(* process_refresh_obligation, as functions on an obligation record.       *)
(* deposits is a function from the reserves deposited in to their entries  *)
(* (the source keeps a list, "unique by deposit reserve address", whose    *)
(* order nothing reads); borrows is a sequence, because liquidation only   *)
(* takes its head.  Both prices of an asset are 1 (get_price), so the      *)
(* upper bound of the borrowed value is the borrowed value itself, one     *)
(* field here.  Reserves are numbered in the order of their addresses.     *)
(***************************************************************************)
EXTENDS Reserve, SequencesExt

CONSTANTS MAX_OBLIGATION_RESERVES,          \* entries in one obligation
          LIQUIDATION_CLOSE_FACTOR,         \* percent
          MAX_LIQUIDATABLE_VALUE_AT_ONCE,   \* in the quote currency
          GLOBAL_ALLOWED,                   \* 65000000 in processor.rs
          GLOBAL_UNHEALTHY                  \* 70000000 in processor.rs

ASSUME ObligationAssumption ==
    /\ LIQUIDATION_CLOSE_FACTOR \in 0..100
    /\ MAX_LIQUIDATABLE_VALUE_AT_ONCE \in Nat
    /\ GLOBAL_ALLOWED \in Nat /\ GLOBAL_UNHEALTHY \in Nat

-----------------------------------------------------------------------------
\* Obligation::default and init.
NewObligation(slot, owner) ==
    [version |-> 1, last_update |-> NewUpdate(slot), owner |-> owner,
     deposits |-> [r \in {} |-> 0], borrows |-> <<>>,
     deposited_value |-> 0, borrowed_value |-> 0, allowed_borrow_value |-> 0,
     unhealthy_borrow_value |-> 0, super_unhealthy_borrow_value |-> 0,
     borrowing_isolated_asset |-> FALSE]

Entries(ob) == Cardinality(DOMAIN ob.deposits) + Len(ob.borrows)

\* _find_liquidity_index_in_borrows: 0 when the reserve is not borrowed from.
BorrowIndex(ob, r) == SelectInSeq(ob.borrows, LAMBDA b : b.borrow_reserve = r)

-----------------------------------------------------------------------------
\* find_or_add_collateral_to_deposits and deposit.
CanPledge(ob, r) ==
    r \in DOMAIN ob.deposits \/ Entries(ob) < MAX_OBLIGATION_RESERVES
Pledge(ob, r, amount) ==
    LET held == IF r \in DOMAIN ob.deposits THEN ob.deposits[r]
                ELSE [deposited_amount |-> 0, market_value |-> 0]
        more == [held EXCEPT !.deposited_amount = @ + amount]
    IN  [ob EXCEPT !.deposits = [d \in DOMAIN @ \cup {r} |-> IF d = r THEN more ELSE @[d]]]

\* withdraw: an entry withdrawn whole is removed.
ReleaseWhole(ob, r, amount) ==
    [ob EXCEPT !.deposits = [d \in DOMAIN @ \ {r} |-> @[d]]]
Release(ob, r, amount) ==
    IF amount = ob.deposits[r].deposited_amount
    THEN [ob EXCEPT !.deposits = [d \in DOMAIN @ \ {r} |-> @[d]]]
    ELSE [ob EXCEPT !.deposits[r].deposited_amount = @ - amount]

\* find_or_add_liquidity_to_borrows and borrow.
CanOwe(ob, r) ==
    BorrowIndex(ob, r) # 0 \/ Entries(ob) < MAX_OBLIGATION_RESERVES
Owe(ob, r, rate, amount) ==
    IF BorrowIndex(ob, r) # 0
    THEN [ob EXCEPT !.borrows[BorrowIndex(ob, r)].borrowed_amount_wads = @ + amount]
    ELSE [ob EXCEPT !.borrows = Append(@,
            [borrow_reserve |-> r, cumulative_borrow_rate_wads |-> rate,
             borrowed_amount_wads |-> amount, market_value |-> 0])]

\* repay: an entry settled whole is removed.
PayOff(ob, i, settle) ==
    IF settle = ob.borrows[i].borrowed_amount_wads
    THEN [ob EXCEPT !.borrows = RemoveAt(@, i)]
    ELSE [ob EXCEPT !.borrows[i].borrowed_amount_wads = @ - settle]

\* ObligationLiquidity::accrue_interest: the debt grows with the reserve's
\* cumulative rate; a rate that has fallen is an error.
CanAccrue(b, rate) == rate >= b.cumulative_borrow_rate_wads
AccrueRateOnly(b, rate) == [b EXCEPT !.cumulative_borrow_rate_wads = rate]
Accrue(b, rate) ==
    IF rate = b.cumulative_borrow_rate_wads THEN b
    ELSE [b EXCEPT !.borrowed_amount_wads = Mul(@, Div(rate, b.cumulative_borrow_rate_wads)),
                   !.cumulative_borrow_rate_wads = rate]

-----------------------------------------------------------------------------
\* The value of what an obligation has deposited in one reserve.
CollateralValue(res, amount) ==
    MarketValue(res, DecimalCollateralToLiquidity(res, FromInt(amount)))

\* A borrow after refresh_obligation's loop: accrued and valued.
Valued(b, res) ==
    LET a == Accrue(b, res.cumulative_borrow_rate_wads)
    IN  [a EXCEPT !.market_value = MarketValue(res, a.borrowed_amount_wads)]

\* The comparison of (borrow weight, address) pairs.
Heavier(a, b, reserves) ==
    LET Weight(x) == reserves[x.borrow_reserve].config.added_borrow_weight_bps
    IN  \/ Weight(a) > Weight(b)
        \/ Weight(a) = Weight(b) /\ a.borrow_reserve > b.borrow_reserve

HeaviestStays(borrows, reserves) ==
    SelectSeq(borrows, LAMBDA b : b.borrowed_amount_wads > 0)

\* The heaviest borrow changes places with the head; empty ones are dropped.
HeaviestToFront(borrows, reserves) ==
    LET owed == {i \in DOMAIN borrows : borrows[i].borrowed_amount_wads > 0}
        top  == CHOOSE i \in owed :
                    \A j \in owed \ {i} : Heavier(borrows[i], borrows[j], reserves)
        led  == IF owed = {} THEN borrows
                ELSE [borrows EXCEPT ![1] = borrows[top], ![top] = borrows[1]]
    IN  IF owed = DOMAIN borrows THEN led
        ELSE SelectSeq(led, LAMBDA b : b.borrowed_amount_wads > 0)

\* process_refresh_obligation, given that every reserve is fresh.
CanRefreshObligation(ob, reserves, slot) ==
    /\ \A r \in DOMAIN ob.deposits :
        /\ ~IsStale(reserves[r], slot)
        /\ TotalSupply(reserves[r]) >= 0
        /\ ExchangeRate(reserves[r]) > 0
    /\ \A i \in DOMAIN ob.borrows :
        LET res == reserves[ob.borrows[i].borrow_reserve]
        IN  ~IsStale(res, slot) /\ CanAccrue(ob.borrows[i], res.cumulative_borrow_rate_wads)

RefreshObligation(ob, reserves, slot) ==
    LET worth == [r \in DOMAIN ob.deposits |->
                     CollateralValue(reserves[r], ob.deposits[r].deposited_amount)]
        owed  == [i \in DOMAIN ob.borrows |->
                     Valued(ob.borrows[i], reserves[ob.borrows[i].borrow_reserve])]
        Part(pct(_)) == SumFunction([r \in DOMAIN worth |->
                            Mul(worth[r], FromPercent(pct(reserves[r].config)))])
        debt  == [i \in DOMAIN owed |->
                     Mul(owed[i].market_value, BorrowWeight(reserves[owed[i].borrow_reserve]))]
    IN  [ob EXCEPT
            !.last_update = UpdatedAt(slot),
            !.deposits = [r \in {d \in DOMAIN @ : @[d].deposited_amount > 0} |->
                             [@[r] EXCEPT !.market_value = worth[r]]],
            !.borrows = HeaviestToFront(owed, reserves),
            !.deposited_value = SumFunction(worth),
            !.borrowed_value = SumFunction(debt),
            !.allowed_borrow_value =
                Smaller(Part(LAMBDA c : c.loan_to_value_ratio), FromInt(GLOBAL_ALLOWED)),
            !.unhealthy_borrow_value =
                Smaller(Part(LAMBDA c : c.liquidation_threshold), FromInt(GLOBAL_UNHEALTHY)),
            !.super_unhealthy_borrow_value =
                Smaller(Part(LAMBDA c : c.max_liquidation_threshold), FromInt(GLOBAL_UNHEALTHY)),
            !.borrowing_isolated_asset =
                \E i \in DOMAIN owed :
                    reserves[owed[i].borrow_reserve].config.reserve_type = "Isolated"]

-----------------------------------------------------------------------------
\* remaining_borrow_value, zero when the borrows exceed what is allowed.
RemainingBorrowValue(ob) ==
    Larger(0, ob.allowed_borrow_value - ob.borrowed_value)

MaxWithdrawIgnoresDebt(ob, res, held) == held

\* max_withdraw_amount, in collateral tokens.
MaxWithdraw(ob, res, held) ==
    LET ltv   == FromPercent(res.config.loan_to_value_ratio)
        value == Div(ob.allowed_borrow_value - ob.borrowed_value, ltv)
        most  == Floor(Mul(ValueToLiquidity(res, value), ExchangeRate(res)))
    IN  IF ob.borrows = <<>> THEN held
        ELSE IF ob.allowed_borrow_value =< ob.borrowed_value THEN 0
        ELSE IF ltv = 0 THEN held
        ELSE Smaller(most, held)

\* max_liquidation_amount: the part of a debt one liquidation may close.
MaxLiquidation(ob, b) ==
    LET value == Smaller(Smaller(Mul(ob.borrowed_value, FromPercent(LIQUIDATION_CLOSE_FACTOR)),
                                 b.market_value),
                         FromInt(MAX_LIQUIDATABLE_VALUE_AT_ONCE))
    IN  Mul(b.borrowed_amount_wads, Div(value, b.market_value))
=============================================================================
