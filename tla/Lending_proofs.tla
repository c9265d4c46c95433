--------------------------- MODULE Lending_proofs ---------------------------
(***************************************************************************)
(* For every set of reserves, users and obligations, every amount and      *)
(* every reconfiguration.  Four invariants, each resting on those before:  *)
(*   Books     the collateral mint's supply is the one the exchange rate   *)
(*             divides by, and a stored configuration is consistent;       *)
(*   Accounts  the reserves and obligations are typed, their numbers never *)
(*             negative, and every debt is at a rate its reserve has had;  *)
(*   Cash      the vaults hold what the reserves count as available;       *)
(*   Shares    the collateral tokens minted are someone's, and those in    *)
(*             custody are what the obligations count as deposited.        *)
(* And an action property that rests on Accounts and Cash: what a step may *)
(* never do to the worth of a collateral token; and, of supplies below WAD *)
(* tokens, that there is always something behind the collateral tokens, so *)
(* that no reserve is stuck.                                               *)
(* Last, what a fresh obligation promises while no reconfiguration changes *)
(* the weight or the tier of a reserve, step by step for each obligation.  *)
(***************************************************************************)
EXTENDS Lending, Reserve_proofs, SumLemmas, SequenceTheorems

\* An initialised reserve with `supply` collateral tokens minted.
BooksOK(res, supply) ==
    /\ {"version", "config", "mint_total_supply"} \subseteq DOMAIN res
    /\ res.config \in ConfigType
    /\ ConsistentConfig(res.config)
    /\ res.mint_total_supply = supply

\* The inductive invariant.
Books ==
    /\ DOMAIN reserve = Reserves
    /\ minted = [r \in Reserves |-> minted[r]]
    /\ \A r \in Reserves : IF Live(reserve[r]) THEN BooksOK(reserve[r], minted[r])
                           ELSE minted[r] = 0

\* b is the reserve a with other amounts, rates, limiter or update.
Keeps(a, b) ==
    /\ DOMAIN b = DOMAIN a
    /\ b.version = a.version
    /\ b.config = a.config
    /\ b.mint_total_supply = a.mint_total_supply

Known(res) == {"version", "config", "mint_total_supply"} \subseteq DOMAIN res

-----------------------------------------------------------------------------
\* What the operators of module Reserve leave alone.

\* Keeping the books composes.
LEMMA KeepsTransitive ==
    ASSUME NEW a, NEW b, NEW c, Keeps(a, b), Keeps(b, c)
    PROVE  Keeps(a, c)
BY DEF Keeps

\* mark_stale changes the update only.
LEMMA MarkStaleKeeps ==
    ASSUME NEW res, Known(res)
    PROVE  Keeps(res, MarkStale(res))
BY DEF Known, Keeps, MarkStale

\* Interest changes the debt, the fees, the rate and the update only.
LEMMA RefreshKeeps ==
    ASSUME NEW res, Known(res), NEW s
    PROVE  Keeps(res, RefreshInterest(res, s))
<1> DEFINE elapsed == s - res.last_update.slot
           rate == CompoundedRate(res, elapsed)
           grown == IF elapsed > 0 THEN Compound(res, rate) ELSE res
<1>1. Keeps(res, Compound(res, rate))
  <2> HIDE DEF rate
  <2> QED BY DEF Known, Keeps, Compound
<1>2. Keeps(res, grown)
  <2> HIDE DEF rate
  <2> QED BY <1>1 DEF Keeps
<1>3. RefreshInterest(res, s) = [grown EXCEPT !.last_update = UpdatedAt(s)]
  BY DEF RefreshInterest
<1>4. Known(grown)
  <2> HIDE DEF grown
  <2> QED BY <1>2 DEF Keeps, Known
<1>5. Keeps(grown, [grown EXCEPT !.last_update = UpdatedAt(s)])
  <2> HIDE DEF grown
  <2> QED BY <1>4 DEF Keeps, Known
<1> HIDE DEF grown
<1> QED BY <1>2, <1>3, <1>5, KeepsTransitive

\* Counting an outflow changes the limiter only.
LEMMA CountOutflowKeeps ==
    ASSUME NEW res, Known(res), NEW amount
    PROVE  Keeps(res, CountOutflow(res, amount))
BY DEF Known, Keeps, CountOutflow

\* Borrowing, repaying, forgiving and taking fees change amounts only.
LEMMA AmountsKeep ==
    ASSUME NEW res, Known(res), NEW amount, NEW settle
    PROVE  /\ Keeps(res, Lend(res, amount))
           /\ Keeps(res, Settle(res, amount, settle))
           /\ Keeps(res, Forgive(res, amount))
           /\ Keeps(res, RedeemFees(res, amount))
BY DEF Known, Keeps, Lend, Settle, Forgive, RedeemFees

\* Depositing mints and redeeming burns exactly the tokens named.
LEMMA SharesMove ==
    ASSUME NEW res, Known(res), NEW liq, NEW coll, NEW supply,
           BooksOK(res, supply)
    PROVE  /\ BooksOK(DepositLiquidity(res, liq, coll), supply + coll)
           /\ DepositLiquidity(res, liq, coll).version = res.version
           /\ BooksOK(RedeemCollateral(res, liq, coll), supply - coll)
           /\ RedeemCollateral(res, liq, coll).version = res.version
BY DEF Known, BooksOK, DepositLiquidity, RedeemCollateral

\* What keeps the books keeps them right.
LEMMA KeepsBooks ==
    ASSUME NEW a, NEW b, NEW supply, BooksOK(a, supply), Keeps(a, b)
    PROVE  BooksOK(b, supply) /\ b.version = a.version
BY DEF BooksOK, Keeps

-----------------------------------------------------------------------------
\* Reconfigurations, by signer.

\* The risk authority's merge of a stored and a valid configuration.
LEMMA RiskConfigConsistent ==
    ASSUME NEW old \in ConfigType, NEW new \in ConfigType,
           ConsistentConfig(old), ConsistentConfig(new)
    PROVE  RiskConfig(old, new) \in ConfigType /\ ConsistentConfig(RiskConfig(old, new))
<1> DEFINE merged == RiskConfig(old, new)
<1>1. \A x, y \in Nat : Smaller(x, y) \in Nat /\ Larger(x, y) \in Nat
  BY DEF Smaller, Larger
<1>2. RiskConfigUnraised(old, new) \in ConfigType
  BY <1>1, Zenon DEF RiskConfigUnraised, ConfigType
<1>3. merged \in ConfigType
  <2>1. PICK u : u = RiskConfigUnraised(old, new)
    OBVIOUS
  <2>2. Larger(u.super_max_borrow_rate, new.max_borrow_rate) \in Nat
    BY <1>1, <1>2, <2>1 DEF ConfigType
  <2>3. merged = [u EXCEPT !.super_max_borrow_rate =
                            Larger(u.super_max_borrow_rate, new.max_borrow_rate)]
    BY <2>1 DEF RiskConfig
  <2> HIDE DEF merged
  <2> QED BY <1>2, <2>1, <2>2, <2>3, Zenon DEF ConfigType
<1>4. /\ merged.optimal_utilization_rate = new.optimal_utilization_rate
      /\ merged.max_utilization_rate = new.max_utilization_rate
      /\ merged.min_borrow_rate = new.min_borrow_rate
      /\ merged.optimal_borrow_rate = new.optimal_borrow_rate
      /\ merged.max_borrow_rate = new.max_borrow_rate
      /\ merged.protocol_take_rate = new.protocol_take_rate
      /\ merged.borrow_fee_wad = new.borrow_fee_wad
      /\ merged.super_max_borrow_rate = Larger(old.super_max_borrow_rate, new.max_borrow_rate)
  BY DEF RiskConfig, RiskConfigUnraised, ConfigType
<1>5. /\ merged.loan_to_value_ratio = old.loan_to_value_ratio
      /\ merged.liquidation_threshold = old.liquidation_threshold
      /\ merged.max_liquidation_threshold = old.max_liquidation_threshold
      /\ merged.liquidation_bonus = old.liquidation_bonus
      /\ merged.max_liquidation_bonus = old.max_liquidation_bonus
      /\ merged.host_fee_percentage = old.host_fee_percentage
      /\ merged.protocol_liquidation_fee = old.protocol_liquidation_fee
      /\ merged.reserve_type = old.reserve_type
  BY DEF RiskConfig, RiskConfigUnraised, ConfigType
<1>6. merged.super_max_borrow_rate >= new.max_borrow_rate
  BY <1>4 DEF Larger, ConfigType
<1> HIDE DEF merged
<1>7. ConsistentConfig(merged)
  BY <1>4, <1>5, <1>6 DEF ConsistentConfig, ConfigType
<1> QED BY <1>3, <1>7 DEF merged

\* The fee owner's merge.
LEMMA FeeConfigConsistent ==
    ASSUME NEW old \in ConfigType, NEW new \in ConfigType,
           ConsistentConfig(old), ConsistentConfig(new)
    PROVE  FeeConfig(old, new) \in ConfigType /\ ConsistentConfig(FeeConfig(old, new))
<1> DEFINE merged == FeeConfig(old, new)
<1>1. merged \in ConfigType
  BY Zenon DEF FeeConfig, ConfigType
<1>2. /\ merged.borrow_fee_wad = new.borrow_fee_wad
      /\ merged.host_fee_percentage = new.host_fee_percentage
      /\ merged.protocol_liquidation_fee = new.protocol_liquidation_fee
      /\ merged.protocol_take_rate = new.protocol_take_rate
  BY DEF FeeConfig, ConfigType
<1>3. /\ merged.optimal_utilization_rate = old.optimal_utilization_rate
      /\ merged.max_utilization_rate = old.max_utilization_rate
      /\ merged.min_borrow_rate = old.min_borrow_rate
      /\ merged.optimal_borrow_rate = old.optimal_borrow_rate
      /\ merged.max_borrow_rate = old.max_borrow_rate
      /\ merged.super_max_borrow_rate = old.super_max_borrow_rate
      /\ merged.loan_to_value_ratio = old.loan_to_value_ratio
      /\ merged.liquidation_threshold = old.liquidation_threshold
      /\ merged.max_liquidation_threshold = old.max_liquidation_threshold
      /\ merged.liquidation_bonus = old.liquidation_bonus
      /\ merged.max_liquidation_bonus = old.max_liquidation_bonus
      /\ merged.reserve_type = old.reserve_type
  BY DEF FeeConfig, ConfigType
<1> HIDE DEF merged
<1>4. ConsistentConfig(merged)
  BY <1>2, <1>3 DEF ConsistentConfig, ConfigType
<1> QED BY <1>1, <1>4 DEF merged

\* A reconfiguration changes a reserve's configuration and limiter only, and
\* leaves a consistent configuration.
LEMMA ReconfiguredBooks ==
    ASSUME NEW res, NEW supply, BooksOK(res, supply), NEW signer,
           NEW config \in ConfigType, ConsistentConfig(config), NEW limits
    PROVE  LET b == Reconfigured(res, signer, config, limits)
           IN  BooksOK(b, supply) /\ b.version = res.version
<1> DEFINE b == Reconfigured(res, signer, config, limits)
<1>1. Known(res)
  BY DEF BooksOK, Known
<1>2. /\ DOMAIN b = DOMAIN res
      /\ b.version = res.version
      /\ b.mint_total_supply = res.mint_total_supply
  BY <1>1 DEF Reconfigured, Known
<1>3. b.config \in {config, RiskConfig(res.config, config), FeeConfig(res.config, config)}
  BY <1>1 DEF Reconfigured, Known
<1>4. b.config \in ConfigType /\ ConsistentConfig(b.config)
  <2> HIDE DEF b
  <2> QED BY <1>3, RiskConfigConsistent, FeeConfigConsistent DEF BooksOK
<1> HIDE DEF b
<1>5. BooksOK(b, supply) /\ b.version = res.version
  BY <1>2, <1>4 DEF BooksOK
<1> QED BY <1>5 DEF b

-----------------------------------------------------------------------------
\* How one step changes the books.

\* A step that keeps every reserve's books and mints nothing.
LEMMA OneKeeps ==
    ASSUME Books, NEW r \in Reserves, Live(reserve[r]), NEW X,
           Keeps(reserve[r], X),
           reserve' = [reserve EXCEPT ![r] = X], minted' = minted
    PROVE  Books'
<1>1. BooksOK(X, minted[r]) /\ X.version = reserve[r].version
  BY KeepsBooks DEF Books
<1> QED BY <1>1 DEF Books, Live

\* A step that mints or burns on one reserve.
LEMMA OneMints ==
    ASSUME Books, NEW r \in Reserves, Live(reserve[r]), NEW X, NEW m,
           BooksOK(X, m), X.version = reserve[r].version,
           reserve' = [reserve EXCEPT ![r] = X], minted' = [minted EXCEPT ![r] = m]
    PROVE  Books'
BY DEF Books, Live

\* A live reserve has the fields it should have.
LEMMA LiveKnown ==
    ASSUME Books, NEW r \in Reserves, Live(reserve[r])
    PROVE  Known(reserve[r]) /\ BooksOK(reserve[r], minted[r])
BY DEF Books, BooksOK, Known

\* Keeping the books keeps their fields.
LEMMA KeepsKnown ==
    ASSUME NEW a, NEW b, Known(a), Keeps(a, b)
    PROVE  Known(b)
BY DEF Keeps, Known

\* A reserve refreshed, changed by an operation that keeps the books, and
\* marked stale keeps them.
LEMMA RefreshedAndMarked ==
    ASSUME NEW res, Known(res), NEW s
    PROVE  /\ Known(RefreshInterest(res, s))
           /\ Keeps(res, MarkStale(RefreshInterest(res, s)))
<1>1. Keeps(res, RefreshInterest(res, s)) /\ Known(RefreshInterest(res, s))
  BY RefreshKeeps, KeepsKnown
<1>2. Keeps(RefreshInterest(res, s), MarkStale(RefreshInterest(res, s)))
  BY <1>1, MarkStaleKeeps
<1> QED BY <1>1, <1>2, KeepsTransitive

\* Tokens minted for, or burnt from, a refreshed or unrefreshed reserve.
LEMMA MintedAndMarked ==
    ASSUME NEW res, NEW supply, BooksOK(res, supply), NEW liq, NEW coll, NEW amount
    PROVE  LET d == MarkStale(DepositLiquidity(res, liq, coll))
               w == MarkStale(CountOutflow(RedeemCollateral(res, liq, coll), amount))
               v == MarkStale(RedeemCollateral(res, liq, coll))
           IN  /\ BooksOK(d, supply + coll) /\ d.version = res.version
               /\ BooksOK(w, supply - coll) /\ w.version = res.version
               /\ BooksOK(v, supply - coll) /\ v.version = res.version
<1> DEFINE dep == DepositLiquidity(res, liq, coll)
           red == RedeemCollateral(res, liq, coll)
           out == CountOutflow(red, amount)
<1>1. Known(res)
  BY DEF BooksOK, Known
<1>2. /\ BooksOK(dep, supply + coll) /\ dep.version = res.version
      /\ BooksOK(red, supply - coll) /\ red.version = res.version
  BY <1>1, SharesMove
<1> HIDE DEF dep, red
<1>3. Known(dep) /\ Known(red)
  BY <1>2 DEF BooksOK, Known
<1>4. Keeps(red, out) /\ Known(out)
  BY <1>3, CountOutflowKeeps, KeepsKnown
<1> HIDE DEF out
<1>5. Keeps(dep, MarkStale(dep)) /\ Keeps(red, MarkStale(red)) /\ Keeps(red, MarkStale(out))
  BY <1>3, <1>4, MarkStaleKeeps, KeepsTransitive
<1>6. /\ BooksOK(MarkStale(dep), supply + coll) /\ MarkStale(dep).version = res.version
      /\ BooksOK(MarkStale(red), supply - coll) /\ MarkStale(red).version = res.version
      /\ BooksOK(MarkStale(out), supply - coll) /\ MarkStale(out).version = res.version
  BY <1>2, <1>5, KeepsBooks
<1> QED BY <1>6 DEF dep, red, out

\* Initially nothing is initialised and nothing minted.
LEMMA BooksInit == Init => Books
BY DEF Init, Books, Blank, Live

\* An account becomes a reserve with the tokens of its first deposit.
LEMMA InitReserveBooks ==
    ASSUME Books, NEW r \in Reserves, NEW u, InitReserve(r, u)
    PROVE  Books'
<1> DEFINE res == NewReserve(slot, FirstConfig[r], MintScale[r])
           new == LiquidityToCollateral(res, FirstDeposit)
<1>1. BooksOK(res, 0) /\ res.version = 1
  BY ConfigsAssumption DEF InitReserve, NewReserve, BooksOK, ValidConfig
<1>2. minted[r] = 0
  BY DEF Books, InitReserve
<1>3. /\ reserve' = [reserve EXCEPT ![r] = DepositLiquidity(res, FirstDeposit, new)]
      /\ minted' = [minted EXCEPT ![r] = 0 + new]
  BY <1>2 DEF InitReserve, Books
<1> HIDE DEF res, new
<1>4. PICK X : X = DepositLiquidity(res, FirstDeposit, new)
  OBVIOUS
<1>5. BooksOK(X, 0 + new) /\ X.version = 1
  BY <1>1, <1>4, SharesMove DEF BooksOK, Known
<1> QED BY <1>3, <1>4, <1>5 DEF Books, Live

-----------------------------------------------------------------------------
\* The handlers that change one reserve without minting.

\* Refreshing accounts and collecting fees keep the books.
LEMMA UpkeepBooks ==
    ASSUME Books, Upkeep
    PROVE  Books'
<1>1. ASSUME NEW r \in Reserves, RefreshReserve(r) PROVE Books'
  <2>1. Keeps(reserve[r], RefreshInterest(reserve[r], slot))
    BY <1>1, LiveKnown, RefreshKeeps DEF RefreshReserve
  <2> QED BY <1>1, <2>1, OneKeeps DEF RefreshReserve
<1>2. ASSUME NEW o \in Obligations, RefreshAnObligation(o) PROVE Books'
  BY <1>2 DEF RefreshAnObligation, Books, Live
<1>3. ASSUME NEW r \in Reserves, RedeemProtocolFees(r) PROVE Books'
  <2> DEFINE amount == RedeemableFees(reserve[r])
             X == MarkStale(RedeemFees(reserve[r], amount))
  <2>1. Live(reserve[r]) /\ reserve' = [reserve EXCEPT ![r] = X] /\ minted' = minted
    BY <1>3 DEF RedeemProtocolFees, Fresh
  <2>2. Keeps(reserve[r], RedeemFees(reserve[r], amount))
    BY <2>1, LiveKnown, AmountsKeep
  <2>3. Keeps(reserve[r], X)
    BY <2>1, <2>2, LiveKnown, KeepsKnown, MarkStaleKeeps, KeepsTransitive
  <2> HIDE DEF X
  <2> QED BY <2>1, <2>3, OneKeeps
<1> QED BY <1>1, <1>2, <1>3 DEF Upkeep

\* Each signer's reconfiguration keeps the books.
LEMMA UpdateReserveConfigBooks ==
    ASSUME Books, NEW r \in Reserves, NEW signer, NEW config \in Reconfigs, NEW limits,
           UpdateReserveConfig(r, signer, config, limits)
    PROVE  Books'
<1> DEFINE new == Reconfigured(reserve[r], signer, config, limits)
<1>1. /\ Live(reserve[r]) /\ ConsistentConfig(config) /\ config \in ConfigType
      /\ reserve' = [reserve EXCEPT ![r] = MarkStale(new)] /\ minted' = minted
  BY ConfigsAssumption DEF UpdateReserveConfig, ValidConfig
<1>2. BooksOK(new, minted[r]) /\ new.version = reserve[r].version
  BY <1>1, LiveKnown, ReconfiguredBooks
<1> HIDE DEF new
<1>3. Keeps(new, MarkStale(new))
  BY <1>2, MarkStaleKeeps DEF BooksOK, Known
<1>4. BooksOK(MarkStale(new), minted[r]) /\ MarkStale(new).version = reserve[r].version
  BY <1>2, <1>3, KeepsBooks
<1>5. PICK X : X = MarkStale(new)
  OBVIOUS
<1> QED BY <1>1, <1>4, <1>5 DEF Books, Live

\* The market's and the reserves' administration keeps the books.
LEMMA AdministrationBooks ==
    ASSUME Books, Administration
    PROVE  Books'
<1>1. ASSUME UNCHANGED <<reserve, minted>> PROVE Books'
  BY <1>1 DEF Books, Live
<1> QED BY <1>1, UpdateReserveConfigBooks
    DEF Administration, SetOwnerAndConfig, SetRiskAuthority

\* Borrowing, repaying and forgiving keep the books.
LEMMA DebtBooks ==
    ASSUME Books, Debt
    PROVE  Books'
<1>1. ASSUME NEW o, NEW r \in Reserves, NEW asked, NEW hosted, Borrow(o, r, asked, hosted)
      PROVE  Books'
  <2> DEFINE amount == LoanOf(obligation[o], reserve[r], asked).amount
             counted == CountOutflow(reserve[r], amount)
             lent == Lend(counted, amount)
  <2>1. /\ Live(reserve[r]) /\ minted' = minted
        /\ reserve' = [reserve EXCEPT ![r] = MarkStale(lent)]
    BY <1>1 DEF Borrow, Fresh
  <2>2. Keeps(reserve[r], counted) /\ Known(counted)
    BY <2>1, LiveKnown, CountOutflowKeeps, KeepsKnown
  <2>3. Keeps(counted, lent) /\ Known(lent)
    <3> HIDE DEF counted
    <3> QED BY <2>2, AmountsKeep, KeepsKnown
  <2> HIDE DEF counted, lent
  <2>4. Keeps(reserve[r], MarkStale(lent))
    BY <2>2, <2>3, MarkStaleKeeps, KeepsTransitive
  <2> QED BY <2>1, <2>4, OneKeeps
<1>2. ASSUME NEW u, NEW o, NEW r \in Reserves, NEW asked, Repay(u, o, r, asked)
      PROVE  Books'
  <2>1. PICK res : res = RefreshInterest(reserve[r], slot)
    OBVIOUS
  <2>2. Live(reserve[r]) /\ minted' = minted
    BY <1>2 DEF Repay
  <2>3. PICK amount, settle :
            reserve' = [reserve EXCEPT ![r] = MarkStale(Settle(res, amount, settle))]
    BY <1>2, <2>1 DEF Repay
  <2>4. Keeps(reserve[r], res) /\ Known(res)
    BY <2>1, <2>2, LiveKnown, RefreshKeeps, KeepsKnown
  <2>5. Keeps(res, Settle(res, amount, settle)) /\ Known(Settle(res, amount, settle))
    BY <2>4, AmountsKeep, KeepsKnown
  <2>6. Keeps(reserve[r], MarkStale(Settle(res, amount, settle)))
    BY <2>4, <2>5, MarkStaleKeeps, KeepsTransitive
  <2> QED BY <2>2, <2>3, <2>6, OneKeeps
<1>3. ASSUME NEW o, NEW r \in Reserves, NEW asked, ForgiveDebt(o, r, asked)
      PROVE  Books'
  <2>1. Live(reserve[r]) /\ minted' = minted
    BY <1>3 DEF ForgiveDebt, Fresh
  <2>2. PICK amount : reserve' = [reserve EXCEPT ![r] = MarkStale(Forgive(reserve[r], amount))]
    BY <1>3 DEF ForgiveDebt
  <2>3. Keeps(reserve[r], Forgive(reserve[r], amount)) /\ Known(Forgive(reserve[r], amount))
    BY <2>1, LiveKnown, AmountsKeep, KeepsKnown
  <2>4. Keeps(reserve[r], MarkStale(Forgive(reserve[r], amount)))
    BY <2>3, MarkStaleKeeps, KeepsTransitive
  <2> QED BY <2>1, <2>2, <2>4, OneKeeps
<1> QED BY <1>1, <1>2, <1>3 DEF Debt

-----------------------------------------------------------------------------
\* The handlers that mint and burn.

\* Deposits and redemptions mint and burn what they count.
LEMMA PoolBooks ==
    ASSUME Books, Pool
    PROVE  Books'
<1>1. ASSUME NEW u, NEW r \in Reserves, NEW amount, Deposit(u, r, amount) PROVE Books'
  <2>1. PICK res : res = RefreshInterest(reserve[r], slot)
    OBVIOUS
  <2>2. PICK new : new = LiquidityToCollateral(res, amount)
    OBVIOUS
  <2>3. PICK X : X = MarkStale(DepositLiquidity(res, amount, new))
    OBVIOUS
  <2>4. /\ Live(reserve[r])
        /\ reserve' = [reserve EXCEPT ![r] = X]
        /\ minted' = [minted EXCEPT ![r] = minted[r] + new]
    BY <1>1, <2>1, <2>2, <2>3 DEF Deposit
  <2>5. BooksOK(res, minted[r]) /\ res.version = reserve[r].version
    BY <2>1, <2>4, LiveKnown, RefreshKeeps, KeepsBooks
  <2>6. BooksOK(X, minted[r] + new) /\ X.version = res.version
    BY <2>3, <2>5, MintedAndMarked
  <2> QED BY <2>4, <2>5, <2>6, OneMints
<1>2. ASSUME NEW u, NEW r \in Reserves, NEW coll, Redeem(u, r, coll) PROVE Books'
  <2>1. PICK liq : liq = CollateralToLiquidity(reserve[r], coll)
    OBVIOUS
  <2>2. PICK X : X = MarkStale(CountOutflow(RedeemCollateral(reserve[r], liq, coll),
                                            FromInt(liq)))
    OBVIOUS
  <2>3. /\ Live(reserve[r])
        /\ reserve' = [reserve EXCEPT ![r] = X]
        /\ minted' = [minted EXCEPT ![r] = minted[r] - coll]
    BY <1>2, <2>1, <2>2 DEF Redeem, Fresh
  <2>4. BooksOK(X, minted[r] - coll) /\ X.version = reserve[r].version
    BY <2>2, <2>3, LiveKnown, MintedAndMarked
  <2> QED BY <2>3, <2>4, OneMints
<1> QED BY <1>1, <1>2 DEF Pool

\* Pledging and withdrawing mint and burn what they count.
LEMMA CollateralBooks ==
    ASSUME Books, Collateral
    PROVE  Books'
<1>1. ASSUME NEW o, NEW r \in Reserves, NEW coll, DepositObligation(o, r, coll) PROVE Books'
  <2>1. Live(reserve[r]) /\ minted' = minted
        /\ reserve' = [reserve EXCEPT ![r] = MarkStale(RefreshInterest(reserve[r], slot))]
    BY <1>1 DEF DepositObligation
  <2>2. Keeps(reserve[r], MarkStale(RefreshInterest(reserve[r], slot)))
    BY <2>1, LiveKnown, RefreshedAndMarked
  <2> QED BY <2>1, <2>2, OneKeeps
<1>2. ASSUME NEW o, NEW r \in Reserves, NEW amount, DepositAndPledge(o, r, amount) PROVE Books'
  <2>1. PICK res : res = RefreshInterest(reserve[r], slot)
    OBVIOUS
  <2>2. PICK new : new = LiquidityToCollateral(res, amount)
    OBVIOUS
  <2>3. PICK X : X = MarkStale(DepositLiquidity(res, amount, new))
    OBVIOUS
  <2>4. /\ Live(reserve[r])
        /\ reserve' = [reserve EXCEPT ![r] = X]
        /\ minted' = [minted EXCEPT ![r] = minted[r] + new]
    BY <1>2, <2>1, <2>2, <2>3 DEF DepositAndPledge
  <2>5. BooksOK(res, minted[r]) /\ res.version = reserve[r].version
    BY <2>1, <2>4, LiveKnown, RefreshKeeps, KeepsBooks
  <2>6. BooksOK(X, minted[r] + new) /\ X.version = res.version
    BY <2>3, <2>5, MintedAndMarked
  <2> QED BY <2>4, <2>5, <2>6, OneMints
<1>3. ASSUME NEW o, NEW r \in Reserves, NEW asked, WithdrawObligation(o, r, asked) PROVE Books'
  BY <1>3 DEF WithdrawObligation, Books, Live
<1>4. ASSUME NEW o, NEW r \in Reserves, NEW asked, WithdrawAndRedeem(o, r, asked) PROVE Books'
  <2>1. PICK coll : coll = Withdrawable(obligation[o], r, asked, TRUE)
    OBVIOUS
  <2>2. PICK liq : liq = CollateralToLiquidity(reserve[r], coll)
    OBVIOUS
  <2>3. PICK X : X = MarkStale(CountOutflow(RedeemCollateral(reserve[r], liq, coll),
                                            FromInt(liq)))
    OBVIOUS
  <2>4. /\ Live(reserve[r])
        /\ reserve' = [reserve EXCEPT ![r] = X]
        /\ minted' = [minted EXCEPT ![r] = minted[r] - coll]
    BY <1>4, <2>1, <2>2, <2>3 DEF WithdrawAndRedeem, CanWithdraw, Fresh
  <2>5. BooksOK(X, minted[r] - coll) /\ X.version = reserve[r].version
    BY <2>3, <2>4, LiveKnown, MintedAndMarked
  <2> QED BY <2>4, <2>5, OneMints
<1> QED BY <1>1, <1>2, <1>3, <1>4 DEF Collateral

\* A liquidation settles on one reserve and burns on another, or on the same.
LEMMA LiquidateBooks ==
    ASSUME Books, NEW u, NEW o, NEW debt \in Reserves, NEW coll \in Reserves, NEW asked,
           Liquidate(u, o, debt, coll, asked)
    PROVE  Books'
<1> DEFINE part == LiquidationOf(obligation[o], BorrowIndex(obligation[o], debt), coll, asked)
           settled == MarkStale(Settle(reserve[debt], part.repay, part.settle))
<1>1. PICK repaid : repaid = [reserve EXCEPT ![debt] = settled]
  OBVIOUS
<1>2. PICK res : res = RefreshInterest(repaid[coll], slot)
  OBVIOUS
<1>3. PICK redeemed : redeemed = Smaller(part.withdraw,
                                         LiquidityToCollateral(res, res.available_amount))
  OBVIOUS
<1>4. PICK liq : liq = CollateralToLiquidity(res, redeemed)
  OBVIOUS
<1>5. /\ Live(reserve[debt]) /\ Live(reserve[coll])
      /\ \/ /\ reserve' = [repaid EXCEPT ![coll] = res]
            /\ minted' = [minted EXCEPT ![coll] = minted[coll]]
         \/ /\ reserve' = [repaid EXCEPT ![coll] = MarkStale(RedeemCollateral(res, liq, redeemed))]
            /\ minted' = [minted EXCEPT ![coll] = minted[coll] - redeemed]
  BY <1>1, <1>2, <1>3, <1>4 DEF Liquidate, CanLiquidate, Fresh, Books
<1>6. Keeps(reserve[debt], settled)
  <2>1. Keeps(reserve[debt], Settle(reserve[debt], part.repay, part.settle))
    BY <1>5, LiveKnown, AmountsKeep
  <2> QED BY <1>5, <2>1, LiveKnown, KeepsKnown, MarkStaleKeeps, KeepsTransitive
<1> HIDE DEF settled
<1>7. \A r \in Reserves : Live(reserve[r]) =>
          BooksOK(repaid[r], minted[r]) /\ repaid[r].version = reserve[r].version
  BY <1>1, <1>5, <1>6, KeepsBooks DEF Books
<1>8. /\ DOMAIN repaid = Reserves
      /\ \A r \in Reserves \ {debt} : repaid[r] = reserve[r]
  BY <1>1 DEF Books
<1>9. BooksOK(res, minted[coll]) /\ res.version = reserve[coll].version
  BY <1>2, <1>5, <1>7, RefreshKeeps, KeepsBooks DEF BooksOK, Known
<1>10. PICK X, m : /\ reserve' = [repaid EXCEPT ![coll] = X]
                   /\ minted' = [minted EXCEPT ![coll] = m]
                   /\ X.version = reserve[coll].version
                   /\ BooksOK(X, m)
  <2>1. PICK X : X = MarkStale(RedeemCollateral(res, liq, redeemed))
    OBVIOUS
  <2>2. BooksOK(X, minted[coll] - redeemed) /\ X.version = res.version
    BY <2>1, <1>9, MintedAndMarked
  <2> QED BY <1>5, <1>9, <2>1, <2>2
<1> QED BY <1>5, <1>7, <1>8, <1>10 DEF Books, Live

-----------------------------------------------------------------------------
\* The books are right after every step.
LEMMA BooksStep == Books /\ [Next]_vars => Books'
<1> SUFFICES ASSUME Books, [Next]_vars PROVE Books'
  OBVIOUS
<1>1. ASSUME UNCHANGED <<reserve, minted>> PROVE Books'
  BY <1>1 DEF Books, Live
<1>2. CASE OpenAccounts
  BY <1>1, <1>2, InitReserveBooks DEF OpenAccounts, InitObligation
<1>3. CASE Tick \/ UNCHANGED vars
  BY <1>1, <1>3 DEF Tick, vars
<1>4. CASE Liquidations
  BY <1>4, LiquidateBooks DEF Liquidations
<1> QED
  BY <1>2, <1>3, <1>4, UpkeepBooks, PoolBooks, CollateralBooks, DebtBooks, AdministrationBooks
  DEF Next

\* The invariant of the books, for every constant.
THEOREM BooksInvariant == Spec => []Books
BY BooksInit, BooksStep, PTL DEF Spec

\* No handler mints or burns collateral tokens without counting them: the
\* supply of exchange_rate is that of the mint.
THEOREM MintCounted == Spec => []MintIsCounted
<1>1. Books => MintIsCounted
  BY DEF Books, BooksOK, MintIsCounted, LiveReserves
<1> QED BY <1>1, BooksInvariant, PTL

\* However often and by whomever a reserve is reconfigured, the stored
\* configuration keeps the order that the interest and liquidation
\* arithmetic relies on.
THEOREM ConfigsConsistent == Spec => []ConfigsStayConsistent
<1>1. Books => ConfigsStayConsistent
  BY DEF Books, BooksOK, ConfigsStayConsistent, LiveReserves
<1> QED BY <1>1, BooksInvariant, PTL

-----------------------------------------------------------------------------
\* A reserve the arithmetic is defined on, at slot s.
Sound(res, s) ==
    /\ res \in ReserveType
    /\ ConsistentConfig(res.config)
    /\ res.cumulative_borrow_rate_wads >= One
    /\ res.last_update.slot =< s

\* Debts to live reserves R, one to each, none empty and none ahead of its
\* reserve's rate.
DebtSound(b, R) ==
    /\ Live(R[b.borrow_reserve])
    /\ b.borrowed_amount_wads # 0
    /\ One =< b.cumulative_borrow_rate_wads
    /\ b.cumulative_borrow_rate_wads =< R[b.borrow_reserve].cumulative_borrow_rate_wads
DebtsSound(bs, R) ==
    /\ bs \in Seq(BorrowType)
    /\ \A i \in 1..Len(bs) : DebtSound(bs[i], R)
    /\ \A i, j \in 1..Len(bs) : i # j => bs[i].borrow_reserve # bs[j].borrow_reserve

\* Deposits in live reserves R; one that was valued above zero is not empty.
DepositsSound(ds, R) ==
    /\ ds \in [DOMAIN ds -> DepositType]
    /\ DOMAIN ds \subseteq Reserves /\ IsFiniteSet(DOMAIN ds)
    /\ \A r \in DOMAIN ds :
          Live(R[r]) /\ (ds[r].market_value # 0 => ds[r].deposited_amount # 0)

ObligationSound(ob, R, s) ==
    /\ ob \in ObligationType(DOMAIN ob.deposits)
    /\ DepositsSound(ob.deposits, R)
    /\ DebtsSound(ob.borrows, R)
    /\ ob.unhealthy_borrow_value =< ob.super_unhealthy_borrow_value
    /\ ob.last_update.slot =< s

\* A fresh obligation's debts are at the rates of reserves fresh in the slot.
DebtsFresh(ob, R, s) ==
    ~IsStale(ob, s) =>
        \A i \in 1..Len(ob.borrows) :
            LET b == ob.borrows[i]
            IN  /\ R[b.borrow_reserve].last_update.slot = s
                /\ b.cumulative_borrow_rate_wads = R[b.borrow_reserve].cumulative_borrow_rate_wads

\* Exchanging the debts or the deposits of a sound obligation for sound ones.
LEMMA WithBorrows ==
    ASSUME NEW ob, NEW R, NEW s, ObligationSound(ob, R, s), NEW bs, DebtsSound(bs, R)
    PROVE  LET b == [ob EXCEPT !.borrows = bs]
           IN  /\ ObligationSound(b, R, s) /\ b.borrows = bs
               /\ b.deposits = ob.deposits /\ b.owner = ob.owner /\ b.version = 1
<1>1. PICK b : b = [ob EXCEPT !.borrows = bs]
  OBVIOUS
<1>2. ob \in ObligationType(DOMAIN ob.deposits) /\ bs \in Seq(BorrowType)
  BY DEF ObligationSound, DebtsSound
<1>3. PICK D : D = DOMAIN ob.deposits
  OBVIOUS
<1>4. ob \in ObligationType(D)
  BY <1>2, <1>3
<1>5. b \in ObligationType(D)
  BY <1>1, <1>2, <1>4 DEF ObligationType
<1>6. /\ b.borrows = bs /\ b.deposits = ob.deposits /\ b.owner = ob.owner /\ b.version = 1
      /\ b.last_update = ob.last_update
      /\ b.unhealthy_borrow_value = ob.unhealthy_borrow_value
      /\ b.super_unhealthy_borrow_value = ob.super_unhealthy_borrow_value
  BY <1>1, <1>4 DEF ObligationType
<1> QED BY <1>1, <1>3, <1>5, <1>6 DEF ObligationSound

\* An obligation stays sound with other sound deposits.
LEMMA WithDeposits ==
    ASSUME NEW ob, NEW R, NEW s, ObligationSound(ob, R, s), NEW ds, DepositsSound(ds, R)
    PROVE  LET b == [ob EXCEPT !.deposits = ds]
           IN  /\ ObligationSound(b, R, s) /\ b.deposits = ds
               /\ b.borrows = ob.borrows /\ b.owner = ob.owner /\ b.version = 1
<1>1. PICK b : b = [ob EXCEPT !.deposits = ds]
  OBVIOUS
<1>2. ob \in ObligationType(DOMAIN ob.deposits) /\ ds \in [DOMAIN ds -> DepositType]
  BY DEF ObligationSound, DepositsSound
<1>3. PICK D : D = DOMAIN ob.deposits
  OBVIOUS
<1>4. PICK E : E = DOMAIN ds
  OBVIOUS
<1>5. ob \in ObligationType(D) /\ ds \in [E -> DepositType]
  BY <1>2, <1>3, <1>4
<1>6. b \in ObligationType(E)
  BY <1>1, <1>5 DEF ObligationType
<1>7. /\ b.deposits = ds /\ b.borrows = ob.borrows /\ b.owner = ob.owner /\ b.version = 1
      /\ b.last_update = ob.last_update
      /\ b.unhealthy_borrow_value = ob.unhealthy_borrow_value
      /\ b.super_unhealthy_borrow_value = ob.super_unhealthy_borrow_value
  BY <1>1, <1>5 DEF ObligationType
<1> QED BY <1>1, <1>4, <1>6, <1>7 DEF ObligationSound

\* Marking an obligation stale.
LEMMA StaleObligation ==
    ASSUME NEW ob, NEW R, NEW s, ObligationSound(ob, R, s)
    PROVE  LET b == MarkStale(ob)
           IN  /\ ObligationSound(b, R, s) /\ DebtsFresh(b, R, s)
               /\ b.deposits = ob.deposits /\ b.borrows = ob.borrows
               /\ b.owner = ob.owner /\ b.version = 1
<1>1. PICK b : b = MarkStale(ob)
  OBVIOUS
<1>2. PICK D : D = DOMAIN ob.deposits
  OBVIOUS
<1>3. ob \in ObligationType(D)
  BY <1>2 DEF ObligationSound
<1>4. b \in ObligationType(D)
  BY <1>1, <1>3 DEF ObligationType, UpdateType, MarkStale
<1>5. /\ b.deposits = ob.deposits /\ b.borrows = ob.borrows /\ b.owner = ob.owner
      /\ b.version = 1
      /\ b.last_update.slot = ob.last_update.slot /\ b.last_update.stale = TRUE
      /\ b.unhealthy_borrow_value = ob.unhealthy_borrow_value
      /\ b.super_unhealthy_borrow_value = ob.super_unhealthy_borrow_value
  BY <1>1, <1>3 DEF ObligationType, UpdateType, MarkStale
<1>6. DebtsFresh(b, R, s)
  BY <1>5 DEF DebtsFresh, IsStale
<1> QED BY <1>1, <1>2, <1>4, <1>5, <1>6 DEF ObligationSound

\* find_liquidity_index_in_borrows finds an index of the list, of that
\* reserve, or there is none.
LEMMA BorrowIndexFacts ==
    ASSUME NEW ob, NEW r, ob.borrows \in Seq(BorrowType)
    PROVE  /\ BorrowIndex(ob, r) # 0 =>
                 /\ BorrowIndex(ob, r) \in 1..Len(ob.borrows)
                 /\ ob.borrows[BorrowIndex(ob, r)].borrow_reserve = r
           /\ BorrowIndex(ob, r) = 0 =>
                 \A i \in 1..Len(ob.borrows) : ob.borrows[i].borrow_reserve # r
<1> DEFINE I == {i \in 1..Len(ob.borrows) : ob.borrows[i].borrow_reserve = r}
<1>1. BorrowIndex(ob, r) = IF I # {} THEN Min(I) ELSE 0
  BY DEF BorrowIndex, SelectInSeq
<1>2. I # {} => Min(I) \in I
  <2>1. I \subseteq Nat
    OBVIOUS
  <2> HIDE DEF I
  <2> QED BY <2>1, LeastNat DEF Min
<1>3. \A i \in I : i # 0
  OBVIOUS
<1> QED BY <1>1, <1>2, <1>3

\* The list without entry i.
LEMMA RemoveEntries ==
    ASSUME NEW bs \in Seq(BorrowType), NEW i \in 1..Len(bs)
    PROVE  LET both == RemoveAt(bs, i)
           IN  /\ both \in Seq(BorrowType) /\ Len(bs) \in Nat /\ Len(both) = Len(bs) - 1
               /\ \A j \in 1..(Len(bs) - 1) : /\ both[j] = bs[IF j < i THEN j ELSE j + 1]
                                              /\ (IF j < i THEN j ELSE j + 1) \in 1..Len(bs)
<1>1. bs \in Seq(BorrowType)
  OBVIOUS
<1>2. PICK front : front = SubSeq(bs, 1, i - 1)
  OBVIOUS
<1>3. PICK back : back = SubSeq(bs, i + 1, Len(bs))
  OBVIOUS
<1>4. /\ front \in Seq(BorrowType) /\ Len(front) = i - 1
      /\ \A j \in 1..(i - 1) : front[j] = bs[j]
  BY <1>1, <1>2
<1>5. /\ back \in Seq(BorrowType) /\ Len(back) = Len(bs) - i
      /\ \A j \in 1..(Len(bs) - i) : back[j] = bs[i + j]
  BY <1>1, <1>3
<1>6. RemoveAt(bs, i) = front \o back
  BY <1>2, <1>3 DEF RemoveAt
<1>7. PICK both : both = front \o back
  OBVIOUS
<1>8. /\ both \in Seq(BorrowType)
      /\ Len(both) = Len(front) + Len(back)
      /\ \A j \in 1..(Len(front) + Len(back)) :
            both[j] = IF j <= Len(front) THEN front[j] ELSE back[j - Len(front)]
  BY <1>4, <1>5, <1>7, ConcatProperties
<1>9. Len(both) = Len(bs) - 1 /\ Len(bs) \in Nat
      /\ \A j \in 1..(Len(bs) - 1) :
            both[j] = IF j <= i - 1 THEN front[j] ELSE back[j - (i - 1)]
  <2>1. PICK n \in Nat : n = Len(bs) /\ i \in 1..n
    BY <1>1
  <2>2. Len(front) = i - 1 /\ Len(back) = n - i /\ Len(front) + Len(back) = n - 1
    BY <1>4, <1>5, <2>1
  <2>3. \A j \in 1..(n - 1) : both[j] = IF j <= i - 1 THEN front[j] ELSE back[j - (i - 1)]
    BY <1>8, <2>2
  <2>4. Len(both) = n - 1
    BY <1>8, <2>2
  <2> QED BY <2>1, <2>3, <2>4
<1>10. \A j \in 1..(Len(bs) - 1) : both[j] = bs[IF j < i THEN j ELSE j + 1]
  <2> SUFFICES ASSUME NEW j \in 1..(Len(bs) - 1)
               PROVE  both[j] = bs[IF j < i THEN j ELSE j + 1]
    OBVIOUS
  <2>1. CASE j < i
    <3>1. j <= i - 1 /\ j \in 1..(i - 1)
      BY <1>9, <2>1
    <3>2. both[j] = front[j]
      BY <1>9, <3>1
    <3>3. front[j] = bs[j]
      BY <1>4, <3>1
    <3> QED BY <2>1, <3>2, <3>3
  <2>2. CASE ~ (j < i)
    <3>1. both[j] = back[j - (i - 1)] /\ j - (i - 1) \in 1..(Len(bs) - i)
      <4>1. PICK n \in Nat : n = Len(bs)
        BY <1>9
      <4>2. i \in 1..n /\ j \in 1..(n - 1)
        BY <4>1
      <4>3. ~ (j <= i - 1) /\ j - (i - 1) \in 1..(n - i)
        BY <2>2, <4>1, <4>2
      <4>4. both[j] = IF j <= i - 1 THEN front[j] ELSE back[j - (i - 1)]
        BY <1>9
      <4> QED BY <4>1, <4>3, <4>4
    <3>2. back[j - (i - 1)] = bs[i + (j - (i - 1))] /\ i + (j - (i - 1)) = j + 1
      BY <1>1, <1>5, <3>1
    <3> QED BY <2>2, <3>1, <3>2
  <2> QED BY <2>1, <2>2
<1>11. ASSUME NEW j \in 1..(Len(bs) - 1)
       PROVE  (IF j < i THEN j ELSE j + 1) \in 1..Len(bs)
  BY <1>9
<1> QED BY <1>6, <1>7, <1>8, <1>9, <1>10, <1>11

\* An entry removed from a list of sound debts, exchanged or added.
LEMMA RemoveSound ==
    ASSUME NEW bs, NEW R, DebtsSound(bs, R), NEW i \in 1..Len(bs)
    PROVE  DebtsSound(RemoveAt(bs, i), R)
<1>1. bs \in Seq(BorrowType)
  BY DEF DebtsSound
<1>2. PICK both : both = RemoveAt(bs, i)
  OBVIOUS
<1>3. /\ both \in Seq(BorrowType) /\ Len(bs) \in Nat /\ Len(both) = Len(bs) - 1
      /\ \A j \in 1..(Len(bs) - 1) : /\ both[j] = bs[IF j < i THEN j ELSE j + 1]
                                     /\ (IF j < i THEN j ELSE j + 1) \in 1..Len(bs)
  BY <1>1, <1>2, RemoveEntries
<1>4. \A j \in 1..(Len(bs) - 1) : DebtSound(both[j], R)
  BY <1>3 DEF DebtsSound
<1>5. ASSUME NEW j \in 1..(Len(bs) - 1), NEW k \in 1..(Len(bs) - 1), j # k
      PROVE  both[j].borrow_reserve # both[k].borrow_reserve
  <2>1. PICK x \in 1..Len(bs) : x = IF j < i THEN j ELSE j + 1
    BY <1>3
  <2>2. PICK y \in 1..Len(bs) : y = IF k < i THEN k ELSE k + 1
    BY <1>3
  <2>3. x # y
    BY <1>3, <1>5, <2>1, <2>2
  <2>4. both[j] = bs[x] /\ both[k] = bs[y]
    BY <1>3, <2>1, <2>2
  <2> QED BY <2>3, <2>4 DEF DebtsSound
<1> QED BY <1>2, <1>3, <1>4, <1>5 DEF DebtsSound

\* A debt may be replaced by a sound one to the same reserve.
LEMMA ReplaceSound ==
    ASSUME NEW bs, NEW R, DebtsSound(bs, R), NEW i \in 1..Len(bs),
           NEW b \in BorrowType, DebtSound(b, R), b.borrow_reserve = bs[i].borrow_reserve
    PROVE  DebtsSound([bs EXCEPT ![i] = b], R)
BY DEF DebtsSound

\* A sound debt to a reserve not yet owed may be appended.
LEMMA AppendSound ==
    ASSUME NEW bs, NEW R, DebtsSound(bs, R), NEW b \in BorrowType, DebtSound(b, R),
           \A i \in 1..Len(bs) : bs[i].borrow_reserve # b.borrow_reserve
    PROVE  DebtsSound(Append(bs, b), R)
BY DEF DebtsSound

-----------------------------------------------------------------------------
\* A pledge adds to one deposit; a release takes from one, and removes it
\* when nothing is left.
LEMMA PledgeSound ==
    ASSUME NEW ob, NEW R, NEW s, ObligationSound(ob, R, s),
           NEW r \in Reserves, Live(R[r]), NEW n \in Nat
    PROVE  LET b == Pledge(ob, r, n)
           IN  /\ ObligationSound(b, R, s) /\ b.owner = ob.owner /\ b.borrows = ob.borrows
               /\ PledgeOf(b, r) = PledgeOf(ob, r) + n
               /\ \A q \in Reserves \ {r} : PledgeOf(b, q) = PledgeOf(ob, q)
<1> DEFINE held == IF r \in DOMAIN ob.deposits THEN ob.deposits[r]
                   ELSE [deposited_amount |-> 0, market_value |-> 0]
           more == [held EXCEPT !.deposited_amount = @ + n]
           ds   == [d \in DOMAIN ob.deposits \cup {r} |->
                       IF d = r THEN more ELSE ob.deposits[d]]
<1>1. PICK b : b = [ob EXCEPT !.deposits = ds]
  OBVIOUS
<1>2. DepositsSound(ob.deposits, R) /\ ob.version = 1
  BY DEF ObligationSound, ObligationType
<1>3. held \in DepositType /\ (held.market_value # 0 => held.deposited_amount # 0)
  BY <1>2 DEF DepositsSound, DepositType
<1>4. PICK h \in DepositType : h = held /\ (h.market_value # 0 => h.deposited_amount # 0)
  BY <1>3
<1>5. PICK m : m = [h EXCEPT !.deposited_amount = @ + n]
  OBVIOUS
<1>6. /\ m \in DepositType /\ (m.market_value # 0 => m.deposited_amount # 0)
      /\ m.deposited_amount = h.deposited_amount + n
  BY <1>4, <1>5 DEF DepositType
<1>7. m = more
  BY <1>4, <1>5
<1>8. PICK D : D = DOMAIN ob.deposits
  OBVIOUS
<1>9. /\ DOMAIN ds = D \cup {r}
      /\ \A q \in D \cup {r} : ds[q] = IF q = r THEN m ELSE ob.deposits[q]
      /\ ds = [q \in D \cup {r} |-> IF q = r THEN m ELSE ob.deposits[q]]
  <2> HIDE DEF more
  <2> QED BY <1>7, <1>8
<1>10. Pledge(ob, r, n) = b
  BY <1>1 DEF Pledge
<1>11. PICK e : e = ds
  OBVIOUS
<1>12. /\ IsFiniteSet(D) /\ D \subseteq Reserves /\ ob.deposits \in [D -> DepositType]
       /\ \A q \in D : Live(R[q]) /\ (ob.deposits[q].market_value # 0
                                         => ob.deposits[q].deposited_amount # 0)
  BY <1>2, <1>8 DEF DepositsSound
<1>13. IsFiniteSet(D \cup {r})
  BY <1>12, FS_AddElement
<1>14. (r \in D => h = ob.deposits[r]) /\ (r \notin D => h.deposited_amount = 0)
  BY <1>4, <1>8
<1> HIDE DEF held, more, ds
<1>15. e \in [D \cup {r} -> DepositType]
  BY <1>6, <1>9, <1>11, <1>12
<1>16. DepositsSound(e, R)
  BY <1>6, <1>9, <1>11, <1>12, <1>13, <1>15 DEF DepositsSound
<1>17. /\ ObligationSound(b, R, s) /\ b.deposits = e /\ b.borrows = ob.borrows
       /\ b.owner = ob.owner /\ b.version = 1
  BY <1>1, <1>11, <1>16, WithDeposits
<1>18. PledgeOf(b, r) = m.deposited_amount
  BY <1>9, <1>11, <1>17 DEF PledgeOf, Live
<1>19. PledgeOf(ob, r) = h.deposited_amount
  BY <1>2, <1>8, <1>14 DEF PledgeOf, Live
<1>20. ASSUME NEW q \in Reserves \ {r}  PROVE PledgeOf(b, q) = PledgeOf(ob, q)
  BY <1>2, <1>8, <1>9, <1>11, <1>17 DEF PledgeOf, Live
<1> QED BY <1>6, <1>10, <1>17, <1>18, <1>19, <1>20

\* What a release leaves of an obligation.
LEMMA ReleaseSound ==
    ASSUME NEW ob, NEW R, NEW s, ObligationSound(ob, R, s),
           NEW r \in DOMAIN ob.deposits, NEW n \in 0..ob.deposits[r].deposited_amount
    PROVE  LET b == Release(ob, r, n)
           IN  /\ ObligationSound(b, R, s) /\ b.owner = ob.owner /\ b.borrows = ob.borrows
               /\ PledgeOf(b, r) = PledgeOf(ob, r) - n
               /\ \A q \in Reserves \ {r} : PledgeOf(b, q) = PledgeOf(ob, q)
<1>1. PICK D : D = DOMAIN ob.deposits
  OBVIOUS
<1>2. PICK ds : ds = ob.deposits
  OBVIOUS
<1>3. /\ IsFiniteSet(D) /\ D \subseteq Reserves /\ ds \in [D -> DepositType]
      /\ \A q \in D : Live(R[q]) /\ (ds[q].market_value # 0 => ds[q].deposited_amount # 0)
      /\ ob.version = 1
  BY <1>1, <1>2 DEF ObligationSound, DepositsSound, ObligationType
<1>4. PICK held \in Nat : held = ds[r].deposited_amount /\ n \in 0..held
  BY <1>1, <1>2, <1>3 DEF DepositType
<1>5. PledgeOf(ob, r) = held
  BY <1>1, <1>2, <1>3, <1>4 DEF PledgeOf, Live
<1>6. PICK b : b = Release(ob, r, n)
  OBVIOUS
<1>7. CASE n = held
  <2>1. PICK e : e = [d \in D \ {r} |-> ds[d]]
    OBVIOUS
  <2>2. b = [ob EXCEPT !.deposits = e]
    BY <1>1, <1>2, <1>4, <1>6, <1>7, <2>1 DEF Release
  <2>3. IsFiniteSet(D \ {r})
    BY <1>3, FS_Subset
  <2>4. DepositsSound(e, R)
    BY <1>3, <2>1, <2>3 DEF DepositsSound
  <2>5. /\ ObligationSound(b, R, s) /\ b.deposits = e /\ b.borrows = ob.borrows
        /\ b.owner = ob.owner /\ b.version = 1
    BY <2>2, <2>4, WithDeposits
  <2>6. PledgeOf(b, r) = 0
    BY <2>1, <2>5 DEF PledgeOf
  <2>7. ASSUME NEW q \in Reserves \ {r}  PROVE PledgeOf(b, q) = PledgeOf(ob, q)
    BY <1>1, <1>2, <1>3, <2>1, <2>5 DEF PledgeOf, Live
  <2> QED BY <1>4, <1>5, <1>6, <1>7, <2>5, <2>6, <2>7
<1>8. CASE n # held
  <2>1. PICK m : m = [ds[r] EXCEPT !.deposited_amount = @ - n]
    OBVIOUS
  <2>2. m \in DepositType /\ m.deposited_amount = held - n /\ m.deposited_amount # 0
    BY <1>1, <1>3, <1>4, <1>8, <2>1 DEF DepositType
  <2>3. PICK e : e = [ds EXCEPT ![r] = m]
    OBVIOUS
  <2>4. b = [ob EXCEPT !.deposits = e]
    BY <1>2, <1>4, <1>6, <1>8, <2>1, <2>3 DEF Release
  <2>5. DepositsSound(e, R)
    BY <1>1, <1>3, <2>2, <2>3 DEF DepositsSound
  <2>6. /\ ObligationSound(b, R, s) /\ b.deposits = e /\ b.borrows = ob.borrows
        /\ b.owner = ob.owner /\ b.version = 1
    BY <2>4, <2>5, WithDeposits
  <2>7. PledgeOf(b, r) = held - n
    BY <1>1, <1>3, <2>2, <2>3, <2>6 DEF PledgeOf, Live
  <2>8. ASSUME NEW q \in Reserves \ {r}  PROVE PledgeOf(b, q) = PledgeOf(ob, q)
    BY <1>1, <1>2, <1>3, <2>3, <2>6 DEF PledgeOf, Live
  <2> QED BY <1>5, <1>6, <2>6, <2>7, <2>8
<1> QED BY <1>7, <1>8

\* A loan adds to the debt to its reserve, or is a new debt.
LEMMA OweSound ==
    ASSUME NEW ob, NEW R, NEW s, ObligationSound(ob, R, s), NEW r \in Reserves, Live(R[r]),
           NEW rate \in Nat, One =< rate, R[r].cumulative_borrow_rate_wads \in Nat,
           rate =< R[r].cumulative_borrow_rate_wads, NEW n \in Nat \ {0}
    PROVE  LET b == Owe(ob, r, rate, n)
           IN  /\ ObligationSound(b, R, s) /\ b.owner = ob.owner /\ b.deposits = ob.deposits
<1>1. PICK bs : bs = ob.borrows
  OBVIOUS
<1>2. DebtsSound(bs, R) /\ bs \in Seq(BorrowType)
  BY <1>1 DEF ObligationSound, DebtsSound
<1>3. PICK b : b = Owe(ob, r, rate, n)
  OBVIOUS
<1>4. CASE BorrowIndex(ob, r) # 0
  <2>1. PICK i \in 1..Len(bs) : i = BorrowIndex(ob, r) /\ bs[i].borrow_reserve = r
    BY <1>1, <1>2, <1>4, BorrowIndexFacts
  <2>2. PICK m : m = [bs[i] EXCEPT !.borrowed_amount_wads = @ + n]
    OBVIOUS
  <2>3. bs[i] \in BorrowType /\ DebtSound(bs[i], R)
    BY <1>2 DEF DebtsSound
  <2>4. m \in BorrowType /\ DebtSound(m, R) /\ m.borrow_reserve = bs[i].borrow_reserve
    BY <2>2, <2>3 DEF BorrowType, DebtSound
  <2>5. b = [ob EXCEPT !.borrows = [bs EXCEPT ![i] = m]]
    BY <1>1, <1>3, <1>4, <2>1, <2>2 DEF Owe
  <2>6. DebtsSound([bs EXCEPT ![i] = m], R)
    BY <1>2, <2>4, ReplaceSound
  <2> QED BY <1>3, <2>5, <2>6, WithBorrows
<1>5. CASE BorrowIndex(ob, r) = 0
  <2>1. PICK m : m = [borrow_reserve |-> r, cumulative_borrow_rate_wads |-> rate,
                      borrowed_amount_wads |-> n, market_value |-> 0]
    OBVIOUS
  <2>2. m \in BorrowType /\ DebtSound(m, R) /\ m.borrow_reserve = r
    BY <2>1 DEF BorrowType, DebtSound
  <2>3. PICK more : more = Append(bs, m)
    OBVIOUS
  <2>4. b = [ob EXCEPT !.borrows = more]
    BY <1>1, <1>3, <1>5, <2>1, <2>3 DEF Owe
  <2>5. DebtsSound(more, R)
    BY <1>1, <1>2, <1>5, <2>2, <2>3, AppendSound, BorrowIndexFacts
  <2> QED BY <1>3, <2>4, <2>5, WithBorrows
<1> QED BY <1>4, <1>5

\* What is paid off is taken from a debt, which goes when nothing is left.
LEMMA PayOffSound ==
    ASSUME NEW ob, NEW R, NEW s, ObligationSound(ob, R, s), NEW i \in 1..Len(ob.borrows),
           NEW n \in 0..ob.borrows[i].borrowed_amount_wads
    PROVE  LET b == PayOff(ob, i, n)
           IN  /\ ObligationSound(b, R, s) /\ b.owner = ob.owner /\ b.deposits = ob.deposits
<1>1. PICK bs : bs = ob.borrows
  OBVIOUS
<1>2. DebtsSound(bs, R) /\ bs \in Seq(BorrowType) /\ i \in 1..Len(bs)
  BY <1>1 DEF ObligationSound, DebtsSound
<1>3. PICK b : b = PayOff(ob, i, n)
  OBVIOUS
<1>4. CASE n = bs[i].borrowed_amount_wads
  <2>1. b = [ob EXCEPT !.borrows = RemoveAt(bs, i)]
    BY <1>1, <1>3, <1>4 DEF PayOff
  <2>2. DebtsSound(RemoveAt(bs, i), R)
    BY <1>2, RemoveSound
  <2> QED BY <1>3, <2>1, <2>2, WithBorrows
<1>5. CASE n # bs[i].borrowed_amount_wads
  <2>1. PICK m : m = [bs[i] EXCEPT !.borrowed_amount_wads = @ - n]
    OBVIOUS
  <2>2. bs[i] \in BorrowType /\ DebtSound(bs[i], R)
    BY <1>2 DEF DebtsSound
  <2>3. m \in BorrowType /\ DebtSound(m, R) /\ m.borrow_reserve = bs[i].borrow_reserve
    BY <1>1, <1>5, <2>1, <2>2 DEF BorrowType, DebtSound
  <2>4. b = [ob EXCEPT !.borrows = [bs EXCEPT ![i] = m]]
    BY <1>1, <1>3, <1>5, <2>1 DEF PayOff
  <2>5. DebtsSound([bs EXCEPT ![i] = m], R)
    BY <1>2, <2>3, ReplaceSound
  <2> QED BY <1>3, <2>4, <2>5, WithBorrows
<1> QED BY <1>4, <1>5

\* Accruing brings a debt to its reserve's rate and does not lower it.
LEMMA AccrueFacts ==
    ASSUME NEW b \in BorrowType, One =< b.cumulative_borrow_rate_wads,
           NEW rate \in Nat, CanAccrue(b, rate)
    PROVE  LET a == Accrue(b, rate)
           IN  /\ a \in BorrowType
               /\ a.borrow_reserve = b.borrow_reserve
               /\ a.cumulative_borrow_rate_wads = rate
               /\ a.market_value = b.market_value
               /\ a.borrowed_amount_wads >= b.borrowed_amount_wads
<1>1. PICK a : a = Accrue(b, rate)
  OBVIOUS
<1>2. PICK old \in Nat : old = b.cumulative_borrow_rate_wads
  BY DEF BorrowType
<1>3. PICK owed \in Nat : owed = b.borrowed_amount_wads
  BY DEF BorrowType
<1>4. old # 0 /\ old =< rate
  BY <1>2, WADAssumption DEF One, CanAccrue
<1>5. CASE rate = old
  BY <1>1, <1>2, <1>3, <1>5 DEF Accrue
<1>6. CASE rate # old
  <2>1. Div(rate, old) \in Nat /\ Div(rate, old) >= WAD
    <3>1. old * WAD =< rate * WAD
      BY <1>4, WADAssumption, ProductMonotone
    <3>2. rate * WAD \in Nat /\ old * WAD \in Nat /\ old * WAD = WAD * old
      BY WADAssumption, ProductNat, SMT
    <3>3. (WAD * old) \div old >= WAD
      <4>1. WAD * old < ((WAD * old) \div old + 1) * old
        <5>1. PICK q \in Nat : q = (WAD * old) \div old /\ WAD * old < q * old + old
          BY <1>4, <3>2, DivFacts
        <5> QED BY <5>1
      <4>2. PICK q \in Nat : q = (WAD * old) \div old
        BY <1>4, <3>2, DivFacts
      <4>3. q < WAD => (q + 1) * old =< WAD * old
        BY <4>2, WADAssumption, ProductMonotone
      <4>4. (q + 1) * old \in Nat
        BY <4>2, ProductNat
      <4> QED BY <3>2, <4>1, <4>2, <4>3, <4>4, WADAssumption
    <3>4. (old * WAD) \div old =< (rate * WAD) \div old
      BY <1>4, <3>1, <3>2, DivMonotone
    <3>5. (rate * WAD) \div old \in Nat
      BY <1>4, <3>2, DivFacts
    <3>6. PICK x \in Nat : x = (rate * WAD) \div old
      BY <3>5
    <3>7. PICK y : y = (WAD * old) \div old /\ y >= WAD
      BY <3>3
    <3>8. (old * WAD) \div old = y
      BY <3>2, <3>7
    <3>9. y \in Nat /\ y =< x
      BY <3>2, <3>4, <3>6, <3>7, <3>8, <1>4, DivFacts
    <3>10. x >= WAD
      BY <3>6, <3>7, <3>9, WADAssumption
    <3> QED BY <3>6, <3>10 DEF Div
  <2>2. PICK f \in Nat : f = Div(rate, old) /\ f >= WAD
    BY <2>1
  <2>3. Mul(owed, f) \in Nat /\ Mul(owed, f) >= owed
    BY <2>2, ProductOfRates
  <2>4. a = [b EXCEPT !.borrowed_amount_wads = Mul(owed, f), !.cumulative_borrow_rate_wads = rate]
    BY <1>1, <1>2, <1>3, <1>6, <2>2 DEF Accrue
  <2>5. PICK p \in Nat : p = Mul(owed, f) /\ p >= owed
    BY <2>3
  <2> QED BY <1>1, <1>3, <2>4, <2>5 DEF BorrowType
<1> QED BY <1>5, <1>6

-----------------------------------------------------------------------------
\* The order of the debts.

\* Being heavier is transitive, and of two debts to different reserves one is
\* heavier.
LEMMA HeavierOrders ==
    ASSUME NEW R, \A r \in Reserves : Live(R[r]) => R[r] \in ReserveType,
           NEW a \in BorrowType, NEW b \in BorrowType, NEW c \in BorrowType,
           Live(R[a.borrow_reserve]), Live(R[b.borrow_reserve]), Live(R[c.borrow_reserve])
    PROVE  /\ Heavier(a, b, R) /\ Heavier(b, c, R) => Heavier(a, c, R)
           /\ a.borrow_reserve # b.borrow_reserve => Heavier(a, b, R) \/ Heavier(b, a, R)
<1>1. /\ a.borrow_reserve \in Reserves /\ b.borrow_reserve \in Reserves
      /\ c.borrow_reserve \in Reserves
  BY DEF BorrowType
<1>2. PICK x \in Nat, y \in Nat, z \in Nat :
          x = a.borrow_reserve /\ y = b.borrow_reserve /\ z = c.borrow_reserve
  BY <1>1, ReservesAssumption
<1>3. /\ R[x].config.added_borrow_weight_bps \in Nat
      /\ R[y].config.added_borrow_weight_bps \in Nat
      /\ R[z].config.added_borrow_weight_bps \in Nat
  BY <1>1, <1>2 DEF ReserveType, ConfigType
<1>4. PICK p \in Nat, q \in Nat, w \in Nat :
          /\ p = R[x].config.added_borrow_weight_bps
          /\ q = R[y].config.added_borrow_weight_bps
          /\ w = R[z].config.added_borrow_weight_bps
  BY <1>3
<1>5. /\ Heavier(a, b, R) <=> (p > q \/ (p = q /\ x > y))
      /\ Heavier(b, c, R) <=> (q > w \/ (q = w /\ y > z))
      /\ Heavier(a, c, R) <=> (p > w \/ (p = w /\ x > z))
      /\ Heavier(b, a, R) <=> (q > p \/ (q = p /\ y > x))
  BY <1>2, <1>4 DEF Heavier
<1> QED BY <1>2, <1>4, <1>5

\* Of some debts, one to each reserve, one is the heaviest.
LEMMA HeaviestExists ==
    ASSUME NEW R, \A r \in Reserves : Live(R[r]) => R[r] \in ReserveType,
           NEW bs, DebtsSound(bs, R), bs # <<>>
    PROVE  \E i \in 1..Len(bs) : \A j \in (1..Len(bs)) \ {i} : Heavier(bs[i], bs[j], R)
<1> DEFINE I == 1..Len(bs)
           Top(U) == \E i \in U : \A j \in U \ {i} : Heavier(bs[i], bs[j], R)
           Topped == {U \in SUBSET I : U = {} \/ Top(U)}
<1>1. bs \in Seq(BorrowType) /\ Len(bs) \in Nat /\ 1 \in I
  BY DEF DebtsSound
<1>2. IsFiniteSet(I)
  BY <1>1, FS_Interval
<1>3. \A i \in I : bs[i] \in BorrowType /\ Live(R[bs[i].borrow_reserve])
  BY <1>1 DEF DebtsSound, DebtSound
<1>4. \A i, j \in I : i # j => Heavier(bs[i], bs[j], R) \/ Heavier(bs[j], bs[i], R)
  BY <1>3, HeavierOrders DEF DebtsSound
<1>5. \A i, j, k \in I :
          Heavier(bs[i], bs[j], R) /\ Heavier(bs[j], bs[k], R) => Heavier(bs[i], bs[k], R)
  BY <1>3, HeavierOrders
<1>6. ASSUME NEW U \in SUBSET I, \A x \in U : U \ {x} \in Topped
      PROVE  U \in Topped
  <2>1. SUFFICES ASSUME U # {}  PROVE Top(U)
    OBVIOUS
  <2>2. PICK x \in U : TRUE
    BY <2>1
  <2>3. CASE U \ {x} = {}
    BY <2>2, <2>3
  <2>4. CASE U \ {x} # {}
    <3>1. Top(U \ {x})
      BY <1>6, <2>2, <2>4
    <3>2. PICK i \in U \ {x} : \A j \in (U \ {x}) \ {i} : Heavier(bs[i], bs[j], R)
      BY <3>1
    <3>3. i \in I /\ x \in I /\ i # x
      BY <2>2, <3>2
    <3> HIDE DEF I
    <3>4. CASE Heavier(bs[i], bs[x], R)
      <4>1. \A j \in U \ {i} : Heavier(bs[i], bs[j], R)
        BY <3>2, <3>4
      <4> QED BY <3>2, <4>1
    <3>5. CASE Heavier(bs[x], bs[i], R)
      <4>1. \A j \in U \ {x} : Heavier(bs[x], bs[j], R)
        BY <1>5, <3>2, <3>3, <3>5
      <4> QED BY <2>2, <4>1
    <3> QED BY <1>4, <3>3, <3>4, <3>5
  <2> QED BY <2>3, <2>4
<1>7. Topped \subseteq SUBSET I
  OBVIOUS
<1>8. I \in Topped
  <2> HIDE DEF Topped
  <2> QED BY <1>2, <1>6, <1>7, SubsetInduction
<1> QED BY <1>1, <1>8

\* The heaviest of a list of sound debts comes to its front, and the list
\* keeps its debts.
LEMMA HeaviestToFrontSound ==
    ASSUME NEW R, \A r \in Reserves : Live(R[r]) => R[r] \in ReserveType,
           NEW bs, DebtsSound(bs, R)
    PROVE  LET led == HeaviestToFront(bs, R)
           IN  /\ DebtsSound(led, R) /\ Len(led) = Len(bs)
               /\ \A i \in 1..Len(led) : \E j \in 1..Len(bs) : led[i] = bs[j]
               /\ \A j \in 1..Len(bs) : \E i \in 1..Len(led) : led[i] = bs[j]
               /\ \A i \in 2..Len(led) : Heavier(led[1], led[i], R)
<1> DEFINE owed == {i \in DOMAIN bs : bs[i].borrowed_amount_wads > 0}
           top  == CHOOSE i \in owed : \A j \in owed \ {i} : Heavier(bs[i], bs[j], R)
           swap == [bs EXCEPT ![1] = bs[top], ![top] = bs[1]]
<1>1. bs \in Seq(BorrowType) /\ Len(bs) \in Nat /\ DOMAIN bs = 1..Len(bs)
  BY DEF DebtsSound
<1>2. owed = 1..Len(bs)
  <2>1. \A i \in 1..Len(bs) : bs[i] \in BorrowType /\ bs[i].borrowed_amount_wads # 0
    BY <1>1 DEF DebtsSound, DebtSound
  <2>2. \A i \in 1..Len(bs) : bs[i].borrowed_amount_wads > 0
    BY <2>1 DEF BorrowType
  <2> QED BY <1>1, <2>2
<1>3. HeaviestToFront(bs, R) = IF owed = {} THEN bs ELSE swap
  BY <1>1, <1>2 DEF HeaviestToFront
<1> HIDE DEF owed
<1>4. CASE bs = <<>>
  <2>1. HeaviestToFront(bs, R) = bs
    BY <1>2, <1>3, <1>4
  <2> QED BY <1>4, <2>1
<1>5. CASE bs # <<>>
  <2>1. 1 \in owed
    BY <1>1, <1>2, <1>5
  <2>2. top \in 1..Len(bs) /\ \A j \in (1..Len(bs)) \ {top} : Heavier(bs[top], bs[j], R)
    BY <1>2, <1>5, HeaviestExists
  <2> HIDE DEF top
  <2>3. PICK led : led = swap
    OBVIOUS
  <2>4. PICK t \in 1..Len(bs) : t = top
    BY <2>2
  <2>5. /\ led \in Seq(BorrowType) /\ Len(led) = Len(bs)
        /\ \A i \in 1..Len(bs) :
              led[i] = bs[IF i = t THEN 1 ELSE IF i = 1 THEN t ELSE i]
    BY <1>1, <2>3, <2>4
  <2>6. PICK n \in Nat : n = Len(bs) /\ 1 \in 1..n /\ t \in 1..n
    BY <1>1, <1>2, <2>1
  <2>7. PICK p : p = [i \in 1..n |-> IF i = t THEN 1 ELSE IF i = 1 THEN t ELSE i]
    OBVIOUS
  <2>8. /\ \A i \in 1..n : p[i] \in 1..n /\ led[i] = bs[p[i]]
        /\ \A i, j \in 1..n : i # j => p[i] # p[j]
        /\ p[1] = t
    BY <2>5, <2>6, <2>7
  <2>9. DebtsSound(led, R)
    BY <2>5, <2>6, <2>8 DEF DebtsSound
  <2>10. ASSUME NEW i \in 2..n  PROVE Heavier(led[1], led[i], R)
    <3>1. i \in 1..n /\ i # 1
      BY <2>6
    <3>2. p[i] \in (1..n) \ {t}
      BY <2>6, <2>8, <3>1
    <3>3. led[1] = bs[t] /\ led[i] = bs[p[i]]
      BY <2>6, <2>8, <3>1
    <3> QED BY <2>2, <2>4, <2>6, <3>2, <3>3
  <2>11. HeaviestToFront(bs, R) = led
    BY <1>3, <2>1, <2>3
  <2>12. \A j \in 1..n : p[j] \in 1..n /\ led[p[j]] = bs[j]
    <3>1. \A j \in 1..n : p[p[j]] = j
      BY <2>6, <2>7
    <3> QED BY <2>8, <3>1
  <2> QED BY <2>5, <2>6, <2>8, <2>9, <2>10, <2>11, <2>12
<1> QED BY <1>4, <1>5

-----------------------------------------------------------------------------
\* Valuations.

\* Every reserve that has been initialised is sound at slot s.
AllSound(R, s) == \A r \in Reserves : Live(R[r]) => Sound(R[r], s)

\* A deposit's value is a natural.
LEMMA CollateralValueNat ==
    ASSUME NEW res \in ReserveType, TotalSupply(res) >= 0, ExchangeRate(res) > 0, NEW n \in Nat
    PROVE  CollateralValue(res, n) \in Nat
<1>1. DecimalCollateralToLiquidity(res, FromInt(n)) \in Nat
  BY ConvertNat
<1> QED BY <1>1, ValueNat DEF CollateralValue

\* A debt accrued and valued by a refresh stays sound and is at its
\* reserve's rate.
LEMMA ValuedSound ==
    ASSUME NEW R, NEW b \in BorrowType, DebtSound(b, R), NEW res \in ReserveType,
           res = R[b.borrow_reserve], CanAccrue(b, res.cumulative_borrow_rate_wads)
    PROVE  LET v == Valued(b, res)
           IN  /\ v \in BorrowType /\ DebtSound(v, R)
               /\ v.borrow_reserve = b.borrow_reserve
               /\ v.cumulative_borrow_rate_wads = res.cumulative_borrow_rate_wads
<1>1. PICK rate \in Nat : rate = res.cumulative_borrow_rate_wads
  BY DEF ReserveType
<1>2. PICK a : a = Accrue(b, rate)
  OBVIOUS
<1>3. /\ a \in BorrowType /\ a.borrow_reserve = b.borrow_reserve
      /\ a.cumulative_borrow_rate_wads = rate
      /\ a.borrowed_amount_wads >= b.borrowed_amount_wads
  BY <1>1, <1>2, AccrueFacts DEF DebtSound
<1>4. PICK w \in Nat : w = MarketValue(res, a.borrowed_amount_wads)
  BY <1>3, ValueNat DEF BorrowType
<1>5. PICK v : v = [a EXCEPT !.market_value = w]
  OBVIOUS
<1>6. Valued(b, res) = v
  BY <1>1, <1>2, <1>4, <1>5 DEF Valued
<1>7. v \in BorrowType /\ v.borrow_reserve = b.borrow_reserve
      /\ v.cumulative_borrow_rate_wads = rate
      /\ v.borrowed_amount_wads = a.borrowed_amount_wads
  BY <1>3, <1>5 DEF BorrowType
<1>8. v.borrowed_amount_wads # 0
  BY <1>3, <1>7 DEF BorrowType, DebtSound
<1>9. One =< rate
  BY <1>1, WADAssumption DEF DebtSound, CanAccrue, BorrowType, One
<1>10. DebtSound(v, R)
  BY <1>1, <1>7, <1>8, <1>9 DEF DebtSound
<1> QED BY <1>1, <1>6, <1>7, <1>10

\* The fields a refresh writes, by name.
Worth(ob, R) ==
    [r \in DOMAIN ob.deposits |-> CollateralValue(R[r], ob.deposits[r].deposited_amount)]
OwedNow(ob, R) ==
    [i \in DOMAIN ob.borrows |-> Valued(ob.borrows[i], R[ob.borrows[i].borrow_reserve])]
Weighted(ob, R) ==
    [i \in DOMAIN ob.borrows |-> Mul(OwedNow(ob, R)[i].market_value,
                                     BorrowWeight(R[OwedNow(ob, R)[i].borrow_reserve]))]
AllowedParts(ob, R) ==
    [r \in DOMAIN ob.deposits |-> Mul(Worth(ob, R)[r],
                                      FromPercent(R[r].config.loan_to_value_ratio))]
UnhealthyParts(ob, R) ==
    [r \in DOMAIN ob.deposits |-> Mul(Worth(ob, R)[r],
                                      FromPercent(R[r].config.liquidation_threshold))]
SuperParts(ob, R) ==
    [r \in DOMAIN ob.deposits |-> Mul(Worth(ob, R)[r],
                                      FromPercent(R[r].config.max_liquidation_threshold))]
ValuedDeposits(ob, R) ==
    [r \in {d \in DOMAIN ob.deposits : ob.deposits[d].deposited_amount > 0} |->
        [ob.deposits[r] EXCEPT !.market_value = Worth(ob, R)[r]]]

\* A refresh as one record update.
LEMMA RefreshFields ==
    ASSUME NEW ob, NEW R, NEW s
    PROVE  RefreshObligation(ob, R, s) =
             [ob EXCEPT
                !.last_update = UpdatedAt(s),
                !.deposits = ValuedDeposits(ob, R),
                !.borrows = HeaviestToFront(OwedNow(ob, R), R),
                !.deposited_value = SumFunctionOnSet(Worth(ob, R), DOMAIN ob.deposits),
                !.borrowed_value = SumFunctionOnSet(Weighted(ob, R), DOMAIN ob.borrows),
                !.allowed_borrow_value =
                    Smaller(SumFunctionOnSet(AllowedParts(ob, R), DOMAIN ob.deposits),
                            FromInt(GLOBAL_ALLOWED)),
                !.unhealthy_borrow_value =
                    Smaller(SumFunctionOnSet(UnhealthyParts(ob, R), DOMAIN ob.deposits),
                            FromInt(GLOBAL_UNHEALTHY)),
                !.super_unhealthy_borrow_value =
                    Smaller(SumFunctionOnSet(SuperParts(ob, R), DOMAIN ob.deposits),
                            FromInt(GLOBAL_UNHEALTHY)),
                !.borrowing_isolated_asset =
                    \E i \in DOMAIN OwedNow(ob, R) :
                        R[OwedNow(ob, R)[i].borrow_reserve].config.reserve_type = "Isolated"]
BY DEF RefreshObligation, SumFunction, Worth, OwedNow, Weighted, AllowedParts, UnhealthyParts,
       SuperParts, ValuedDeposits

\* The sums of a valuation are naturals, and a higher threshold's is no less.
LEMMA ValuationNat ==
    ASSUME NEW ob, NEW R, NEW s \in Nat, ObligationSound(ob, R, s), AllSound(R, s),
           CanRefreshObligation(ob, R, s)
    PROVE  /\ Worth(ob, R) \in [DOMAIN ob.deposits -> Nat]
           /\ SumFunctionOnSet(Worth(ob, R), DOMAIN ob.deposits) \in Nat
           /\ SumFunctionOnSet(AllowedParts(ob, R), DOMAIN ob.deposits) \in Nat
           /\ SumFunctionOnSet(UnhealthyParts(ob, R), DOMAIN ob.deposits) \in Nat
           /\ SumFunctionOnSet(SuperParts(ob, R), DOMAIN ob.deposits) \in Nat
           /\ SumFunctionOnSet(UnhealthyParts(ob, R), DOMAIN ob.deposits)
                =< SumFunctionOnSet(SuperParts(ob, R), DOMAIN ob.deposits)
<1>1. PICK D : D = DOMAIN ob.deposits
  OBVIOUS
<1>2. IsFiniteSet(D) /\ D \subseteq Reserves /\ \A r \in D : Live(R[r])
  BY <1>1 DEF ObligationSound, DepositsSound
<1>3. \A r \in D : Sound(R[r], s)
  BY <1>2 DEF AllSound
<1>4. PICK worth : worth = Worth(ob, R)
  OBVIOUS
<1>5. ASSUME NEW r \in D  PROVE worth[r] \in Nat
  <2>1. ob.deposits[r].deposited_amount \in Nat
    BY <1>1 DEF ObligationSound, DepositsSound, DepositType
  <2>2. TotalSupply(R[r]) >= 0 /\ ExchangeRate(R[r]) > 0
    BY <1>1 DEF CanRefreshObligation
  <2>3. R[r] \in ReserveType
    BY <1>3 DEF Sound
  <2>4. CollateralValue(R[r], ob.deposits[r].deposited_amount) \in Nat
    BY <2>1, <2>2, <2>3, CollateralValueNat
  <2> QED BY <1>1, <1>4, <2>4 DEF Worth
<1>6. worth \in [D -> Nat]
  BY <1>1, <1>4, <1>5 DEF Worth
<1>7. PICK a : a = AllowedParts(ob, R)
  OBVIOUS
<1>8. PICK u : u = UnhealthyParts(ob, R)
  OBVIOUS
<1>9. PICK x : x = SuperParts(ob, R)
  OBVIOUS
<1>10. ASSUME NEW r \in D  PROVE a[r] \in Nat /\ u[r] \in Nat /\ x[r] \in Nat /\ u[r] =< x[r]
  <2>1. PICK w \in Nat : w = worth[r]
    BY <1>5
  <2>2. PICK l \in Nat, t \in Nat, m \in Nat :
            /\ l = R[r].config.loan_to_value_ratio
            /\ t = R[r].config.liquidation_threshold
            /\ m = R[r].config.max_liquidation_threshold
            /\ t =< m
    BY <1>3 DEF Sound, ReserveType, ConfigType, ConsistentConfig
  <2>3. PICK L \in Nat, T \in Nat, M \in Nat :
            L = FromPercent(l) /\ T = FromPercent(t) /\ M = FromPercent(m) /\ T =< M
    BY <2>2, PercentFacts
  <2>4. a[r] = Mul(w, L) /\ u[r] = Mul(w, T) /\ x[r] = Mul(w, M)
    BY <1>1, <1>4, <1>7, <1>8, <1>9, <2>1, <2>2, <2>3
    DEF AllowedParts, UnhealthyParts, SuperParts
  <2>5. Mul(w, T) = Mul(T, w) /\ Mul(w, M) = Mul(M, w)
    <3>1. w * T = T * w /\ w * M = M * w
      BY SMT
    <3> QED BY <3>1 DEF Mul
  <2>6. Mul(T, w) =< Mul(M, w)
    BY <2>3, MulMonotone
  <2>7. Mul(w, L) \in Nat /\ Mul(w, T) \in Nat /\ Mul(w, M) \in Nat
    BY DecimalNat
  <2> QED BY <2>4, <2>5, <2>6, <2>7
<1>11. SumFunctionOnSet(worth, D) \in Nat
  BY <1>2, <1>5, SumNat
<1>12. SumFunctionOnSet(a, D) \in Nat
  BY <1>2, <1>10, SumNat
<1>13. SumFunctionOnSet(u, D) \in Nat
  BY <1>2, <1>10, SumNat
<1>14. SumFunctionOnSet(x, D) \in Nat
  BY <1>2, <1>10, SumNat
<1>15. SumFunctionOnSet(u, D) =< SumFunctionOnSet(x, D)
  <2>1. \A r \in D : u[r] \in Int /\ x[r] \in Int /\ 1 * u[r] =< 1 * x[r]
    BY <1>10
  <2>2. 1 * SumFunctionOnSet(u, D) =< 1 * SumFunctionOnSet(x, D)
    BY <1>2, <2>1, SumScaled
  <2> QED BY <1>13, <1>14, <2>2
<1> QED BY <1>1, <1>4, <1>6, <1>7, <1>8, <1>9, <1>11, <1>12, <1>13, <1>14, <1>15

\* The accrued debts are sound, at the rates of fresh reserves, and their
\* weighted value is a natural.
LEMMA OwedNowSound ==
    ASSUME NEW ob, NEW R, NEW s \in Nat, ObligationSound(ob, R, s), AllSound(R, s),
           CanRefreshObligation(ob, R, s)
    PROVE  /\ DebtsSound(OwedNow(ob, R), R)
           /\ Len(OwedNow(ob, R)) = Len(ob.borrows)
           /\ \A i \in 1..Len(ob.borrows) :
                 LET v == OwedNow(ob, R)[i]
                 IN  /\ R[v.borrow_reserve].last_update.slot = s
                     /\ v.cumulative_borrow_rate_wads =
                            R[v.borrow_reserve].cumulative_borrow_rate_wads
           /\ SumFunctionOnSet(Weighted(ob, R), DOMAIN ob.borrows) \in Nat
<1>1. PICK bs : bs = ob.borrows
  OBVIOUS
<1>2. bs \in Seq(BorrowType) /\ Len(bs) \in Nat /\ DOMAIN bs = 1..Len(bs) /\ DebtsSound(bs, R)
  BY <1>1 DEF ObligationSound, DebtsSound
<1>3. PICK n \in Nat : n = Len(bs)
  BY <1>2
<1>4. PICK owed : owed = OwedNow(ob, R)
  OBVIOUS
<1>5. owed = [i \in 1..n |-> Valued(bs[i], R[bs[i].borrow_reserve])]
  BY <1>1, <1>2, <1>3, <1>4 DEF OwedNow
<1>6. ASSUME NEW i \in 1..n
      PROVE  /\ owed[i] \in BorrowType /\ DebtSound(owed[i], R)
             /\ owed[i].borrow_reserve = bs[i].borrow_reserve
             /\ R[owed[i].borrow_reserve] \in ReserveType
             /\ R[owed[i].borrow_reserve].last_update.slot = s
             /\ owed[i].cumulative_borrow_rate_wads =
                    R[owed[i].borrow_reserve].cumulative_borrow_rate_wads
  <2>1. bs[i] \in BorrowType /\ DebtSound(bs[i], R)
    BY <1>2, <1>3 DEF DebtsSound
  <2>2. bs[i].borrow_reserve \in Reserves
    BY <2>1 DEF BorrowType
  <2>3. PICK res : res = R[bs[i].borrow_reserve]
    OBVIOUS
  <2>4. Sound(res, s)
    BY <2>1, <2>2, <2>3 DEF AllSound, DebtSound
  <2>5. ~IsStale(res, s) /\ CanAccrue(bs[i], res.cumulative_borrow_rate_wads)
    BY <1>1, <1>2, <1>3, <2>3 DEF CanRefreshObligation
  <2>6. res.last_update.slot = s
    BY <2>4, <2>5 DEF Sound, IsStale, ReserveType, UpdateType
  <2>7. owed[i] = Valued(bs[i], res)
    BY <1>5, <2>3
  <2>8. /\ owed[i] \in BorrowType /\ DebtSound(owed[i], R)
        /\ owed[i].borrow_reserve = bs[i].borrow_reserve
        /\ owed[i].cumulative_borrow_rate_wads = res.cumulative_borrow_rate_wads
    BY <2>1, <2>3, <2>4, <2>5, <2>7, ValuedSound DEF Sound
  <2> QED BY <2>3, <2>4, <2>6, <2>8 DEF Sound
<1>7. owed \in Seq(BorrowType) /\ Len(owed) = n
  <2>1. owed \in [1..n -> BorrowType]
    BY <1>5, <1>6
  <2> QED BY <2>1
<1>8. \A i, j \in 1..n : i # j => bs[i].borrow_reserve # bs[j].borrow_reserve
  BY <1>2, <1>3 DEF DebtsSound
<1>9. DebtsSound(owed, R)
  BY <1>6, <1>7, <1>8 DEF DebtsSound
<1>10. PICK w : w = Weighted(ob, R)
  OBVIOUS
<1>11. ASSUME NEW i \in 1..n  PROVE w[i] \in Nat
  <2>1. w[i] = Mul(owed[i].market_value, BorrowWeight(R[owed[i].borrow_reserve]))
    BY <1>1, <1>2, <1>3, <1>4, <1>10 DEF Weighted
  <2>2. BorrowWeight(R[owed[i].borrow_reserve]) \in Nat
    BY <1>6, ValueNat
  <2>3. owed[i].market_value \in Nat
    BY <1>6 DEF BorrowType
  <2> QED BY <2>1, <2>2, <2>3, DecimalNat
<1>12. IsFiniteSet(1..n)
  BY FS_Interval
<1>13. SumFunctionOnSet(w, 1..n) \in Nat
  BY <1>11, <1>12, SumNat
<1> QED BY <1>1, <1>2, <1>3, <1>4, <1>6, <1>7, <1>9, <1>10, <1>13

\* A refreshed obligation is sound and fresh, with the collateral it had and
\* its heaviest debt first.
LEMMA RefreshObligationSound ==
    ASSUME NEW ob, NEW R, NEW s \in Nat, ObligationSound(ob, R, s), AllSound(R, s),
           CanRefreshObligation(ob, R, s)
    PROVE  LET b == RefreshObligation(ob, R, s)
           IN  /\ ObligationSound(b, R, s) /\ DebtsFresh(b, R, s) /\ b.owner = ob.owner
               /\ \A q \in Reserves : PledgeOf(b, q) = PledgeOf(ob, q)
               /\ \A i \in 2..Len(b.borrows) : Heavier(b.borrows[1], b.borrows[i], R)
<1>1. PICK D : D = DOMAIN ob.deposits
  OBVIOUS
<1>2. PICK ds : ds = ob.deposits
  OBVIOUS
<1>3. /\ ob \in ObligationType(D) /\ D \subseteq Reserves /\ IsFiniteSet(D)
      /\ ds \in [D -> DepositType] /\ \A r \in D : Live(R[r])
  BY <1>1, <1>2 DEF ObligationSound, DepositsSound
<1>4. PICK worth \in [D -> Nat] : worth = Worth(ob, R)
  BY <1>1, ValuationNat
<1>5. PICK E : E = {d \in D : ds[d].deposited_amount > 0}
  OBVIOUS
<1>6. PICK e : e = ValuedDeposits(ob, R)
  OBVIOUS
<1>7. e = [r \in E |-> [ds[r] EXCEPT !.market_value = worth[r]]]
  BY <1>1, <1>2, <1>4, <1>5, <1>6 DEF ValuedDeposits
<1>8. ASSUME NEW r \in E
      PROVE  /\ e[r] \in DepositType /\ e[r].deposited_amount = ds[r].deposited_amount
             /\ e[r].deposited_amount # 0
  <2>1. ds[r] \in DepositType /\ worth[r] \in Nat /\ ds[r].deposited_amount > 0
    BY <1>3, <1>4, <1>5
  <2> QED BY <1>7, <2>1 DEF DepositType
<1>9. DepositsSound(e, R)
  <2>1. E \subseteq D /\ IsFiniteSet(E)
    BY <1>3, <1>5, FS_Subset
  <2>2. DOMAIN e = E /\ e \in [E -> DepositType]
    BY <1>7, <1>8
  <2> QED BY <1>3, <1>8, <2>1, <2>2 DEF DepositsSound
<1>10. PICK led : led = HeaviestToFront(OwedNow(ob, R), R)
  OBVIOUS
<1>11. \A r \in Reserves : Live(R[r]) => R[r] \in ReserveType
  BY DEF AllSound, Sound
<1>12. PICK owed : owed = OwedNow(ob, R) /\ DebtsSound(owed, R)
  BY OwedNowSound
<1>13. /\ DebtsSound(led, R)
       /\ \A i \in 1..Len(led) : \E j \in 1..Len(owed) : led[i] = owed[j]
       /\ \A i \in 2..Len(led) : Heavier(led[1], led[i], R)
  <2>1. DebtsSound(owed, R)
    BY <1>12
  <2>2. LET all == HeaviestToFront(owed, R)
        IN  /\ DebtsSound(all, R) /\ Len(all) = Len(owed)
            /\ \A i \in 1..Len(all) : \E j \in 1..Len(owed) : all[i] = owed[j]
            /\ \A j \in 1..Len(owed) : \E i \in 1..Len(all) : all[i] = owed[j]
            /\ \A i \in 2..Len(all) : Heavier(all[1], all[i], R)
    BY ONLY <1>11, <2>1, HeaviestToFrontSound
  <2>3. led = HeaviestToFront(owed, R)
    BY <1>10, <1>12
  <2> QED BY <2>2, <2>3
<1>14. \A j \in 1..Len(owed) : /\ R[owed[j].borrow_reserve].last_update.slot = s
                               /\ owed[j].cumulative_borrow_rate_wads =
                                    R[owed[j].borrow_reserve].cumulative_borrow_rate_wads
  BY <1>12, OwedNowSound
<1>15. PICK value \in Nat : value = SumFunctionOnSet(Worth(ob, R), DOMAIN ob.deposits)
  BY ValuationNat
<1>16. PICK debt \in Nat : debt = SumFunctionOnSet(Weighted(ob, R), DOMAIN ob.borrows)
  BY OwedNowSound
<1>17. PICK allowed \in Nat :
           allowed = Smaller(SumFunctionOnSet(AllowedParts(ob, R), DOMAIN ob.deposits),
                             FromInt(GLOBAL_ALLOWED))
  <2>1. FromInt(GLOBAL_ALLOWED) \in Nat
    BY ObligationAssumption, ConversionNat
  <2> QED BY <2>1, ValuationNat DEF Smaller
<1>18. PICK unhealthy \in Nat, super \in Nat :
           /\ unhealthy = Smaller(SumFunctionOnSet(UnhealthyParts(ob, R), DOMAIN ob.deposits),
                                  FromInt(GLOBAL_UNHEALTHY))
           /\ super = Smaller(SumFunctionOnSet(SuperParts(ob, R), DOMAIN ob.deposits),
                              FromInt(GLOBAL_UNHEALTHY))
           /\ unhealthy =< super
  <2>1. FromInt(GLOBAL_UNHEALTHY) \in Nat
    BY ObligationAssumption, ConversionNat
  <2> QED BY <2>1, ValuationNat DEF Smaller
<1>19. PICK isolated \in BOOLEAN :
           isolated = \E i \in DOMAIN OwedNow(ob, R) :
                        R[OwedNow(ob, R)[i].borrow_reserve].config.reserve_type = "Isolated"
  OBVIOUS
<1>20. PICK up \in UpdateType : up = UpdatedAt(s) /\ up.slot = s
  <2>1. UpdatedAt(s) \in UpdateType /\ UpdatedAt(s).slot = s
    BY DEF UpdatedAt, UpdateType
  <2> QED BY <2>1
<1>21. PICK b : b = RefreshObligation(ob, R, s)
  OBVIOUS
<1>22. b = [ob EXCEPT !.last_update = up, !.deposits = e, !.borrows = led,
                      !.deposited_value = value, !.borrowed_value = debt,
                      !.allowed_borrow_value = allowed, !.unhealthy_borrow_value = unhealthy,
                      !.super_unhealthy_borrow_value = super,
                      !.borrowing_isolated_asset = isolated]
  BY <1>6, <1>10, <1>15, <1>16, <1>17, <1>18, <1>19, <1>20, <1>21, RefreshFields
<1>23. e \in [E -> DepositType] /\ led \in Seq(BorrowType)
  BY <1>7, <1>8, <1>13 DEF DebtsSound
<1>24. b \in ObligationType(E)
  BY <1>3, <1>22, <1>23 DEF ObligationType
<1>25. /\ b.deposits = e /\ b.borrows = led /\ b.last_update = up /\ b.owner = ob.owner
       /\ b.unhealthy_borrow_value = unhealthy /\ b.super_unhealthy_borrow_value = super
       /\ b.version = 1
  BY <1>3, <1>22 DEF ObligationType
<1>26. DOMAIN e = E
  BY <1>7
<1>27. ObligationSound(b, R, s)
  BY <1>9, <1>13, <1>18, <1>20, <1>24, <1>25, <1>26 DEF ObligationSound
<1>28. DebtsFresh(b, R, s)
  BY <1>13, <1>14, <1>25 DEF DebtsFresh
<1>29. ASSUME NEW q \in Reserves  PROVE PledgeOf(b, q) = PledgeOf(ob, q)
  <2>1. ob.version = 1
    BY <1>3 DEF ObligationType
  <2>2. CASE q \in E
    BY <1>1, <1>2, <1>5, <1>8, <1>25, <1>26, <2>1, <2>2 DEF PledgeOf, Live
  <2>3. CASE q \notin E
    <3>1. q \in D => ds[q].deposited_amount = 0
      BY <1>3, <1>5, <2>3 DEF DepositType
    <3> QED BY <1>1, <1>2, <1>25, <1>26, <2>1, <2>3, <3>1 DEF PledgeOf, Live
  <2> QED BY <2>2, <2>3
<1> QED BY <1>13, <1>21, <1>25, <1>27, <1>28, <1>29

-----------------------------------------------------------------------------
\* What a handler does to a reserve it leaves sound.

\* A reserve that follows a sound one is sound.
LEMMA FollowsSound ==
    ASSUME NEW a, NEW b, NEW s \in Nat, Sound(a, s), Follows(a, b, s)
    PROVE  Sound(b, s)
<1>1. a.cumulative_borrow_rate_wads \in Nat /\ b.cumulative_borrow_rate_wads \in Nat
  BY DEF Sound, Follows, ReserveType
<1> QED BY <1>1, WADAssumption DEF Sound, Follows, One

\* Counting an outflow.
LEMMA CountFollows ==
    ASSUME NEW res, slot \in Nat, Sound(res, slot), NEW amount \in Nat
    PROVE  LET b == CountOutflow(res, amount)
           IN  Follows(res, b, slot) /\ b.available_amount = res.available_amount
<1>1. res \in ReserveType /\ res.rate_limiter \in LimiterType
  BY DEF Sound, ReserveType
<1>2. PICK rl \in LimiterType : rl = Updated(res.rate_limiter, slot, amount)
  BY <1>1, UpdatedType
<1>3. PICK b : b = CountOutflow(res, amount)
  OBVIOUS
<1>4. b = [res EXCEPT !.rate_limiter = rl]
  BY <1>2, <1>3 DEF CountOutflow
<1>5. b \in ReserveType /\ Unmoved(res, b) /\ b.available_amount = res.available_amount
  BY <1>1, <1>4 DEF ReserveType, Unmoved
<1> QED BY <1>1, <1>3, <1>5, UnmovedFollows DEF Sound

\* Marking what a handler left stale.
LEMMA MarkedFollows ==
    ASSUME NEW a, NEW b, NEW s \in Nat, Sound(a, s), Follows(a, b, s)
    PROVE  /\ Follows(a, MarkStale(b), s)
           /\ MarkStale(b).available_amount = b.available_amount
<1>1. b \in ReserveType /\ b.last_update.slot =< s
  BY DEF Follows
<1>2. Follows(b, MarkStale(b), s) /\ MarkStale(b).available_amount = b.available_amount
  BY <1>1, MarkStaleFollows
<1> QED BY <1>2, FollowsTransitive DEF Sound

\* A refresh, alone or before the handler's own change.
LEMMA RefreshedSound ==
    ASSUME NEW res, NEW s \in Nat, Sound(res, s)
    PROVE  LET b == RefreshInterest(res, s)
           IN  /\ Follows(res, b, s) /\ Sound(b, s) /\ b.last_update.slot = s
               /\ b.available_amount = res.available_amount
               /\ b.mint_total_supply = res.mint_total_supply
<1>1. /\ res \in ReserveType /\ ConsistentConfig(res.config) /\ res.last_update.slot =< s
      /\ s >= res.last_update.slot
  BY DEF Sound, ReserveType, UpdateType
<1>2. PICK b : b = RefreshInterest(res, s)
  OBVIOUS
<1>3. /\ Follows(res, b, s) /\ b.last_update.slot = s
      /\ b.available_amount = res.available_amount
  BY <1>1, <1>2, RefreshFollows
<1>4. b.mint_total_supply = res.mint_total_supply
  BY <1>1, <1>2, RefreshFacts DEF SameAccounts
<1> QED BY <1>2, <1>3, <1>4, FollowsSound

\* A deposit after a refresh; a redemption with its outflow; a loan with its.
LEMMA DepositHandled ==
    ASSUME NEW res, NEW s \in Nat, Sound(res, s), NEW liq \in Nat, NEW coll \in Nat
    PROVE  LET b == MarkStale(DepositLiquidity(RefreshInterest(res, s), liq, coll))
           IN  Follows(res, b, s) /\ b.available_amount = res.available_amount + liq
<1>1. PICK a : a = RefreshInterest(res, s)
  OBVIOUS
<1>2. Follows(res, a, s) /\ Sound(a, s) /\ a.available_amount = res.available_amount
  BY <1>1, RefreshedSound
<1>3. PICK d : d = DepositLiquidity(a, liq, coll)
  OBVIOUS
<1>4. Follows(a, d, s) /\ d.available_amount = a.available_amount + liq
  BY <1>2, <1>3, DepositFollows DEF Sound
<1>5. Follows(res, d, s)
  BY <1>2, <1>4, FollowsTransitive DEF Sound
<1> QED BY <1>1, <1>2, <1>3, <1>4, <1>5, MarkedFollows

\* A redemption, counted by the limiter or not, pays its liquidity.
LEMMA RedeemHandled ==
    ASSUME NEW res, slot \in Nat, Sound(res, slot), NEW liq \in Nat, NEW coll \in Nat,
           CanRedeem(res, liq, coll), NEW amount \in Nat
    PROVE  LET b == MarkStale(CountOutflow(RedeemCollateral(res, liq, coll), amount))
               c == MarkStale(RedeemCollateral(res, liq, coll))
           IN  /\ Follows(res, b, slot) /\ b.available_amount = res.available_amount - liq
               /\ Follows(res, c, slot) /\ c.available_amount = res.available_amount - liq
<1>1. PICK d : d = RedeemCollateral(res, liq, coll)
  OBVIOUS
<1>2. Follows(res, d, slot) /\ d.available_amount = res.available_amount - liq
  BY <1>1, RedeemFollows DEF Sound
<1>3. Sound(d, slot)
  BY <1>2, FollowsSound
<1>4. PICK e : e = CountOutflow(d, amount)
  OBVIOUS
<1>5. Follows(d, e, slot) /\ e.available_amount = d.available_amount
  BY <1>3, <1>4, CountFollows
<1>6. Follows(res, e, slot)
  BY <1>2, <1>5, FollowsTransitive DEF Sound
<1> QED BY <1>1, <1>2, <1>4, <1>5, <1>6, MarkedFollows

\* A loan pays its whole tokens.
LEMMA LendHandled ==
    ASSUME NEW res, slot \in Nat, Sound(res, slot), NEW amount \in Nat, CanLend(res, amount)
    PROVE  LET b == MarkStale(Lend(CountOutflow(res, amount), amount))
           IN  /\ Follows(res, b, slot)
               /\ b.available_amount = res.available_amount - Floor(amount)
<1>1. PICK d : d = CountOutflow(res, amount)
  OBVIOUS
<1>2. Follows(res, d, slot) /\ d.available_amount = res.available_amount
  BY <1>1, CountFollows
<1>3. Sound(d, slot) /\ CanLend(d, amount)
  BY <1>2, FollowsSound DEF CanLend
<1>4. PICK e : e = Lend(d, amount)
  OBVIOUS
<1>5. Follows(d, e, slot) /\ e.available_amount = d.available_amount - Floor(amount)
  BY <1>3, <1>4, LendFollows DEF Sound
<1>6. Follows(res, e, slot)
  BY <1>2, <1>5, FollowsTransitive DEF Sound
<1> QED BY <1>1, <1>2, <1>4, <1>5, <1>6, MarkedFollows

\* A settlement, forgiveness and the collection of fees.
LEMMA SettleHandled ==
    ASSUME NEW res, NEW s \in Nat, Sound(res, s), NEW repay \in Nat, NEW settle \in Nat
    PROVE  LET b == MarkStale(Settle(res, repay, settle))
           IN  Follows(res, b, s) /\ b.available_amount = res.available_amount + repay
<1>1. PICK d : d = Settle(res, repay, settle)
  OBVIOUS
<1>2. Follows(res, d, s) /\ d.available_amount = res.available_amount + repay
  BY <1>1, SettleFollows DEF Sound
<1> QED BY <1>1, <1>2, MarkedFollows

\* Forgiving moves no liquidity.
LEMMA ForgiveHandled ==
    ASSUME NEW res, NEW s \in Nat, Sound(res, s), NEW amount \in Nat,
           amount =< res.borrowed_amount_wads
    PROVE  LET b == MarkStale(Forgive(res, amount))
           IN  Follows(res, b, s) /\ b.available_amount = res.available_amount
<1>1. PICK d : d = Forgive(res, amount)
  OBVIOUS
<1>2. Follows(res, d, s) /\ d.available_amount = res.available_amount
  BY <1>1, ForgiveFollows DEF Sound
<1> QED BY <1>1, <1>2, MarkedFollows

\* Redeeming the fees pays them.
LEMMA FeesHandled ==
    ASSUME NEW res, NEW s \in Nat, Sound(res, s), NEW amount, amount = RedeemableFees(res)
    PROVE  LET b == MarkStale(RedeemFees(res, amount))
           IN  /\ amount \in Nat
               /\ Follows(res, b, s) /\ b.available_amount = res.available_amount - amount
<1>1. PICK d : d = RedeemFees(res, amount)
  OBVIOUS
<1>2. /\ amount \in Nat /\ Follows(res, d, s)
      /\ d.available_amount = res.available_amount - amount
  BY <1>1, RedeemFeesFollows DEF Sound
<1> QED BY <1>1, <1>2, MarkedFollows

-----------------------------------------------------------------------------
\* The accounts: every reserve and every obligation that has been initialised
\* is sound, and the debts of a fresh obligation are up to date.

\* b is the account a later in the same slot.
Onward(a, b, s) ==
    /\ Sound(b, s)
    /\ b.cumulative_borrow_rate_wads >= a.cumulative_borrow_rate_wads
    /\ a.last_update.slot = s =>
          /\ b.last_update.slot = s
          /\ b.cumulative_borrow_rate_wads = a.cumulative_borrow_rate_wads

\* The reserves Q are the reserves R later in the same slot.
ReservesOnward(R, Q, s) ==
    /\ DOMAIN Q = Reserves
    /\ AllSound(Q, s)
    /\ \A r \in Reserves : Live(R[r]) => Live(Q[r]) /\ Onward(R[r], Q[r], s)

MarketOK(m) ==
    /\ m.owner \in Admins /\ m.risk_authority \in Admins
    /\ m.whitelisted_liquidator \in Users \cup {Anyone}
    /\ m.rate_limiter \in LimiterType
    /\ {"owner", "risk_authority", "whitelisted_liquidator", "rate_limiter"} \subseteq DOMAIN m

ObligationOK(ob, R, s) == ObligationSound(ob, R, s) /\ DebtsFresh(ob, R, s)

Accounts ==
    /\ slot \in 1..MaxSlot
    /\ MarketOK(market)
    /\ DOMAIN reserve = Reserves /\ DOMAIN obligation = Obligations
    /\ AllSound(reserve, slot)
    /\ \A o \in Obligations :
          Live(obligation[o]) => ObligationOK(obligation[o], reserve, slot)

\* What holds of an obligation on the reserves R holds of it on Q.
LEMMA ObligationOnward ==
    ASSUME NEW R, NEW Q, NEW s \in Nat, AllSound(R, s), ReservesOnward(R, Q, s), NEW ob,
           ObligationOK(ob, R, s)
    PROVE  ObligationOK(ob, Q, s)
<1>1. ASSUME NEW b \in BorrowType, DebtSound(b, R)  PROVE DebtSound(b, Q)
  <2>1. PICK r \in Reserves : r = b.borrow_reserve
    BY <1>1 DEF BorrowType
  <2>2. Live(R[r])
    BY <1>1, <2>1 DEF DebtSound
  <2>3. Live(Q[r]) /\ Onward(R[r], Q[r], s) /\ Sound(R[r], s)
    BY <2>2 DEF ReservesOnward, AllSound
  <2>4. PICK x \in Nat, y \in Nat, z \in Nat :
            /\ x = b.cumulative_borrow_rate_wads
            /\ y = R[r].cumulative_borrow_rate_wads
            /\ z = Q[r].cumulative_borrow_rate_wads
            /\ y =< z
    BY <2>3 DEF BorrowType, Onward, Sound, ReserveType
  <2>5. x =< y
    BY <1>1, <2>1, <2>4 DEF DebtSound
  <2> QED BY <1>1, <2>1, <2>3, <2>4, <2>5 DEF DebtSound
<1>2. DebtsSound(ob.borrows, Q)
  BY <1>1 DEF ObligationOK, ObligationSound, DebtsSound
<1>3. DepositsSound(ob.deposits, Q)
  BY DEF ObligationOK, ObligationSound, DepositsSound, ReservesOnward
<1>4. DebtsFresh(ob, Q, s)
  <2> SUFFICES ASSUME ~IsStale(ob, s), NEW i \in 1..Len(ob.borrows)
               PROVE  LET b == ob.borrows[i]
                      IN  /\ Q[b.borrow_reserve].last_update.slot = s
                          /\ b.cumulative_borrow_rate_wads =
                                 Q[b.borrow_reserve].cumulative_borrow_rate_wads
    BY DEF DebtsFresh
  <2>1. PICK b : b = ob.borrows[i]
    OBVIOUS
  <2>2. b \in BorrowType /\ DebtSound(b, R)
    BY <2>1 DEF ObligationOK, ObligationSound, DebtsSound
  <2>3. PICK r \in Reserves : r = b.borrow_reserve
    BY <2>2 DEF BorrowType
  <2>4. Onward(R[r], Q[r], s)
    BY <2>2, <2>3 DEF ReservesOnward, DebtSound
  <2>5. /\ R[r].last_update.slot = s
        /\ b.cumulative_borrow_rate_wads = R[r].cumulative_borrow_rate_wads
    BY <2>1, <2>3 DEF ObligationOK, DebtsFresh
  <2> QED BY <2>1, <2>3, <2>4, <2>5 DEF Onward
<1> QED BY <1>2, <1>3, <1>4 DEF ObligationOK, ObligationSound

\* Reserves that do not change, one that does, and one change after another.
LEMMA SoundOnward ==
    ASSUME NEW a, NEW s \in Nat, Sound(a, s)
    PROVE  Onward(a, a, s)
BY DEF Onward, Sound, ReserveType

\* Following a sound reserve is going onward from it.
LEMMA FollowsOnward ==
    ASSUME NEW a, NEW b, NEW s \in Nat, Sound(a, s), Follows(a, b, s)
    PROVE  Onward(a, b, s)
BY FollowsSound DEF Onward, Follows

\* The reserves unchanged go onward;
LEMMA NoneChanged ==
    ASSUME NEW R, NEW s \in Nat, DOMAIN R = Reserves, AllSound(R, s)
    PROVE  ReservesOnward(R, R, s)
BY SoundOnward DEF ReservesOnward, AllSound

\* so they do when one of them does;
LEMMA OneChanged ==
    ASSUME NEW R, NEW s \in Nat, DOMAIN R = Reserves, AllSound(R, s),
           NEW r \in Reserves, Live(R[r]), NEW X, Onward(R[r], X, s)
    PROVE  ReservesOnward(R, [R EXCEPT ![r] = X], s)
<1>1. X.version = 1 /\ Live(X) /\ Sound(X, s)
  BY DEF Onward, Sound, ReserveType, Live
<1>2. PICK Q : Q = [R EXCEPT ![r] = X]
  OBVIOUS
<1>3. DOMAIN Q = Reserves /\ Q[r] = X /\ \A q \in Reserves \ {r} : Q[q] = R[q]
  BY <1>2
<1>4. AllSound(Q, s)
  BY <1>1, <1>3 DEF AllSound
<1>5. \A q \in Reserves : Live(R[q]) => Live(Q[q]) /\ Onward(R[q], Q[q], s)
  BY <1>1, <1>3, SoundOnward DEF AllSound
<1> QED BY <1>2, <1>3, <1>4, <1>5 DEF ReservesOnward

\* and going onward composes.
LEMMA OneThenAnother ==
    ASSUME NEW R, NEW Q, NEW P, NEW s \in Nat, AllSound(R, s),
           ReservesOnward(R, Q, s), ReservesOnward(Q, P, s)
    PROVE  ReservesOnward(R, P, s)
<1>1. ASSUME NEW r \in Reserves, Live(R[r])  PROVE Live(P[r]) /\ Onward(R[r], P[r], s)
  <2>1. Live(Q[r]) /\ Onward(R[r], Q[r], s)
    BY <1>1 DEF ReservesOnward
  <2>2. Live(P[r]) /\ Onward(Q[r], P[r], s)
    BY <2>1 DEF ReservesOnward
  <2>3. PICK x \in Nat, y \in Nat, z \in Nat :
            /\ x = R[r].cumulative_borrow_rate_wads
            /\ y = Q[r].cumulative_borrow_rate_wads
            /\ z = P[r].cumulative_borrow_rate_wads
    BY <1>1, <2>1, <2>2 DEF AllSound, Onward, Sound, ReserveType
  <2>4. Onward(R[r], P[r], s)
    BY <2>1, <2>2, <2>3 DEF Onward
  <2> QED BY <2>2, <2>4
<1> QED BY <1>1 DEF ReservesOnward

\* The accounts after a step that leaves the obligations alone, and after one
\* that changes one of them.
LEMMA AccountsKept ==
    ASSUME Accounts, slot' = slot, MarketOK(market'), obligation' = obligation,
           ReservesOnward(reserve, reserve', slot)
    PROVE  Accounts'
<1>1. slot \in Nat /\ AllSound(reserve, slot)
  BY AmountsAssumption DEF Accounts
<1>2. \A o \in Obligations :
          Live(obligation[o]) => ObligationOK(obligation[o], reserve', slot)
  BY <1>1, ObligationOnward DEF Accounts
<1>3. DOMAIN reserve' = Reserves /\ AllSound(reserve', slot)
  BY DEF ReservesOnward
<1>4. AllSound(reserve', slot')
  BY <1>3
<1>5. \A o \in Obligations :
          Live(obligation'[o]) => ObligationOK(obligation'[o], reserve', slot')
  BY <1>2
<1> QED BY <1>3, <1>4, <1>5 DEF Accounts

\* The accounts after an instruction that leaves obligation Y at o.
LEMMA AccountsChanged ==
    ASSUME Accounts, slot' = slot, MarketOK(market'), NEW o \in Obligations, NEW Y,
           obligation' = [obligation EXCEPT ![o] = Y],
           ReservesOnward(reserve, reserve', slot), ObligationOK(Y, reserve', slot)
    PROVE  Accounts'
<1>1. slot \in Nat /\ AllSound(reserve, slot)
  BY AmountsAssumption DEF Accounts
<1>2. \A p \in Obligations \ {o} :
          Live(obligation[p]) => ObligationOK(obligation[p], reserve', slot)
  BY <1>1, ObligationOnward DEF Accounts
<1>3. DOMAIN reserve' = Reserves /\ AllSound(reserve', slot)
  BY DEF ReservesOnward
<1>4. AllSound(reserve', slot')
  BY <1>3
<1>5. /\ DOMAIN obligation' = Obligations /\ obligation'[o] = Y
      /\ \A p \in Obligations \ {o} : obligation'[p] = obligation[p]
  BY DEF Accounts
<1>6. \A p \in Obligations :
          Live(obligation'[p]) => ObligationOK(obligation'[p], reserve', slot')
  BY <1>2, <1>5
<1> QED BY <1>3, <1>4, <1>5, <1>6 DEF Accounts

\* A sound live reserve, and an obligation sound on the next reserves.
LEMMA LiveSound ==
    ASSUME Accounts
    PROVE  /\ slot \in Nat
           /\ \A r \in Reserves : Live(reserve[r]) => Sound(reserve[r], slot)
           /\ \A o \in Obligations : Live(obligation[o]) =>
                 /\ ObligationSound(obligation[o], reserve, slot)
                 /\ DebtsFresh(obligation[o], reserve, slot)
BY AmountsAssumption DEF Accounts, AllSound, ObligationOK

\* An obligation is still sound when one reserve has moved on.
LEMMA NextSound ==
    ASSUME Accounts, NEW r \in Reserves, Live(reserve[r]), NEW X, Follows(reserve[r], X, slot),
           reserve' = [reserve EXCEPT ![r] = X],
           NEW o \in Obligations, Live(obligation[o])
    PROVE  ObligationSound(obligation[o], reserve', slot)
<1>1. slot \in Nat /\ AllSound(reserve, slot) /\ DOMAIN reserve = Reserves
  BY AmountsAssumption DEF Accounts
<1>2. Onward(reserve[r], X, slot)
  BY <1>1, FollowsOnward DEF AllSound
<1>3. ReservesOnward(reserve, reserve', slot)
  BY <1>1, <1>2, OneChanged
<1>4. ObligationOK(obligation[o], reserve', slot)
  BY <1>1, <1>3, ObligationOnward DEF Accounts
<1> QED BY <1>4 DEF ObligationOK

-----------------------------------------------------------------------------
\* What the handlers compute from sound accounts.

\* Tokens minted by a deposit into a refreshed reserve.
LEMMA MintedNat ==
    ASSUME NEW res, NEW s \in Nat, Sound(res, s), NEW n \in Nat, TotalSupply(res) >= 0
    PROVE  LiquidityToCollateral(res, n) \in Nat
BY ConvertNat DEF Sound

\* Liquidity paid out for collateral.
LEMMA PaidNat ==
    ASSUME NEW res, NEW s \in Nat, Sound(res, s), NEW coll \in Nat, CanPay(res, coll)
    PROVE  LET liq == CollateralToLiquidity(res, coll)
           IN  liq \in Nat /\ CanRedeem(res, liq, coll)
BY ConvertNat DEF Sound, CanPay

\* What the limiters leave to flow out is a natural.
LEMMA OutflowCapNat ==
    ASSUME Accounts, NEW res, Sound(res, slot), NEW value \in Nat
    PROVE  OutflowCap(res, value) \in Nat
<1>1. slot \in Nat /\ market.rate_limiter \in LimiterType
  BY LiveSound DEF Accounts, MarketOK
<1>2. res \in ReserveType /\ res.rate_limiter \in LimiterType
  BY DEF Sound, ReserveType
<1>3. FromInt(U64_MAX) \in Nat
  BY AmountsAssumption, ConversionNat
<1>4. PICK a \in Nat : a = RemainingOutflow(market.rate_limiter, slot, FromInt(U64_MAX))
  BY <1>1, <1>3, RemainingNat
<1>5. PICK b \in Nat : b = RemainingOutflow(res.rate_limiter, slot, FromInt(U64_MAX))
  BY <1>1, <1>2, <1>3, RemainingNat
<1>6. Smaller(a, value) \in Nat
  BY DEF Smaller
<1>7. PICK c \in Nat : c = ValueToLiquidity(res, Smaller(a, value))
  BY <1>2, <1>6, ValueNat
<1>8. OutflowCap(res, value) = Smaller(c, b)
  BY <1>4, <1>5, <1>7 DEF OutflowCap
<1> QED BY <1>8 DEF Smaller

\* A withdrawal takes at most what is held.
LEMMA MaxWithdrawBounded ==
    ASSUME NEW ob, ob.allowed_borrow_value \in Nat, ob.borrowed_value \in Nat,
           NEW res \in ReserveType, TotalSupply(res) >= 0, NEW held \in Nat
    PROVE  MaxWithdraw(ob, res, held) \in 0..held
<1> DEFINE ltv   == FromPercent(res.config.loan_to_value_ratio)
           left  == ob.allowed_borrow_value - ob.borrowed_value
           value == Div(left, ltv)
           most  == Floor(Mul(ValueToLiquidity(res, value), ExchangeRate(res)))
<1>1. ltv \in Nat
  BY PercentFacts DEF ReserveType, ConfigType
<1>2. ExchangeRate(res) \in Nat
  BY ExchangeRateNat
<1>3. ASSUME left \in Nat, ltv # 0  PROVE most \in Nat
  <2>1. value \in Nat
    BY <1>1, <1>3, DecimalNat
  <2> HIDE DEF value
  <2>2. ValueToLiquidity(res, value) \in Nat
    BY <2>1, ValueNat
  <2>3. Mul(ValueToLiquidity(res, value), ExchangeRate(res)) \in Nat
    BY <1>2, <2>2, DecimalNat
  <2> QED BY <2>3, DecimalNat
<1>4. MaxWithdraw(ob, res, held) =
          IF ob.borrows = <<>> THEN held
          ELSE IF ob.allowed_borrow_value =< ob.borrowed_value THEN 0
          ELSE IF ltv = 0 THEN held ELSE Smaller(most, held)
  BY DEF MaxWithdraw
<1>5. ob.allowed_borrow_value =< ob.borrowed_value \/ left \in Nat
  OBVIOUS
<1> HIDE DEF ltv, left, value, most
<1> QED BY <1>3, <1>4, <1>5 DEF Smaller

\* A withdrawal takes at most what is deposited.
LEMMA WithdrawFacts ==
    ASSUME Accounts, NEW o \in Obligations, NEW r \in Reserves, CanWithdraw(o, r),
           NEW asked \in Nat, NEW limited \in BOOLEAN
    PROVE  /\ Live(obligation[o]) /\ Live(reserve[r]) /\ r \in DOMAIN obligation[o].deposits
           /\ Withdrawable(obligation[o], r, asked, limited)
                 \in 0..obligation[o].deposits[r].deposited_amount
<1>1. PICK ob : ob = obligation[o]
  OBVIOUS
<1>2. PICK res : res = reserve[r]
  OBVIOUS
<1>3. /\ Live(ob) /\ Live(res) /\ r \in DOMAIN ob.deposits /\ TotalSupply(res) >= 0
  BY <1>1, <1>2 DEF CanWithdraw, Fresh
<1>4. Sound(res, slot) /\ ObligationSound(ob, reserve, slot)
  BY <1>1, <1>2, <1>3, LiveSound
<1>5. PICK held \in Nat : held = ob.deposits[r].deposited_amount
  BY <1>3, <1>4 DEF ObligationSound, DepositsSound, DepositType
<1>6. /\ ob.allowed_borrow_value \in Nat /\ ob.borrowed_value \in Nat
      /\ 2 * ob.deposited_value \in Nat
  BY <1>4 DEF ObligationSound, ObligationType
<1>7. res \in ReserveType
  BY <1>4 DEF Sound
<1>8. PICK most \in 0..held : most = MaxWithdraw(ob, res, held)
  BY <1>3, <1>6, <1>7, MaxWithdrawBounded
<1>9. PICK flow \in Nat : flow = Floor(Mul(OutflowCap(res, 2 * ob.deposited_value), ExchangeRate(res)))
  <2>1. OutflowCap(res, 2 * ob.deposited_value) \in Nat
    BY <1>4, <1>6, OutflowCapNat
  <2>2. ExchangeRate(res) \in Nat
    BY <1>3, <1>7, ExchangeRateNat
  <2>3. Mul(OutflowCap(res, 2 * ob.deposited_value), ExchangeRate(res)) \in Nat
    BY <2>1, <2>2, DecimalNat
  <2> QED BY <2>3, DecimalNat
<1>10. Withdrawable(ob, r, asked, limited) =
           Smaller(asked, Smaller(most, IF limited THEN flow ELSE U64_MAX))
  BY <1>2, <1>5, <1>8, <1>9 DEF Withdrawable
<1>11. Withdrawable(ob, r, asked, limited) \in 0..held
  BY <1>10, AmountsAssumption DEF Smaller
<1> QED BY <1>1, <1>2, <1>3, <1>5, <1>11

\* A loan: what leaves the vault is what the borrower receives and the fee.
LEMMA LoanFacts ==
    ASSUME Accounts, NEW o \in Obligations, NEW r \in Reserves, NEW asked \in Nat, NEW hosted,
           Borrow(o, r, asked, hosted)
    PROVE  LET loan == LoanOf(obligation[o], reserve[r], asked)
           IN  /\ Live(obligation[o]) /\ Live(reserve[r])
               /\ loan.amount \in Nat \ {0} /\ loan.receive \in Nat
               /\ loan.fees.total \in Nat /\ loan.fees.host \in Nat
               /\ Floor(loan.amount) = loan.receive + loan.fees.total
<1>1. PICK ob : ob = obligation[o]
  OBVIOUS
<1>2. PICK res : res = reserve[r]
  OBVIOUS
<1>3. PICK loan : loan = LoanOf(ob, res, asked)
  OBVIOUS
<1>4. Live(ob) /\ Live(res) /\ loan.ok /\ loan.receive # 0
  BY <1>1, <1>2, <1>3 DEF Borrow, Fresh
<1>5. Sound(res, slot) /\ ObligationSound(ob, reserve, slot)
  BY <1>1, <1>2, <1>4, LiveSound
<1>6. res \in ReserveType
  BY <1>5 DEF Sound
<1>7. PICK value \in Nat : value = RemainingBorrowValue(ob)
  <2>1. ob.allowed_borrow_value \in Nat /\ ob.borrowed_value \in Nat
    BY <1>5 DEF ObligationSound, ObligationType
  <2>2. RemainingBorrowValue(ob) \in Nat
    BY <2>1 DEF RemainingBorrowValue, Larger
  <2> QED BY <2>2
<1>8. PICK capacity \in Nat :
          capacity = Larger(0, FromInt(res.config.borrow_limit) - res.borrowed_amount_wads)
  <2>1. FromInt(res.config.borrow_limit) \in Nat
    BY <1>6, ConversionNat DEF ReserveType, ConfigType
  <2>2. res.borrowed_amount_wads \in Nat
    BY <1>6 DEF ReserveType
  <2>3. Larger(0, FromInt(res.config.borrow_limit) - res.borrowed_amount_wads) \in Nat
    BY <2>1, <2>2 DEF Larger
  <2> QED BY <2>3
<1>9. PICK most \in Nat : most = Smaller(capacity, OutflowCap(res, value))
  <2>1. OutflowCap(res, value) \in Nat
    BY <1>5, OutflowCapNat
  <2>2. Smaller(capacity, OutflowCap(res, value)) \in Nat
    BY <2>1 DEF Smaller
  <2> QED BY <2>2
<1>10. loan = IF asked = U64_MAX THEN MaxBorrow(res, value, most)
              ELSE ExactBorrow(res, asked, value)
  BY <1>3, <1>7, <1>8, <1>9 DEF LoanOf
<1>11. /\ loan.amount \in Nat /\ loan.receive \in Nat
       /\ loan.fees.total \in Nat /\ loan.fees.host \in Nat
       /\ Floor(loan.amount) = loan.receive + loan.fees.total
  BY <1>4, <1>6, <1>10, MaxBorrowFacts, ExactBorrowFacts
<1>12. loan.amount # 0
  <2>1. loan.amount = 0 => Floor(loan.amount) = 0
    BY WADAssumption DEF Floor
  <2> QED BY <1>4, <1>11, <2>1
<1> QED BY <1>1, <1>2, <1>3, <1>4, <1>11, <1>12

\* A repayment: a part of the debt accrued, and whole tokens that cover it.
LEMMA RepayFacts ==
    ASSUME Accounts, NEW o \in Obligations, NEW r \in Reserves, NEW asked \in Nat, NEW u,
           Repay(u, o, r, asked),
           NEW ob, ob = obligation[o], NEW i, i = BorrowIndex(ob, r),
           NEW res, res = RefreshInterest(reserve[r], slot),
           NEW debt, debt = Accrue(ob.borrows[i], res.cumulative_borrow_rate_wads),
           NEW settle, settle = IF asked = U64_MAX THEN debt.borrowed_amount_wads
                                ELSE Smaller(FromInt(asked), debt.borrowed_amount_wads)
    PROVE  /\ Live(ob) /\ Live(reserve[r]) /\ i \in 1..Len(ob.borrows)
           /\ ob.borrows[i] \in BorrowType /\ ob.borrows[i].borrow_reserve = r
           /\ debt \in BorrowType /\ debt.borrow_reserve = r
           /\ debt.borrowed_amount_wads # 0
           /\ debt.cumulative_borrow_rate_wads = res.cumulative_borrow_rate_wads
           /\ One =< debt.cumulative_borrow_rate_wads
           /\ settle \in 0..debt.borrowed_amount_wads /\ Ceil(settle) \in Nat
<1>1. /\ Live(ob) /\ Live(reserve[r]) /\ i # 0
      /\ CanAccrue(ob.borrows[i], res.cumulative_borrow_rate_wads)
  BY DEF Repay
<1>2. ObligationSound(ob, reserve, slot) /\ Sound(reserve[r], slot) /\ slot \in Nat
  BY <1>1, LiveSound
<1>3. Sound(res, slot)
  BY <1>2, RefreshedSound
<1>4. /\ ob.borrows \in Seq(BorrowType) /\ DebtsSound(ob.borrows, reserve)
  BY <1>2 DEF ObligationSound, DebtsSound
<1>5. i \in 1..Len(ob.borrows) /\ ob.borrows[i].borrow_reserve = r
  BY <1>1, <1>4, BorrowIndexFacts
<1>6. PICK b \in BorrowType : b = ob.borrows[i] /\ DebtSound(b, reserve)
  BY <1>4, <1>5 DEF DebtsSound
<1>7. PICK rate \in Nat : rate = res.cumulative_borrow_rate_wads /\ One =< rate
  BY <1>3, WADAssumption DEF Sound, ReserveType, One
<1>8. /\ debt \in BorrowType /\ debt.borrow_reserve = r
       /\ debt.cumulative_borrow_rate_wads = rate
       /\ debt.borrowed_amount_wads >= b.borrowed_amount_wads
  BY <1>1, <1>5, <1>6, <1>7, AccrueFacts DEF DebtSound
<1>9. PICK owed \in Nat : owed = debt.borrowed_amount_wads
  BY <1>8 DEF BorrowType
<1>10. owed # 0
  <2>1. PICK before \in Nat : before = b.borrowed_amount_wads /\ before # 0
    BY <1>6 DEF DebtSound, BorrowType
  <2>2. owed >= before
    BY <1>8, <1>9, <2>1
  <2> QED BY <1>9, <2>1, <2>2
<1>11. settle = IF asked = U64_MAX THEN owed ELSE Smaller(FromInt(asked), owed)
  BY <1>9
<1>12. settle \in 0..owed /\ settle \in Nat
  <2>1. FromInt(asked) \in Nat
    BY ConversionNat
  <2> QED BY <1>11, <2>1 DEF Smaller
<1>13. Ceil(settle) \in Nat
  BY <1>12, DecimalNat
<1> QED BY <1>1, <1>5, <1>6, <1>7, <1>8, <1>9, <1>10, <1>11,
           <1>12, <1>13

\* A liquidation: parts of a debt and of a deposit, and of what is withdrawn
\* as much as the collateral's reserve, refreshed after the repayment, can
\* redeem.
LEMMA LiquidateFacts ==
    ASSUME Accounts, NEW o \in Obligations, NEW debt \in Reserves, NEW coll \in Reserves,
           NEW asked \in Nat, CanLiquidate(o, debt, coll)
    PROVE  LET ob   == obligation[o]
               i    == BorrowIndex(ob, debt)
               part == LiquidationOf(ob, i, coll, asked)
           IN  /\ Live(ob) /\ Live(reserve[debt]) /\ Live(reserve[coll])
               /\ i \in 1..Len(ob.borrows) /\ coll \in DOMAIN ob.deposits
               /\ part.settle \in 0..ob.borrows[i].borrowed_amount_wads
               /\ part.withdraw \in 0..ob.deposits[coll].deposited_amount
               /\ part.repay \in Nat /\ part.settle \in Nat /\ part.withdraw \in Nat
               /\ BonusRate(reserve[coll], ob) \in Nat
               /\ BonusRate(reserve[coll], ob) >= WAD
<1>1. PICK ob : ob = obligation[o]
  OBVIOUS
<1>2. PICK i : i = BorrowIndex(ob, debt)
  OBVIOUS
<1>3. PICK res : res = reserve[coll]
  OBVIOUS
<1>4. /\ Live(ob) /\ Live(reserve[debt]) /\ Live(res) /\ i = 1
      /\ ob.borrows[1].market_value # 0 /\ coll \in DOMAIN ob.deposits
      /\ ob.deposits[coll].market_value # 0
      /\ ob.borrowed_value >= ob.unhealthy_borrow_value
  BY <1>1, <1>2, <1>3 DEF CanLiquidate, Fresh, Liquidatable, Unhealthy
<1>5. ObligationSound(ob, reserve, slot) /\ Sound(res, slot)
  BY <1>1, <1>3, <1>4, LiveSound
<1>6. i \in 1..Len(ob.borrows)
  <2>1. ob.borrows \in Seq(BorrowType)
    BY <1>5 DEF ObligationSound, DebtsSound
  <2>2. BorrowIndex(ob, debt) # 0
    BY <1>2, <1>4
  <2> QED BY <1>2, <2>1, <2>2, BorrowIndexFacts
<1>7. PICK b \in BorrowType : b = ob.borrows[i] /\ DebtSound(b, reserve)
  BY <1>5, <1>6 DEF ObligationSound, DebtsSound
<1>8. PICK owed \in Nat \ {0}, worth \in Nat \ {0} :
          owed = b.borrowed_amount_wads /\ worth = b.market_value
  BY <1>4, <1>7 DEF BorrowType, DebtSound
<1>9. PICK d \in DepositType : d = ob.deposits[coll]
  BY <1>4, <1>5 DEF ObligationSound, DepositsSound
<1>10. d \in [deposited_amount : Nat, market_value : Nat \ {0}] /\ d.deposited_amount # 0
  BY <1>4, <1>5, <1>9 DEF ObligationSound, DepositsSound, DepositType
<1>11. /\ ob.borrowed_value \in Nat /\ ob.unhealthy_borrow_value \in Nat
       /\ ob.super_unhealthy_borrow_value \in Nat
       /\ ob.unhealthy_borrow_value =< ob.super_unhealthy_borrow_value
       /\ ob.unhealthy_borrow_value =< ob.borrowed_value
  BY <1>4, <1>5 DEF ObligationSound, ObligationType
<1>12. res \in ReserveType /\ ConsistentConfig(res.config)
  BY <1>5 DEF Sound
<1>13. BonusRate(res, ob) \in Nat /\ BonusRate(res, ob) >= WAD
  BY <1>11, <1>12, BonusFacts
<1>14. PICK closable \in Nat : closable = MaxLiquidation(ob, b)
  <2>1. PICK close \in Nat : close = FromPercent(LIQUIDATION_CLOSE_FACTOR)
    BY ObligationAssumption, PercentFacts
  <2>2. PICK most \in Nat : most = FromInt(MAX_LIQUIDATABLE_VALUE_AT_ONCE)
    BY ObligationAssumption, ConversionNat
  <2>3. PICK p \in Nat : p = Mul(ob.borrowed_value, close)
    BY <1>11, DecimalNat
  <2>4. PICK value \in Nat : value = Smaller(Smaller(p, worth), most)
    <3>1. Smaller(Smaller(p, worth), most) \in Nat
      BY DEF Smaller
    <3> QED BY <3>1
  <2>5. PICK f \in Nat : f = Div(value, worth)
    BY DecimalNat
  <2>6. MaxLiquidation(ob, b) = Mul(owed, f)
    BY <1>8, <2>1, <2>2, <2>3, <2>4, <2>5 DEF MaxLiquidation
  <2> QED BY <2>6, DecimalNat
<1>15. PICK amount \in Nat : amount = FromInt(asked)
  BY ConversionNat
<1>16. PICK part : part = Liquidation(res, ob, b, d, amount, closable)
  OBVIOUS
<1>17. part = LiquidationOf(ob, i, coll, asked)
  BY <1>3, <1>7, <1>9, <1>14, <1>15, <1>16 DEF LiquidationOf
<1>18. /\ part.settle \in 0..b.borrowed_amount_wads
       /\ part.withdraw \in 0..d.deposited_amount
       /\ part.repay = Ceil(part.settle)
  <2>1. Takeable(res, ob, b, d)
    BY <1>8, <1>10, <1>13 DEF Takeable
  <2> QED BY <1>16, <2>1, LiquidationFacts
<1>19. part.settle \in Nat /\ part.withdraw \in Nat
  BY <1>8, <1>10, <1>18
<1>20. part.repay \in Nat
  BY <1>18, <1>19, DecimalNat
<1> QED BY <1>1, <1>2, <1>3, <1>4, <1>6, <1>7, <1>9, <1>13, <1>17, <1>18, <1>19, <1>20

\* The reserve of the collateral after the repayment and a refresh, and the
\* collateral redeemed from it.
LEMMA RedeemedFacts ==
    ASSUME Accounts, NEW debt \in Reserves, NEW coll \in Reserves, Live(reserve[debt]),
           Live(reserve[coll]), NEW repay \in Nat, NEW settle \in Nat, NEW withdraw \in Nat
    PROVE  LET repaid   == [reserve EXCEPT ![debt] = MarkStale(Settle(@, repay, settle))]
               res      == RefreshInterest(repaid[coll], slot)
               redeemed == Smaller(withdraw, LiquidityToCollateral(res, res.available_amount))
               liq      == CollateralToLiquidity(res, redeemed)
           IN  /\ ReservesOnward(reserve, repaid, slot)
               /\ repaid[debt].available_amount = reserve[debt].available_amount + repay
               /\ \A r \in Reserves \ {debt} : repaid[r] = reserve[r]
               /\ Live(repaid[coll]) /\ Follows(repaid[coll], res, slot) /\ Sound(res, slot)
               /\ res.available_amount = repaid[coll].available_amount
               /\ TotalSupply(res) >= 0 =>
                     /\ redeemed \in 0..withdraw /\ redeemed \in Nat
                     /\ CanPay(res, redeemed) => liq \in Nat /\ CanRedeem(res, liq, redeemed)
<1>1. slot \in Nat /\ Sound(reserve[debt], slot) /\ AllSound(reserve, slot)
      /\ DOMAIN reserve = Reserves
  BY LiveSound DEF Accounts
<1>2. PICK X : X = MarkStale(Settle(reserve[debt], repay, settle))
  OBVIOUS
<1>3. /\ Follows(reserve[debt], X, slot)
      /\ X.available_amount = reserve[debt].available_amount + repay
  BY <1>1, <1>2, SettleHandled
<1>4. PICK repaid : repaid = [reserve EXCEPT ![debt] = X]
  OBVIOUS
<1>5. ReservesOnward(reserve, repaid, slot)
  BY <1>1, <1>3, <1>4, FollowsOnward, OneChanged
<1>6. repaid[debt] = X /\ \A r \in Reserves \ {debt} : repaid[r] = reserve[r]
  BY <1>1, <1>4
<1>7. Live(repaid[coll]) /\ Sound(repaid[coll], slot)
  BY <1>5 DEF ReservesOnward, Onward
<1>8. PICK res : res = RefreshInterest(repaid[coll], slot)
  OBVIOUS
<1>9. /\ Follows(repaid[coll], res, slot) /\ Sound(res, slot)
      /\ res.available_amount = repaid[coll].available_amount
  BY <1>1, <1>7, <1>8, RefreshedSound
<1>10. PICK redeemed : redeemed = Smaller(withdraw, LiquidityToCollateral(res, res.available_amount))
  OBVIOUS
<1>11. PICK liq : liq = CollateralToLiquidity(res, redeemed)
  OBVIOUS
<1>12. ASSUME TotalSupply(res) >= 0
       PROVE  /\ redeemed \in 0..withdraw /\ redeemed \in Nat
              /\ CanPay(res, redeemed) => liq \in Nat /\ CanRedeem(res, liq, redeemed)
  <2>1. res.available_amount \in Nat
    BY <1>9 DEF Sound, ReserveType
  <2>2. PICK n \in Nat : n = LiquidityToCollateral(res, res.available_amount)
    BY <1>1, <1>9, <1>12, <2>1, MintedNat
  <2>3. redeemed \in 0..withdraw /\ redeemed \in Nat
    BY <1>10, <2>2 DEF Smaller
  <2> QED BY <1>1, <1>9, <1>11, <2>3, PaidNat
<1> QED BY <1>2, <1>3, <1>4, <1>5, <1>6, <1>7, <1>8, <1>9, <1>10, <1>11, <1>12

-----------------------------------------------------------------------------
\* Every handler leaves the accounts sound.

\* The market after an outflow, and one whose limiter did not move.
LEMMA MarketAfterOK ==
    ASSUME Accounts, NEW res, Sound(res, slot), NEW amount \in Nat
    PROVE  MarketOK(MarketAfter(res, amount))
<1>1. slot \in Nat /\ MarketOK(market) /\ res \in ReserveType
  BY LiveSound DEF Accounts, Sound
<1>2. MarketValue(res, amount) \in Nat
  BY <1>1, ValueNat
<1>3. PICK rl \in LimiterType : rl = Updated(market.rate_limiter, slot, MarketValue(res, amount))
  BY <1>1, <1>2, UpdatedType DEF MarketOK
<1>4. MarketAfter(res, amount) = [market EXCEPT !.rate_limiter = rl]
  BY <1>3 DEF MarketAfter
<1> QED BY <1>1, <1>3, <1>4 DEF MarketOK

\* No account is live at first.
LEMMA AccountsInit == Init => Accounts
<1> SUFFICES ASSUME Init PROVE Accounts
  OBVIOUS
<1>1. slot = 1 /\ slot \in 1..MaxSlot
  BY AmountsAssumption DEF Init
<1>2. MarketOK(market)
  <2>1. New(MarketLimits, 1) \in LimiterType
    BY LimitsAssumption, NewLimiterType
  <2> QED BY <2>1 DEF Init, MarketOK
<1>3. /\ DOMAIN reserve = Reserves /\ DOMAIN obligation = Obligations
      /\ \A r \in Reserves : ~Live(reserve[r])
      /\ \A o \in Obligations : ~Live(obligation[o])
  BY DEF Init, Blank, Live
<1> QED BY <1>1, <1>2, <1>3 DEF Accounts, AllSound

\* A new obligation has nothing and is sound.
LEMMA InitObligationAccounts ==
    ASSUME Accounts, NEW o \in Obligations, InitObligation(o)
    PROVE  Accounts'
<1>1. PICK Y : Y = NewObligation(slot, OwnerOf[o])
  OBVIOUS
<1>2. slot \in Nat /\ OwnerOf[o] \in Users
  BY LiveSound, AccountsAssumption
<1>3. /\ obligation' = [obligation EXCEPT ![o] = Y]
      /\ slot' = slot /\ market' = market /\ reserve' = reserve
  BY <1>1 DEF InitObligation
<1>4. PICK none : none = [r \in {} |-> 0]
  OBVIOUS
<1>5. PICK up \in UpdateType : up = NewUpdate(slot) /\ up.slot = slot /\ up.stale = TRUE
  <2>1. NewUpdate(slot) \in UpdateType /\ NewUpdate(slot).slot = slot /\ NewUpdate(slot).stale = TRUE
    BY <1>2 DEF NewUpdate, UpdateType
  <2> QED BY <2>1
<1>6. none \in [{} -> DepositType] /\ DOMAIN none = {}
  BY <1>4
<1>7. Y \in ObligationType({})
  BY <1>1, <1>2, <1>4, <1>5, <1>6 DEF NewObligation, ObligationType
<1>8. /\ Y.deposits = none /\ Y.borrows = <<>> /\ Y.last_update = up
      /\ Y.unhealthy_borrow_value = 0 /\ Y.super_unhealthy_borrow_value = 0
  BY <1>1, <1>4, <1>5 DEF NewObligation
<1>9. DepositsSound(Y.deposits, reserve)
  BY <1>6, <1>8, FS_EmptySet DEF DepositsSound
<1>10. DebtsSound(Y.borrows, reserve)
  BY <1>8 DEF DebtsSound
<1>11. ObligationSound(Y, reserve, slot)
  BY <1>2, <1>5, <1>6, <1>7, <1>8, <1>9, <1>10 DEF ObligationSound
<1>12. ObligationOK(Y, reserve', slot)
  BY <1>3, <1>5, <1>8, <1>11 DEF ObligationOK, DebtsFresh, IsStale
<1>13. ReservesOnward(reserve, reserve', slot) /\ MarketOK(market')
  BY <1>2, <1>3, NoneChanged DEF Accounts
<1> QED BY <1>3, <1>12, <1>13, AccountsChanged

\* The clock ages every account.
LEMMA TickAccounts ==
    ASSUME Accounts, Tick
    PROVE  Accounts'
<1>1. /\ slot \in 1..MaxSlot /\ slot < MaxSlot /\ slot' = slot + 1
      /\ market' = market /\ reserve' = reserve /\ obligation' = obligation
  BY DEF Tick, Accounts
<1>2. slot' \in 1..MaxSlot /\ slot \in Nat /\ slot' \in Nat
  BY <1>1, AmountsAssumption
<1>3. ASSUME NEW r \in Reserves, Live(reserve'[r])  PROVE Sound(reserve'[r], slot')
  BY <1>1, <1>2, <1>3, LiveSound DEF Sound, ReserveType, UpdateType
<1>4. ASSUME NEW o \in Obligations, Live(obligation'[o])
      PROVE  ObligationOK(obligation'[o], reserve', slot')
  <2>1. PICK ob : ob = obligation[o]
    OBVIOUS
  <2>2. ObligationSound(ob, reserve, slot)
    BY <1>1, <1>4, <2>1, LiveSound
  <2>3. ob.last_update.slot \in Nat /\ ob.last_update.slot =< slot
    BY <2>2 DEF ObligationSound, ObligationType, UpdateType
  <2>4. ObligationSound(ob, reserve, slot')
    BY <1>1, <1>2, <2>2, <2>3 DEF ObligationSound
  <2>5. IsStale(ob, slot')
    BY <1>1, <1>2, <2>3 DEF IsStale
  <2> QED BY <1>1, <2>1, <2>4, <2>5 DEF ObligationOK, DebtsFresh
<1> QED BY <1>1, <1>2, <1>3, <1>4 DEF Accounts, AllSound

-----------------------------------------------------------------------------
\* What each handler does to the accounts: the reserve it leaves and by how
\* much its available liquidity moves, and the obligation it leaves.

Handled(r, X, d) ==
    /\ Live(reserve[r])
    /\ reserve' = [reserve EXCEPT ![r] = X]
    /\ Onward(reserve[r], X, slot)
    /\ X.available_amount = reserve[r].available_amount + d

Obliged(o, Y) ==
    /\ Live(obligation[o])
    /\ obligation' = [obligation EXCEPT ![o] = Y]
    /\ ObligationOK(Y, reserve', slot)

\* The collateral that the obligation left counts in reserve r moves by d;
\* or it counts the same as before.
Pledged(o, Y, r, d) ==
    /\ PledgeOf(Y, r) = PledgeOf(obligation[o], r) + d
    /\ \A q \in Reserves \ {r} : PledgeOf(Y, q) = PledgeOf(obligation[o], q)
KeepsPledges(o, Y) ==
    \A q \in Reserves : PledgeOf(Y, q) = PledgeOf(obligation[o], q)

\* An obligation with the deposits of the one before keeps its pledges.
LEMMA SameDeposits ==
    ASSUME Accounts, NEW o \in Obligations, Live(obligation[o]), NEW R, NEW Y,
           ObligationSound(Y, R, slot), Y.deposits = obligation[o].deposits
    PROVE  KeepsPledges(o, Y)
<1>1. Live(Y) /\ Live(obligation[o])
  BY DEF Live, ObligationSound, ObligationType
<1> QED BY <1>1 DEF KeepsPledges, PledgeOf

\* A reserve handled follows, or not, the reserve before.
LEMMA HandledBy ==
    ASSUME Accounts, NEW r \in Reserves, Live(reserve[r]), NEW X, NEW d,
           Follows(reserve[r], X, slot), reserve' = [reserve EXCEPT ![r] = X],
           X.available_amount = reserve[r].available_amount + d
    PROVE  Handled(r, X, d)
BY LiveSound, FollowsOnward DEF Handled

\* The accounts after a handler of a reserve, and of a reserve and an
\* obligation.
LEMMA HandledAccounts ==
    ASSUME Accounts, slot' = slot, MarketOK(market'), obligation' = obligation,
           NEW r \in Reserves, NEW X, NEW d, Handled(r, X, d)
    PROVE  Accounts'
<1>1. ReservesOnward(reserve, reserve', slot)
  BY LiveSound, OneChanged DEF Handled, Accounts
<1> QED BY <1>1, AccountsKept

LEMMA ObligedAccounts ==
    ASSUME Accounts, slot' = slot, MarketOK(market'), NEW o \in Obligations, NEW Y,
           Obliged(o, Y), ReservesOnward(reserve, reserve', slot)
    PROVE  Accounts'
BY AccountsChanged DEF Obliged

LEMMA BothAccounts ==
    ASSUME Accounts, slot' = slot, MarketOK(market'), NEW o \in Obligations, NEW Y,
           Obliged(o, Y), NEW r \in Reserves, NEW X, NEW d, Handled(r, X, d)
    PROVE  Accounts'
<1>1. ReservesOnward(reserve, reserve', slot)
  BY LiveSound, OneChanged DEF Handled, Accounts
<1> QED BY <1>1, ObligedAccounts

\* The market as it was.
LEMMA SameMarket ==
    ASSUME Accounts, market' = market
    PROVE  MarketOK(market')
BY DEF Accounts

-----------------------------------------------------------------------------
\* Deposits and redemptions.

\* What a deposit mints is a natural.
LEMMA DepositMints ==
    ASSUME Accounts, NEW r \in Reserves, NEW amount \in Nat, Live(reserve[r]),
           TotalSupply(RefreshInterest(reserve[r], slot)) >= 0
    PROVE  LiquidityToCollateral(RefreshInterest(reserve[r], slot), amount) \in Nat
<1>1. PICK res : res = RefreshInterest(reserve[r], slot)
  OBVIOUS
<1>2. Sound(reserve[r], slot) /\ slot \in Nat
  BY LiveSound
<1>3. Sound(res, slot)
  BY <1>1, <1>2, RefreshedSound
<1> QED BY <1>1, <1>2, <1>3, MintedNat

\* A deposit adds its liquidity to the reserve.
LEMMA DepositDoes ==
    ASSUME Accounts, NEW u, NEW r \in Reserves, NEW amount \in Nat, Deposit(u, r, amount)
    PROVE  \E X : Handled(r, X, amount)
<1>1. PICK res : res = RefreshInterest(reserve[r], slot)
  OBVIOUS
<1>2. PICK new : new = LiquidityToCollateral(res, amount)
  OBVIOUS
<1>3. PICK X : X = MarkStale(DepositLiquidity(res, amount, new))
  OBVIOUS
<1>4. /\ Live(reserve[r]) /\ TotalSupply(res) >= 0
      /\ reserve' = [reserve EXCEPT ![r] = X]
  BY <1>1, <1>2, <1>3 DEF Deposit, CanDeposit
<1>5. Sound(reserve[r], slot) /\ slot \in Nat
  BY <1>4, LiveSound
<1>6. new \in Nat
  BY <1>1, <1>2, <1>4, DepositMints
<1>7. Follows(reserve[r], X, slot) /\ X.available_amount = reserve[r].available_amount + amount
  BY <1>1, <1>3, <1>5, <1>6, DepositHandled
<1> QED BY <1>4, <1>7, HandledBy

\* A redemption takes its liquidity from the reserve and the vault.
LEMMA RedeemDoes ==
    ASSUME Accounts, NEW u, NEW r \in Reserves, NEW coll \in Nat, Redeem(u, r, coll)
    PROVE  \E X : \E liq \in Nat :
              /\ Handled(r, X, -liq) /\ MarketOK(market')
              /\ token[r][Vault] >= liq
              /\ token' = Move(token, r, Vault, u, liq)
<1>1. PICK res : res = reserve[r]
  OBVIOUS
<1>2. PICK liq : liq = CollateralToLiquidity(res, coll)
  OBVIOUS
<1>3. PICK out : out = FromInt(liq)
  OBVIOUS
<1>4. PICK X : X = MarkStale(CountOutflow(RedeemCollateral(res, liq, coll), out))
  OBVIOUS
<1>5. /\ Live(res) /\ CanPay(res, coll)
      /\ market' = MarketAfter(res, out)
      /\ reserve' = [reserve EXCEPT ![r] = X]
      /\ token[r][Vault] >= liq
      /\ token' = Move(token, r, Vault, u, liq)
  BY <1>1, <1>2, <1>3, <1>4 DEF Redeem, Fresh
<1>6. Sound(res, slot) /\ slot \in Nat
  BY <1>1, <1>5, LiveSound
<1>7. liq \in Nat /\ CanRedeem(res, liq, coll)
  BY <1>2, <1>5, <1>6, PaidNat
<1>8. out \in Nat
  BY <1>3, <1>7, ConversionNat
<1>9. Follows(res, X, slot) /\ X.available_amount = res.available_amount - liq
  BY <1>4, <1>6, <1>7, <1>8, RedeemHandled
<1>10. X.available_amount = res.available_amount + (-liq)
  <2>1. res.available_amount \in Nat
    BY <1>6 DEF Sound, ReserveType
  <2> QED BY <1>7, <1>9, <2>1
<1>11. Handled(r, X, -liq)
  BY <1>1, <1>5, <1>9, <1>10, HandledBy
<1>12. MarketOK(market')
  BY <1>5, <1>6, <1>8, MarketAfterOK
<1> QED BY <1>5, <1>7, <1>11, <1>12

\* The obligation after a pledge, an obligation sound on the next reserves.
LEMMA PledgeDoes ==
    ASSUME Accounts, NEW r \in Reserves, NEW X, Live(reserve[r]), Follows(reserve[r], X, slot),
           reserve' = [reserve EXCEPT ![r] = X],
           NEW o \in Obligations, Live(obligation[o]), NEW n \in Nat, NEW Y,
           Y = MarkStale(Pledge(obligation[o], r, n)),
           obligation' = [obligation EXCEPT ![o] = Y]
    PROVE  Obliged(o, Y) /\ Pledged(o, Y, r, n)
<1>1. PICK ob : ob = obligation[o]
  OBVIOUS
<1>2. ObligationSound(ob, reserve', slot)
  BY <1>1, NextSound
<1>3. PICK more : more = Pledge(ob, r, n)
  OBVIOUS
<1>4. Live(reserve'[r])
  <2>1. X.version = 1
    BY DEF Follows, ReserveType
  <2> QED BY <2>1 DEF Accounts, Live
<1>5. /\ ObligationSound(more, reserve', slot)
      /\ PledgeOf(more, r) = PledgeOf(ob, r) + n
      /\ \A q \in Reserves \ {r} : PledgeOf(more, q) = PledgeOf(ob, q)
  <2>1. LET b == Pledge(ob, r, n)
        IN  /\ ObligationSound(b, reserve', slot) /\ b.owner = ob.owner /\ b.borrows = ob.borrows
            /\ PledgeOf(b, r) = PledgeOf(ob, r) + n
            /\ \A q \in Reserves \ {r} : PledgeOf(b, q) = PledgeOf(ob, q)
    <3>1. PICK R : R = reserve'
      OBVIOUS
    <3>2. PICK s : s = slot
      OBVIOUS
    <3>3. ObligationSound(ob, R, s) /\ Live(R[r]) /\ r \in Reserves /\ n \in Nat
      BY <1>2, <1>4, <3>1, <3>2
    <3>4. LET b == Pledge(ob, r, n)
          IN  /\ ObligationSound(b, R, s) /\ b.owner = ob.owner /\ b.borrows = ob.borrows
              /\ PledgeOf(b, r) = PledgeOf(ob, r) + n
              /\ \A q \in Reserves \ {r} : PledgeOf(b, q) = PledgeOf(ob, q)
      BY ONLY <3>3, PledgeSound
    <3> QED BY ONLY <3>1, <3>2, <3>4
  <2> QED BY <1>3, <2>1
<1>6. Y = MarkStale(more)
  BY <1>1, <1>3
<1>7. /\ ObligationSound(Y, reserve', slot) /\ DebtsFresh(Y, reserve', slot)
      /\ Y.deposits = more.deposits
  BY <1>5, <1>6, StaleObligation
<1>8. Live(Y) /\ Live(more)
  BY <1>5, <1>7 DEF Live, ObligationSound, ObligationType
<1>9. \A q \in Reserves : PledgeOf(Y, q) = PledgeOf(more, q)
  BY <1>7, <1>8 DEF PledgeOf
<1> QED BY <1>1, <1>5, <1>7, <1>9 DEF Obliged, Pledged, ObligationOK

\* Pledging moves no liquidity.
LEMMA DepositObligationDoes ==
    ASSUME Accounts, NEW o \in Obligations, NEW r \in Reserves, NEW coll \in Nat,
           DepositObligation(o, r, coll)
    PROVE  \E X, Y : Handled(r, X, 0) /\ Obliged(o, Y) /\ Pledged(o, Y, r, coll)
<1>1. PICK X : X = MarkStale(RefreshInterest(reserve[r], slot))
  OBVIOUS
<1>2. PICK Y : Y = MarkStale(Pledge(obligation[o], r, coll))
  OBVIOUS
<1>3. /\ Live(reserve[r]) /\ Live(obligation[o])
      /\ reserve' = [reserve EXCEPT ![r] = X]
      /\ obligation' = [obligation EXCEPT ![o] = Y]
  BY <1>1, <1>2 DEF DepositObligation
<1>4. Sound(reserve[r], slot) /\ slot \in Nat
  BY <1>3, LiveSound
<1>5. PICK res : res = RefreshInterest(reserve[r], slot)
  OBVIOUS
<1>6. Follows(reserve[r], res, slot) /\ res.available_amount = reserve[r].available_amount
  BY <1>4, <1>5, RefreshedSound
<1>7. Follows(reserve[r], X, slot) /\ X.available_amount = reserve[r].available_amount
  BY <1>1, <1>4, <1>5, <1>6, MarkedFollows
<1>8. X.available_amount = reserve[r].available_amount + 0
  BY <1>4, <1>7 DEF Sound, ReserveType
<1>9. Handled(r, X, 0)
  BY <1>3, <1>7, <1>8, HandledBy
<1>10. Obliged(o, Y) /\ Pledged(o, Y, r, coll)
  BY <1>2, <1>3, <1>7, PledgeDoes
<1> QED BY <1>9, <1>10

\* What a deposit mints is pledged.
LEMMA DepositAndPledgeDoes ==
    ASSUME Accounts, NEW o \in Obligations, NEW r \in Reserves, NEW amount \in Nat,
           DepositAndPledge(o, r, amount)
    PROVE  \E X, Y : \E new \in Nat :
              /\ Handled(r, X, amount) /\ Obliged(o, Y) /\ Pledged(o, Y, r, new)
              /\ ctoken' = [ctoken EXCEPT ![r][Custody] = @ + new]
              /\ minted' = [minted EXCEPT ![r] = @ + new]
<1>1. PICK res : res = RefreshInterest(reserve[r], slot)
  OBVIOUS
<1>2. PICK new : new = LiquidityToCollateral(res, amount)
  OBVIOUS
<1>3. PICK X : X = MarkStale(DepositLiquidity(res, amount, new))
  OBVIOUS
<1>4. PICK Y : Y = MarkStale(Pledge(obligation[o], r, new))
  OBVIOUS
<1>5. /\ Live(reserve[r]) /\ Live(obligation[o]) /\ TotalSupply(res) >= 0
      /\ reserve' = [reserve EXCEPT ![r] = X]
      /\ obligation' = [obligation EXCEPT ![o] = Y]
      /\ ctoken' = [ctoken EXCEPT ![r][Custody] = @ + new]
      /\ minted' = [minted EXCEPT ![r] = @ + new]
  BY <1>1, <1>2, <1>3, <1>4 DEF DepositAndPledge, CanDeposit
<1>6. Sound(reserve[r], slot) /\ slot \in Nat
  BY <1>5, LiveSound
<1>7. Sound(res, slot)
  BY <1>1, <1>6, RefreshedSound
<1>8. new \in Nat
  BY <1>2, <1>5, <1>6, <1>7, MintedNat
<1>9. Follows(reserve[r], X, slot) /\ X.available_amount = reserve[r].available_amount + amount
  BY <1>1, <1>3, <1>6, <1>8, DepositHandled
<1>10. Handled(r, X, amount)
  BY <1>5, <1>9, HandledBy
<1>11. Obliged(o, Y) /\ Pledged(o, Y, r, new)
  BY <1>4, <1>5, <1>8, <1>9, PledgeDoes
<1> QED BY <1>5, <1>8, <1>10, <1>11

\* The obligation after a release, and after one on reserves later in the slot.
LEMMA ReleasedDoes ==
    ASSUME Accounts, NEW o \in Obligations, Live(obligation[o]), NEW ob,
           ObligationSound(ob, reserve', slot), ob.deposits = obligation[o].deposits,
           NEW r \in Reserves, r \in DOMAIN ob.deposits,
           NEW n \in 0..ob.deposits[r].deposited_amount, NEW Y,
           Y = MarkStale(Release(ob, r, n)), obligation' = [obligation EXCEPT ![o] = Y]
    PROVE  Obliged(o, Y) /\ Pledged(o, Y, r, -n)
<1>1. KeepsPledges(o, ob)
  BY SameDeposits
<1>2. PICK less : less = Release(ob, r, n)
  OBVIOUS
<1>3. /\ ObligationSound(less, reserve', slot)
      /\ PledgeOf(less, r) = PledgeOf(ob, r) - n
      /\ \A q \in Reserves \ {r} : PledgeOf(less, q) = PledgeOf(ob, q)
  BY <1>2, ReleaseSound
<1>4. Y = MarkStale(less)
  BY <1>2
<1>5. /\ ObligationSound(Y, reserve', slot) /\ DebtsFresh(Y, reserve', slot)
      /\ Y.deposits = less.deposits
  BY <1>3, <1>4, StaleObligation
<1>6. Live(Y) /\ Live(less) /\ Live(ob)
  BY <1>3, <1>5 DEF Live, ObligationSound, ObligationType
<1>7. \A q \in Reserves : PledgeOf(Y, q) = PledgeOf(less, q)
  BY <1>5, <1>6 DEF PledgeOf
<1>8. PledgeOf(ob, r) \in Nat /\ n \in Nat
  <2>1. ob.deposits[r].deposited_amount \in Nat
    BY DEF ObligationSound, DepositsSound, DepositType
  <2> QED BY <1>6, <2>1 DEF PledgeOf
<1>9. PledgeOf(Y, r) = PledgeOf(ob, r) + (-n)
  BY <1>3, <1>7, <1>8
<1> QED BY <1>1, <1>3, <1>5, <1>7, <1>9 DEF Obliged, Pledged, ObligationOK, KeepsPledges

\* The same when the obligation was sound on the reserves before.
LEMMA ReleaseDoes ==
    ASSUME Accounts, NEW o \in Obligations, Live(obligation[o]), NEW r \in Reserves,
           r \in DOMAIN obligation[o].deposits,
           NEW n \in 0..obligation[o].deposits[r].deposited_amount,
           ReservesOnward(reserve, reserve', slot), NEW Y,
           Y = MarkStale(Release(obligation[o], r, n)),
           obligation' = [obligation EXCEPT ![o] = Y]
    PROVE  Obliged(o, Y) /\ Pledged(o, Y, r, -n)
<1>1. PICK ob : ob = obligation[o]
  OBVIOUS
<1>2. ObligationOK(ob, reserve, slot) /\ AllSound(reserve, slot) /\ slot \in Nat
  BY <1>1, LiveSound DEF Accounts
<1>3. ObligationSound(ob, reserve', slot)
  BY <1>2, ObligationOnward DEF ObligationOK
<1> QED BY <1>1, <1>3, ReleasedDoes

\* A withdrawal releases what leaves custody.
LEMMA WithdrawObligationDoes ==
    ASSUME Accounts, NEW o \in Obligations, NEW r \in Reserves, NEW asked \in Nat,
           WithdrawObligation(o, r, asked)
    PROVE  \E Y : \E coll \in Nat :
              /\ Obliged(o, Y) /\ Pledged(o, Y, r, -coll)
              /\ ctoken[r][Custody] >= coll
              /\ ctoken' = Move(ctoken, r, Custody, obligation[o].owner, coll)
<1>1. PICK coll : coll = Withdrawable(obligation[o], r, asked, FALSE)
  OBVIOUS
<1>2. PICK Y : Y = MarkStale(Release(obligation[o], r, coll))
  OBVIOUS
<1>3. /\ CanWithdraw(o, r) /\ reserve' = reserve
      /\ ctoken[r][Custody] >= coll
      /\ obligation' = [obligation EXCEPT ![o] = Y]
      /\ ctoken' = Move(ctoken, r, Custody, obligation[o].owner, coll)
  BY <1>1, <1>2 DEF WithdrawObligation
<1>4. /\ Live(obligation[o]) /\ r \in DOMAIN obligation[o].deposits
      /\ coll \in 0..obligation[o].deposits[r].deposited_amount
  BY <1>1, <1>3, WithdrawFacts
<1>5. ReservesOnward(reserve, reserve', slot)
  BY <1>3, LiveSound, NoneChanged DEF Accounts
<1>6. Obliged(o, Y) /\ Pledged(o, Y, r, -coll)
  BY <1>2, <1>3, <1>4, <1>5, ReleaseDoes
<1> QED BY <1>3, <1>4, <1>6

\* A withdrawal that redeems releases and burns the same tokens.
LEMMA WithdrawAndRedeemDoes ==
    ASSUME Accounts, NEW o \in Obligations, NEW r \in Reserves, NEW asked \in Nat,
           WithdrawAndRedeem(o, r, asked)
    PROVE  \E X, Y : \E coll, liq \in Nat :
              /\ Handled(r, X, -liq) /\ Obliged(o, Y) /\ Pledged(o, Y, r, -coll)
              /\ MarketOK(market')
              /\ ctoken[r][Custody] >= coll /\ token[r][Vault] >= liq
              /\ token' = Move(token, r, Vault, obligation[o].owner, liq)
              /\ ctoken' = [ctoken EXCEPT ![r][Custody] = @ - coll]
              /\ minted' = [minted EXCEPT ![r] = @ - coll]
<1>1. PICK coll : coll = Withdrawable(obligation[o], r, asked, TRUE)
  OBVIOUS
<1>2. PICK res : res = reserve[r]
  OBVIOUS
<1>3. PICK liq : liq = CollateralToLiquidity(res, coll)
  OBVIOUS
<1>4. PICK out : out = FromInt(liq)
  OBVIOUS
<1>5. PICK X : X = MarkStale(CountOutflow(RedeemCollateral(res, liq, coll), out))
  OBVIOUS
<1>6. PICK Y : Y = MarkStale(Release(obligation[o], r, coll))
  OBVIOUS
<1>7. /\ CanWithdraw(o, r) /\ CanPay(res, coll)
      /\ ctoken[r][Custody] >= coll /\ token[r][Vault] >= liq
      /\ market' = MarketAfter(res, out)
      /\ reserve' = [reserve EXCEPT ![r] = X]
      /\ obligation' = [obligation EXCEPT ![o] = Y]
      /\ token' = Move(token, r, Vault, obligation[o].owner, liq)
      /\ ctoken' = [ctoken EXCEPT ![r][Custody] = @ - coll]
      /\ minted' = [minted EXCEPT ![r] = @ - coll]
  BY <1>1, <1>2, <1>3, <1>4, <1>5, <1>6 DEF WithdrawAndRedeem
<1>8. /\ Live(obligation[o]) /\ Live(res) /\ r \in DOMAIN obligation[o].deposits
      /\ coll \in 0..obligation[o].deposits[r].deposited_amount
  BY <1>1, <1>2, <1>7, WithdrawFacts
<1>9. Sound(res, slot) /\ slot \in Nat /\ coll \in Nat
  BY <1>2, <1>8, LiveSound
<1>10. liq \in Nat /\ CanRedeem(res, liq, coll)
  BY <1>3, <1>7, <1>9, PaidNat
<1>11. out \in Nat
  BY <1>4, <1>10, ConversionNat
<1>12. Follows(res, X, slot) /\ X.available_amount = res.available_amount - liq
  BY <1>5, <1>9, <1>10, <1>11, RedeemHandled
<1>13. X.available_amount = res.available_amount + (-liq)
  <2>1. res.available_amount \in Nat
    BY <1>9 DEF Sound, ReserveType
  <2> QED BY <1>10, <1>12, <2>1
<1>14. Handled(r, X, -liq)
  BY <1>2, <1>7, <1>8, <1>12, <1>13, HandledBy
<1>15. ReservesOnward(reserve, reserve', slot)
  BY <1>14, LiveSound, OneChanged DEF Handled, Accounts
<1>16. Obliged(o, Y) /\ Pledged(o, Y, r, -coll)
  BY <1>6, <1>7, <1>8, <1>15, ReleaseDoes
<1>17. MarketOK(market')
  BY <1>7, <1>9, <1>11, MarketAfterOK
<1> QED BY <1>7, <1>9, <1>10, <1>14, <1>16, <1>17

-----------------------------------------------------------------------------
\* Debts.

\* The obligation after a change of its debts, marked stale.
LEMMA DebtDoes ==
    ASSUME Accounts, NEW o \in Obligations, Live(obligation[o]), NEW new,
           ObligationSound(new, reserve', slot), new.deposits = obligation[o].deposits, NEW Y,
           Y = MarkStale(new), obligation' = [obligation EXCEPT ![o] = Y]
    PROVE  Obliged(o, Y) /\ KeepsPledges(o, Y)
<1>1. /\ ObligationSound(Y, reserve', slot) /\ DebtsFresh(Y, reserve', slot)
      /\ Y.deposits = new.deposits
  BY StaleObligation
<1>2. KeepsPledges(o, Y)
  BY <1>1, SameDeposits
<1> QED BY <1>1, <1>2 DEF Obliged, ObligationOK

\* A loan pays the borrower and the fees out of the vault.
LEMMA BorrowDoes ==
    ASSUME Accounts, NEW o \in Obligations, NEW r \in Reserves, NEW asked \in Nat,
           NEW hosted \in BOOLEAN, Borrow(o, r, asked, hosted)
    PROVE  \E X, Y : \E host, fee, receive \in Nat :
              /\ Handled(r, X, -(host + fee + receive))
              /\ Obliged(o, Y) /\ KeepsPledges(o, Y) /\ MarketOK(market')
              /\ token[r][Vault] >= host + fee + receive
              /\ token' = Move(Move(Move(token, r, Vault, Host, host), r, Vault, FeeReceiver, fee),
                               r, Vault, obligation[o].owner, receive)
<1>1. PICK loan : loan = LoanOf(obligation[o], reserve[r], asked)
  OBVIOUS
<1>2. /\ Live(obligation[o]) /\ Live(reserve[r])
      /\ loan.amount \in Nat \ {0} /\ loan.receive \in Nat
      /\ loan.fees.total \in Nat /\ loan.fees.host \in Nat
      /\ Floor(loan.amount) = loan.receive + loan.fees.total
  BY <1>1, LoanFacts
<1>3. PICK host : host = IF hosted THEN loan.fees.host ELSE 0
  OBVIOUS
<1>4. PICK amount : amount = loan.amount
  OBVIOUS
<1>5. PICK receive : receive = loan.receive
  OBVIOUS
<1>6. PICK fee : fee = loan.fees.total - host
  OBVIOUS
<1>7. PICK res : res = reserve[r]
  OBVIOUS
<1>8. PICK X : X = MarkStale(Lend(CountOutflow(res, amount), amount))
  OBVIOUS
<1>9. PICK new : new = Owe(obligation[o], r, res.cumulative_borrow_rate_wads, amount)
  OBVIOUS
<1>10. PICK Y : Y = MarkStale(new)
  OBVIOUS
<1>11. /\ CanLend(res, amount) /\ host =< loan.fees.total
       /\ token[r][Vault] >= loan.receive + loan.fees.total
       /\ market' = MarketAfter(res, amount)
       /\ reserve' = [reserve EXCEPT ![r] = X]
       /\ obligation' = [obligation EXCEPT ![o] = Y]
       /\ token' = Move(Move(Move(token, r, Vault, Host, host), r, Vault, FeeReceiver, fee),
                        r, Vault, obligation[o].owner, receive)
  BY <1>1, <1>3, <1>4, <1>5, <1>6, <1>7, <1>8, <1>9, <1>10 DEF Borrow
<1>12. /\ host \in Nat /\ fee \in Nat /\ receive \in Nat
       /\ loan.receive + loan.fees.total = host + fee + receive
  BY <1>2, <1>3, <1>5, <1>6, <1>11
<1>13. Sound(res, slot) /\ slot \in Nat /\ amount \in Nat \ {0}
  BY <1>2, <1>4, <1>7, LiveSound
<1>14. Follows(res, X, slot) /\ X.available_amount = res.available_amount - Floor(amount)
  BY <1>8, <1>11, <1>13, LendHandled
<1>15. X.available_amount = res.available_amount + (-(host + fee + receive))
  <2>1. res.available_amount \in Nat
    BY <1>13 DEF Sound, ReserveType
  <2>2. Floor(amount) = host + fee + receive
    BY <1>2, <1>4, <1>12
  <2> QED BY <1>12, <1>14, <2>1, <2>2
<1>16. Handled(r, X, -(host + fee + receive))
  BY <1>2, <1>7, <1>11, <1>14, <1>15, HandledBy
<1>17. MarketOK(market')
  BY <1>11, <1>13, MarketAfterOK
<1>18. ObligationSound(obligation[o], reserve', slot)
  BY <1>2, <1>7, <1>11, <1>14, NextSound
<1>19. /\ reserve'[r] = X /\ Live(X) /\ X.cumulative_borrow_rate_wads \in Nat
       /\ res.cumulative_borrow_rate_wads \in Nat /\ One =< res.cumulative_borrow_rate_wads
       /\ res.cumulative_borrow_rate_wads =< X.cumulative_borrow_rate_wads
  <2>1. X \in ReserveType /\ res \in ReserveType
    BY <1>13, <1>14 DEF Follows, Sound
  <2>2. Live(X) /\ X.cumulative_borrow_rate_wads \in Nat /\ res.cumulative_borrow_rate_wads \in Nat
    BY <2>1 DEF ReserveType, Live
  <2>3. reserve'[r] = X
    BY <1>11 DEF Accounts
  <2> QED BY <1>13, <1>14, <2>2, <2>3, WADAssumption DEF Follows, Sound, One
<1>20. ObligationSound(new, reserve', slot) /\ new.deposits = obligation[o].deposits
  <2>1. PICK rate \in Nat : rate = res.cumulative_borrow_rate_wads
    BY <1>19
  <2> QED BY <1>9, <1>13, <1>18, <1>19, <2>1, OweSound
<1>21. Obliged(o, Y) /\ KeepsPledges(o, Y)
  BY <1>2, <1>10, <1>11, <1>20, DebtDoes
<1> QED BY <1>11, <1>12, <1>16, <1>17, <1>21

\* A repayment puts into the vault what it adds to the reserve.
LEMMA RepayDoes ==
    ASSUME Accounts, NEW u, NEW o \in Obligations, NEW r \in Reserves, NEW asked \in Nat,
           Repay(u, o, r, asked)
    PROVE  \E X, Y : \E n \in Nat :
              /\ Handled(r, X, n) /\ Obliged(o, Y) /\ KeepsPledges(o, Y)
              /\ token[r][u] >= n
              /\ token' = Move(token, r, u, Vault, n)
<1>1. PICK ob : ob = obligation[o]
  OBVIOUS
<1>2. PICK i : i = BorrowIndex(ob, r)
  OBVIOUS
<1>3. PICK res : res = RefreshInterest(reserve[r], slot)
  OBVIOUS
<1>4. PICK debt : debt = Accrue(ob.borrows[i], res.cumulative_borrow_rate_wads)
  OBVIOUS
<1>5. PICK settle : settle = IF asked = U64_MAX THEN debt.borrowed_amount_wads
                             ELSE Smaller(FromInt(asked), debt.borrowed_amount_wads)
  OBVIOUS
<1>6. PICK n : n = Ceil(settle)
  OBVIOUS
<1>7. PICK X : X = MarkStale(Settle(res, n, settle))
  OBVIOUS
<1>8. PICK new : new = [ob EXCEPT !.borrows[i] = debt]
  OBVIOUS
<1>9. PICK paid : paid = PayOff(new, i, settle)
  OBVIOUS
<1>10. PICK Y : Y = MarkStale(paid)
  OBVIOUS
<1>11. /\ Live(ob) /\ Live(reserve[r]) /\ i \in 1..Len(ob.borrows)
       /\ ob.borrows[i] \in BorrowType /\ ob.borrows[i].borrow_reserve = r
       /\ debt \in BorrowType /\ debt.borrow_reserve = r
       /\ debt.borrowed_amount_wads # 0
       /\ debt.cumulative_borrow_rate_wads = res.cumulative_borrow_rate_wads
       /\ One =< debt.cumulative_borrow_rate_wads
       /\ settle \in 0..debt.borrowed_amount_wads /\ n \in Nat
  BY <1>1, <1>2, <1>3, <1>4, <1>5, <1>6, RepayFacts
<1>12. /\ token[r][u] >= n
       /\ reserve' = [reserve EXCEPT ![r] = X]
       /\ obligation' = [obligation EXCEPT ![o] = Y]
       /\ token' = Move(token, r, u, Vault, n)
  BY <1>1, <1>2, <1>3, <1>4, <1>5, <1>6, <1>7, <1>8, <1>9, <1>10 DEF Repay
<1>13. Sound(reserve[r], slot) /\ slot \in Nat /\ settle \in Nat
  <2>1. debt.borrowed_amount_wads \in Nat
    BY <1>11 DEF BorrowType
  <2> QED BY <1>11, <2>1, LiveSound
<1>14. /\ Follows(reserve[r], res, slot) /\ Sound(res, slot)
       /\ res.available_amount = reserve[r].available_amount
  BY <1>3, <1>13, RefreshedSound
<1>15. Follows(res, X, slot) /\ X.available_amount = res.available_amount + n
  BY <1>7, <1>11, <1>13, <1>14, SettleHandled
<1>16. Follows(reserve[r], X, slot) /\ X.available_amount = reserve[r].available_amount + n
  BY <1>13, <1>14, <1>15, FollowsTransitive DEF Sound
<1>17. Handled(r, X, n)
  BY <1>11, <1>12, <1>16, HandledBy
<1>18. ObligationSound(ob, reserve', slot)
  BY <1>1, <1>11, <1>12, <1>16, NextSound
<1>19. DebtSound(debt, reserve')
  <2>1. X \in ReserveType /\ res \in ReserveType
    BY <1>14, <1>15 DEF Follows, Sound
  <2>2. Live(X)
    BY <2>1 DEF ReserveType, Live
  <2>3. reserve'[r] = X
    BY <1>12 DEF Accounts
  <2>4. res.cumulative_borrow_rate_wads =< X.cumulative_borrow_rate_wads
    BY <1>15, <2>1 DEF Follows, ReserveType
  <2> QED BY <1>11, <2>2, <2>3, <2>4 DEF DebtSound
<1>20. PICK bs : bs = [ob.borrows EXCEPT ![i] = debt]
  OBVIOUS
<1>21. DebtsSound(bs, reserve') /\ bs[i] = debt /\ Len(bs) = Len(ob.borrows)
  <2>1. DebtsSound(ob.borrows, reserve')
    BY <1>18 DEF ObligationSound
  <2>2. DebtsSound(bs, reserve')
    BY <1>11, <1>19, <1>20, <2>1, ReplaceSound
  <2> QED BY <1>11, <1>20, <2>1, <2>2 DEF DebtsSound
<1>22. new = [ob EXCEPT !.borrows = bs]
  BY <1>8, <1>20
<1>23. /\ ObligationSound(new, reserve', slot) /\ new.borrows = bs
       /\ new.deposits = ob.deposits
  BY <1>18, <1>21, <1>22, WithBorrows
<1>24. ObligationSound(paid, reserve', slot) /\ paid.deposits = ob.deposits
  <2>1. i \in 1..Len(new.borrows) /\ settle \in 0..new.borrows[i].borrowed_amount_wads
    BY <1>11, <1>21, <1>23
  <2> QED BY <1>9, <1>23, <2>1, PayOffSound
<1>25. Obliged(o, Y) /\ KeepsPledges(o, Y)
  BY <1>1, <1>10, <1>11, <1>12, <1>24, DebtDoes
<1> QED BY <1>11, <1>12, <1>17, <1>25

\* Forgiving moves no tokens.
LEMMA ForgiveDebtDoes ==
    ASSUME Accounts, NEW o \in Obligations, NEW r \in Reserves, NEW asked \in Nat,
           ForgiveDebt(o, r, asked)
    PROVE  \E X, Y : Handled(r, X, 0) /\ Obliged(o, Y) /\ KeepsPledges(o, Y)
<1>1. PICK ob : ob = obligation[o]
  OBVIOUS
<1>2. PICK res : res = reserve[r]
  OBVIOUS
<1>3. PICK i : i = BorrowIndex(ob, r)
  OBVIOUS
<1>4. PICK amount : amount = Smaller(FromInt(asked),
                                Smaller(ob.borrows[i].borrowed_amount_wads, Forgivable(res)))
  OBVIOUS
<1>5. PICK X : X = MarkStale(Forgive(res, amount))
  OBVIOUS
<1>6. PICK paid : paid = PayOff(ob, i, amount)
  OBVIOUS
<1>7. PICK Y : Y = MarkStale(paid)
  OBVIOUS
<1>8. /\ Live(ob) /\ Live(res) /\ Forgivable(res) >= 0 /\ i # 0
      /\ amount =< res.borrowed_amount_wads
      /\ reserve' = [reserve EXCEPT ![r] = X]
      /\ obligation' = [obligation EXCEPT ![o] = Y]
  BY <1>1, <1>2, <1>3, <1>4, <1>5, <1>6, <1>7 DEF ForgiveDebt, Fresh
<1>9. Sound(res, slot) /\ slot \in Nat /\ ObligationSound(ob, reserve, slot)
  BY <1>1, <1>2, <1>8, LiveSound
<1>10. i \in 1..Len(ob.borrows)
  BY <1>3, <1>8, <1>9, BorrowIndexFacts DEF ObligationSound, DebtsSound
<1>11. amount \in 0..ob.borrows[i].borrowed_amount_wads /\ amount \in Nat
  <2>1. ob.borrows[i].borrowed_amount_wads \in Nat
    <3>1. ob.borrows[i] \in BorrowType
      BY <1>9, <1>10 DEF ObligationSound, DebtsSound
    <3> QED BY <3>1 DEF BorrowType
  <2>2. Forgivable(res) \in Int
    <3>1. TotalSupply(res) \in Int /\ res.mint_total_supply \in Nat
      BY <1>9, SupplyInt DEF Sound, ReserveType
    <3>2. Mul(FromInt(res.mint_total_supply), FromPercent(1)) \in Nat
      BY <3>1, ConversionNat, PercentFacts, DecimalNat
    <3> QED BY <3>1, <3>2 DEF Forgivable
  <2>3. FromInt(asked) \in Nat
    BY ConversionNat
  <2> QED BY <1>4, <1>8, <2>1, <2>2, <2>3 DEF Smaller
<1>12. Follows(res, X, slot) /\ X.available_amount = res.available_amount
  BY <1>5, <1>8, <1>9, <1>11, ForgiveHandled
<1>13. X.available_amount = res.available_amount + 0
  BY <1>9, <1>12 DEF Sound, ReserveType
<1>14. Handled(r, X, 0)
  BY <1>2, <1>8, <1>12, <1>13, HandledBy
<1>15. ObligationSound(ob, reserve', slot)
  BY <1>1, <1>2, <1>8, <1>12, NextSound
<1>16. ObligationSound(paid, reserve', slot) /\ paid.deposits = ob.deposits
  BY <1>6, <1>10, <1>11, <1>15, PayOffSound
<1>17. Obliged(o, Y) /\ KeepsPledges(o, Y)
  BY <1>1, <1>7, <1>8, <1>16, DebtDoes
<1> QED BY <1>14, <1>17

-----------------------------------------------------------------------------
\* Liquidations: the reserve of the debt gains what is repaid, that of the
\* collateral loses the liquidity redeemed; they may be the same.

\* What a liquidation pays: repay tokens of the debt's reserve, then, if any
\* collateral is redeemed, liq tokens of the collateral's, less a fee.
LiquidationPays(u, debt, coll, repay, liq, fee) ==
    \/ liq = 0 /\ token' = Move(token, debt, u, Vault, repay)
    \/ LET received == Move(Move(token, debt, u, Vault, repay), coll, Vault, u, liq)
       IN  received[coll][u] >= fee /\ token' = Move(received, coll, u, FeeReceiver, fee)

AvailableAfter(debt, coll, repay, liq) ==
    \A r \in Reserves : Live(reserve'[r]) =>
        /\ Live(reserve[r])
        /\ reserve'[r].available_amount =
              reserve[r].available_amount + (IF r = debt THEN repay ELSE 0)
                                          - (IF r = coll THEN liq ELSE 0)

\* The reserves after a liquidation.
LEMMA LiquidatedReserves ==
    ASSUME Accounts, NEW debt \in Reserves, NEW coll \in Reserves, Live(reserve[debt]),
           NEW repay \in Nat, NEW liq \in Nat, NEW repaid, NEW Z,
           ReservesOnward(reserve, repaid, slot),
           repaid[debt].available_amount = reserve[debt].available_amount + repay,
           \A r \in Reserves \ {debt} : repaid[r] = reserve[r],
           Live(repaid[coll]), Follows(repaid[coll], Z, slot),
           Z.available_amount = repaid[coll].available_amount - liq,
           reserve' = [repaid EXCEPT ![coll] = Z]
    PROVE  /\ ReservesOnward(reserve, reserve', slot)
           /\ AvailableAfter(debt, coll, repay, liq)
           /\ liq =< reserve[coll].available_amount + (IF coll = debt THEN repay ELSE 0)
<1>1. slot \in Nat /\ AllSound(reserve, slot) /\ AllSound(repaid, slot) /\ DOMAIN repaid = Reserves
  BY LiveSound DEF Accounts, ReservesOnward
<1>2. Sound(repaid[coll], slot)
  BY <1>1 DEF AllSound
<1>3. Onward(repaid[coll], Z, slot)
  BY <1>1, <1>2, FollowsOnward
<1>4. ReservesOnward(repaid, reserve', slot)
  BY <1>1, <1>3, OneChanged
<1>5. ReservesOnward(reserve, reserve', slot)
  BY <1>1, <1>4, OneThenAnother
<1>6. reserve'[coll] = Z /\ \A r \in Reserves \ {coll} : reserve'[r] = repaid[r]
  BY <1>1
<1>7. Live(reserve[coll])
  BY DEF Live
<1>8. /\ Z.available_amount \in Nat /\ repaid[coll].available_amount \in Nat
      /\ reserve[coll].available_amount \in Nat /\ reserve[debt].available_amount \in Nat
  BY <1>1, <1>2, <1>7 DEF Follows, ReserveType, Sound, AllSound
<1>9. repaid[coll].available_amount =
         reserve[coll].available_amount + (IF coll = debt THEN repay ELSE 0)
  BY <1>8
<1>10. liq =< reserve[coll].available_amount + (IF coll = debt THEN repay ELSE 0)
  BY <1>8, <1>9
<1>11. ASSUME NEW r \in Reserves, Live(reserve'[r])
       PROVE  /\ Live(reserve[r])
              /\ reserve'[r].available_amount =
                    reserve[r].available_amount + (IF r = debt THEN repay ELSE 0)
                                                - (IF r = coll THEN liq ELSE 0)
  <2>1. CASE r = coll
    BY <1>6, <1>7, <1>8, <1>9, <2>1
  <2>2. CASE r # coll /\ r = debt
    BY <1>6, <1>8, <2>2
  <2>3. CASE r # coll /\ r # debt
    <3>1. reserve'[r] = reserve[r]
      BY <1>6, <2>3
    <3>2. reserve[r].available_amount \in Nat
      BY <1>1, <1>11, <3>1 DEF AllSound, Sound, ReserveType
    <3> QED BY <1>11, <2>3, <3>1, <3>2
  <2> QED BY <2>1, <2>2, <2>3
<1> QED BY <1>5, <1>10, <1>11 DEF AvailableAfter

\* What a liquidation does to the accounts, the tokens and the mint.
LiquidationDone(u, o, debt, coll, Y, repay, withdraw, redeemed, liq, fee) ==
    /\ ReservesOnward(reserve, reserve', slot)
    /\ AvailableAfter(debt, coll, repay, liq)
    /\ liq =< reserve[coll].available_amount + (IF coll = debt THEN repay ELSE 0)
    /\ Obliged(o, Y) /\ Pledged(o, Y, coll, -withdraw)
    /\ Live(reserve[debt]) /\ Live(reserve[coll])
    /\ token[debt][u] >= repay /\ LiquidationPays(u, debt, coll, repay, liq, fee)
    /\ redeemed =< withdraw /\ ctoken[coll][Custody] >= withdraw
    /\ ctoken' = [ctoken EXCEPT ![coll][Custody] = @ - withdraw,
                                ![coll][u] = @ + withdraw - redeemed]
    /\ \/ redeemed = 0 /\ minted' = minted
       \/ minted' = [minted EXCEPT ![coll] = @ - redeemed]

\* Every liquidation is of this kind.
LEMMA LiquidateDoes ==
    ASSUME Accounts, NEW u, NEW o \in Obligations, NEW debt \in Reserves, NEW coll \in Reserves,
           NEW asked \in Nat, Liquidate(u, o, debt, coll, asked)
    PROVE  \E Y : \E repay, withdraw, redeemed, liq, fee \in Nat :
              LiquidationDone(u, o, debt, coll, Y, repay, withdraw, redeemed, liq, fee)
<1>1. PICK ob : ob = obligation[o]
  OBVIOUS
<1>2. PICK i : i = BorrowIndex(ob, debt)
  OBVIOUS
<1>3. PICK part : part = LiquidationOf(ob, i, coll, asked)
  OBVIOUS
<1>4. PICK settle : settle = part.settle
  OBVIOUS
<1>5. PICK repay : repay = part.repay
  OBVIOUS
<1>6. PICK withdraw : withdraw = part.withdraw
  OBVIOUS
<1>7. PICK repaid : repaid = [reserve EXCEPT ![debt] = MarkStale(Settle(@, repay, settle))]
  OBVIOUS
<1>8. PICK res : res = RefreshInterest(repaid[coll], slot)
  OBVIOUS
<1>9. PICK redeemed : redeemed = Smaller(withdraw, LiquidityToCollateral(res, res.available_amount))
  OBVIOUS
<1>10. PICK liq : liq = CollateralToLiquidity(res, redeemed)
  OBVIOUS
<1>11. PICK fee : fee = ProtocolLiquidationFee(res, liq, BonusRate(reserve[coll], ob))
  OBVIOUS
<1>12. PICK paid : paid = PayOff(ob, i, settle)
  OBVIOUS
<1>13. PICK Y : Y = MarkStale(Release(paid, coll, withdraw))
  OBVIOUS
<1>14. PICK received : received = Move(Move(token, debt, u, Vault, repay), coll, Vault, u, liq)
  OBVIOUS
<1>15. PICK Z : Z = MarkStale(RedeemCollateral(res, liq, redeemed))
  OBVIOUS
<1>16. /\ CanLiquidate(o, debt, coll) /\ TotalSupply(res) >= 0
       /\ token[debt][u] >= repay /\ ctoken[coll][Custody] >= withdraw
       /\ obligation' = [obligation EXCEPT ![o] = Y]
       /\ ctoken' = [ctoken EXCEPT ![coll][Custody] = @ - withdraw,
                                   ![coll][u] = @ + withdraw - redeemed]
  BY <1>1, <1>2, <1>3, <1>4, <1>5, <1>6, <1>7, <1>8, <1>9, <1>12, <1>13 DEF Liquidate
<1>17. \/ /\ redeemed = 0 /\ reserve' = [repaid EXCEPT ![coll] = res]
          /\ token' = Move(token, debt, u, Vault, repay) /\ minted' = minted
       \/ /\ CanPay(res, redeemed) /\ received[coll][u] >= fee
          /\ reserve' = [repaid EXCEPT ![coll] = Z]
          /\ token' = Move(received, coll, u, FeeReceiver, fee)
          /\ minted' = [minted EXCEPT ![coll] = @ - redeemed]
  BY <1>1, <1>2, <1>3, <1>4, <1>5, <1>6, <1>7, <1>8, <1>9, <1>10, <1>11, <1>14, <1>15
  DEF Liquidate
<1>18. /\ Live(ob) /\ Live(reserve[debt]) /\ Live(reserve[coll])
       /\ i \in 1..Len(ob.borrows) /\ coll \in DOMAIN ob.deposits
       /\ settle \in 0..ob.borrows[i].borrowed_amount_wads
       /\ withdraw \in 0..ob.deposits[coll].deposited_amount
       /\ repay \in Nat /\ settle \in Nat /\ withdraw \in Nat
       /\ BonusRate(reserve[coll], ob) \in Nat /\ BonusRate(reserve[coll], ob) >= WAD
  BY <1>1, <1>2, <1>3, <1>4, <1>5, <1>6, <1>16, LiquidateFacts
<1>19. /\ ReservesOnward(reserve, repaid, slot)
       /\ repaid[debt].available_amount = reserve[debt].available_amount + repay
       /\ \A r \in Reserves \ {debt} : repaid[r] = reserve[r]
       /\ Live(repaid[coll]) /\ Follows(repaid[coll], res, slot) /\ Sound(res, slot)
       /\ res.available_amount = repaid[coll].available_amount
       /\ redeemed \in 0..withdraw /\ redeemed \in Nat
       /\ CanPay(res, redeemed) => liq \in Nat /\ CanRedeem(res, liq, redeemed)
  <2>1. LET again == [reserve EXCEPT ![debt] = MarkStale(Settle(@, repay, settle))]
            next  == RefreshInterest(again[coll], slot)
            most  == Smaller(withdraw, LiquidityToCollateral(next, next.available_amount))
            out   == CollateralToLiquidity(next, most)
        IN  /\ ReservesOnward(reserve, again, slot)
            /\ again[debt].available_amount = reserve[debt].available_amount + repay
            /\ \A r \in Reserves \ {debt} : again[r] = reserve[r]
            /\ Live(again[coll]) /\ Follows(again[coll], next, slot) /\ Sound(next, slot)
            /\ next.available_amount = again[coll].available_amount
            /\ TotalSupply(next) >= 0 =>
                  /\ most \in 0..withdraw /\ most \in Nat
                  /\ CanPay(next, most) => out \in Nat /\ CanRedeem(next, out, most)
    BY <1>18, RedeemedFacts
  <2> QED BY <1>7, <1>8, <1>9, <1>10, <1>16, <2>1
<1>20. slot \in Nat /\ res \in ReserveType /\ res.available_amount \in Nat
       /\ repaid[coll] \in ReserveType
  <2>1. Sound(repaid[coll], slot)
    BY <1>19 DEF ReservesOnward, AllSound
  <2> QED BY <1>19, <2>1, LiveSound DEF Sound, ReserveType
<1>21. \E l, f \in Nat :
          /\ ReservesOnward(reserve, reserve', slot)
          /\ AvailableAfter(debt, coll, repay, l)
          /\ l =< reserve[coll].available_amount + (IF coll = debt THEN repay ELSE 0)
          /\ LiquidationPays(u, debt, coll, repay, l, f)
          /\ \/ redeemed = 0 /\ minted' = minted
             \/ minted' = [minted EXCEPT ![coll] = @ - redeemed]
  <2>1. CASE /\ redeemed = 0 /\ reserve' = [repaid EXCEPT ![coll] = res]
             /\ token' = Move(token, debt, u, Vault, repay) /\ minted' = minted
    <3>1. res.available_amount = repaid[coll].available_amount - 0 /\ 0 \in Nat
      BY <1>19, <1>20
    <3>2. /\ ReservesOnward(reserve, reserve', slot)
          /\ AvailableAfter(debt, coll, repay, 0)
          /\ 0 =< reserve[coll].available_amount + (IF coll = debt THEN repay ELSE 0)
      BY <1>18, <1>19, <2>1, <3>1, LiquidatedReserves
    <3>3. LiquidationPays(u, debt, coll, repay, 0, 0)
      BY <2>1 DEF LiquidationPays
    <3> QED BY <2>1, <3>1, <3>2, <3>3
  <2>2. CASE /\ CanPay(res, redeemed) /\ received[coll][u] >= fee
             /\ reserve' = [repaid EXCEPT ![coll] = Z]
             /\ token' = Move(received, coll, u, FeeReceiver, fee)
             /\ minted' = [minted EXCEPT ![coll] = @ - redeemed]
    <3>1. liq \in Nat /\ CanRedeem(res, liq, redeemed)
      BY <1>19, <2>2
    <3>2. fee \in Nat
      BY <1>11, <1>18, <1>20, <3>1, LiquidationFeeNat
    <3>3. Follows(res, Z, slot) /\ Z.available_amount = res.available_amount - liq
      BY <1>15, <1>19, <1>20, <3>1, RedeemHandled
    <3>4. Follows(repaid[coll], Z, slot) /\ Z.available_amount = repaid[coll].available_amount - liq
      BY <1>19, <1>20, <3>3, FollowsTransitive
    <3>5. /\ ReservesOnward(reserve, reserve', slot)
          /\ AvailableAfter(debt, coll, repay, liq)
          /\ liq =< reserve[coll].available_amount + (IF coll = debt THEN repay ELSE 0)
      BY <1>18, <1>19, <2>2, <3>1, <3>4, LiquidatedReserves
    <3>6. LiquidationPays(u, debt, coll, repay, liq, fee)
      BY <1>14, <2>2 DEF LiquidationPays
    <3> QED BY <2>2, <3>1, <3>2, <3>5, <3>6
  <2> QED BY <1>17, <2>1, <2>2
<1>22. ObligationSound(ob, reserve', slot)
  <2>1. ObligationOK(ob, reserve, slot) /\ AllSound(reserve, slot)
    BY <1>1, <1>18, LiveSound DEF Accounts
  <2> QED BY <1>20, <1>21, <2>1, ObligationOnward DEF ObligationOK
<1>23. ObligationSound(paid, reserve', slot) /\ paid.deposits = ob.deposits
  BY <1>12, <1>18, <1>22, PayOffSound
<1>24. Obliged(o, Y) /\ Pledged(o, Y, coll, -withdraw)
  <2>1. coll \in DOMAIN paid.deposits /\ withdraw \in 0..paid.deposits[coll].deposited_amount
    BY <1>18, <1>23
  <2> QED BY <1>1, <1>13, <1>16, <1>18, <1>23, <2>1, ReleasedDoes
<1>25. redeemed =< withdraw
  BY <1>18, <1>19
<1>26. PICK l \in Nat, f \in Nat : LiquidationDone(u, o, debt, coll, Y, repay, withdraw, redeemed, l, f)
  BY <1>16, <1>18, <1>21, <1>24, <1>25 DEF LiquidationDone
<1> QED BY <1>18, <1>19, <1>26

-----------------------------------------------------------------------------
\* Accounts opened, refreshed and reconfigured.

\* A reserve initialised holds its first deposit.
LEMMA InitReserveDoes ==
    ASSUME Accounts, NEW r \in Reserves, NEW u, InitReserve(r, u)
    PROVE  \E X : \E new \in Nat :
              /\ ~Live(reserve[r]) /\ reserve' = [reserve EXCEPT ![r] = X]
              /\ Sound(X, slot) /\ X.available_amount = FirstDeposit
              /\ ctoken' = [ctoken EXCEPT ![r][u] = @ + new]
              /\ minted' = [minted EXCEPT ![r] = @ + new]
<1>1. PICK res : res = NewReserve(slot, FirstConfig[r], MintScale[r])
  OBVIOUS
<1>2. PICK new : new = LiquidityToCollateral(res, FirstDeposit)
  OBVIOUS
<1>3. PICK X : X = DepositLiquidity(res, FirstDeposit, new)
  OBVIOUS
<1>4. /\ ~Live(reserve[r]) /\ ConsistentConfig(FirstConfig[r])
      /\ reserve' = [reserve EXCEPT ![r] = X]
      /\ ctoken' = [ctoken EXCEPT ![r][u] = @ + new]
      /\ minted' = [minted EXCEPT ![r] = @ + new]
  BY <1>1, <1>2, <1>3 DEF InitReserve, ValidConfig
<1>5. slot \in Nat /\ FirstConfig[r] \in ConfigType /\ MintScale[r] \in Nat \ {0}
      /\ FirstDeposit \in Nat
  BY LiveSound, ConfigsAssumption, AmountsAssumption
<1>6. /\ res \in ReserveType /\ res.config = FirstConfig[r] /\ new \in Nat
      /\ res.cumulative_borrow_rate_wads = WAD /\ res.last_update.slot = slot
      /\ res.available_amount = 0
  <2>1. PICK config \in ConfigType : config = FirstConfig[r]
    BY <1>5
  <2>2. PICK scale \in Nat \ {0} : scale = MintScale[r]
    BY <1>5
  <2>3. res = NewReserve(slot, config, scale)
    BY <1>1, <2>1, <2>2
  <2>4. slot \in Nat /\ FirstDeposit \in Nat
    BY <1>5
  <2>5. /\ res \in ReserveType /\ res.config = config
        /\ res.cumulative_borrow_rate_wads = WAD /\ res.last_update.slot = slot
        /\ res.available_amount = 0
    BY <2>3, <2>4, NewReserveFacts
  <2>6. TotalSupply(res) = 0
    BY <2>3, <2>4, NewReserveFacts
  <2>7. LiquidityToCollateral(res, FirstDeposit) \in Nat
    BY <2>4, <2>5, <2>6, ConvertNat
  <2> QED BY <1>2, <2>1, <2>5, <2>7
<1>7. Sound(res, slot)
  BY <1>4, <1>5, <1>6, WADAssumption DEF Sound, One
<1>8. Follows(res, X, slot) /\ X.available_amount = res.available_amount + FirstDeposit
  BY <1>3, <1>5, <1>6, <1>7, DepositFollows DEF Sound
<1>9. Sound(X, slot)
  BY <1>5, <1>7, <1>8, FollowsSound
<1>10. X.available_amount = FirstDeposit /\ new \in Nat
  BY <1>5, <1>6, <1>8
<1> QED BY <1>4, <1>9, <1>10

\* The accounts after a reserve is opened.
LEMMA InitReserveAccounts ==
    ASSUME Accounts, NEW r \in Reserves, NEW u, InitReserve(r, u)
    PROVE  Accounts'
<1>1. PICK X : /\ ~Live(reserve[r]) /\ reserve' = [reserve EXCEPT ![r] = X]
               /\ Sound(X, slot)
  BY InitReserveDoes
<1>2. slot' = slot /\ market' = market /\ obligation' = obligation /\ slot \in Nat
  BY LiveSound DEF InitReserve
<1>3. /\ DOMAIN reserve' = Reserves /\ reserve'[r] = X
      /\ \A q \in Reserves \ {r} : reserve'[q] = reserve[q]
  BY <1>1 DEF Accounts
<1>4. AllSound(reserve', slot)
  BY <1>1, <1>3 DEF AllSound, Accounts
<1>5. \A q \in Reserves : Live(reserve[q]) => Live(reserve'[q]) /\ Onward(reserve[q], reserve'[q], slot)
  BY <1>1, <1>2, <1>3, SoundOnward DEF Accounts, AllSound
<1>6. ReservesOnward(reserve, reserve', slot)
  BY <1>3, <1>4, <1>5 DEF ReservesOnward
<1> QED BY <1>2, <1>6, SameMarket, AccountsKept

\* A refresh moves no liquidity.
LEMMA RefreshReserveDoes ==
    ASSUME Accounts, NEW r \in Reserves, RefreshReserve(r)
    PROVE  \E X : Handled(r, X, 0)
<1>1. PICK X : X = RefreshInterest(reserve[r], slot)
  OBVIOUS
<1>2. Live(reserve[r]) /\ reserve' = [reserve EXCEPT ![r] = X]
  BY <1>1 DEF RefreshReserve
<1>3. Sound(reserve[r], slot) /\ slot \in Nat
  BY <1>2, LiveSound
<1>4. Follows(reserve[r], X, slot) /\ X.available_amount = reserve[r].available_amount
  BY <1>1, <1>3, RefreshedSound
<1>5. X.available_amount = reserve[r].available_amount + 0
  BY <1>3, <1>4 DEF Sound, ReserveType
<1>6. Handled(r, X, 0)
  BY <1>2, <1>4, <1>5, HandledBy
<1> QED BY <1>6

\* Revaluing an obligation pledges and releases nothing.
LEMMA RefreshAnObligationDoes ==
    ASSUME Accounts, NEW o \in Obligations, RefreshAnObligation(o)
    PROVE  \E Y : Obliged(o, Y) /\ KeepsPledges(o, Y)
<1>1. PICK Y : Y = RefreshObligation(obligation[o], reserve, slot)
  OBVIOUS
<1>2. /\ Live(obligation[o]) /\ obligation' = [obligation EXCEPT ![o] = Y]
      /\ CanRefreshObligation(obligation[o], reserve, slot) /\ reserve' = reserve
  BY <1>1 DEF RefreshAnObligation
<1>3. ObligationSound(obligation[o], reserve, slot) /\ AllSound(reserve, slot) /\ slot \in Nat
  BY <1>2, LiveSound DEF Accounts
<1>4. ObligationOK(Y, reserve', slot) /\ KeepsPledges(o, Y)
  BY <1>1, <1>2, <1>3, RefreshObligationSound DEF ObligationOK, KeepsPledges
<1> QED BY <1>2, <1>4 DEF Obliged

\* The fees redeemed leave the reserve and the vault.
LEMMA RedeemProtocolFeesDoes ==
    ASSUME Accounts, NEW r \in Reserves, RedeemProtocolFees(r)
    PROVE  \E X : \E n \in Nat :
              /\ Handled(r, X, -n) /\ token[r][Vault] >= n
              /\ token' = Move(token, r, Vault, FeeReceiver, n)
<1>1. PICK n : n = RedeemableFees(reserve[r])
  OBVIOUS
<1>2. PICK X : X = MarkStale(RedeemFees(reserve[r], n))
  OBVIOUS
<1>3. /\ Live(reserve[r]) /\ reserve' = [reserve EXCEPT ![r] = X]
      /\ token[r][Vault] >= n /\ token' = Move(token, r, Vault, FeeReceiver, n)
  BY <1>1, <1>2 DEF RedeemProtocolFees, Fresh
<1>4. Sound(reserve[r], slot) /\ slot \in Nat
  BY <1>3, LiveSound
<1>5. /\ n \in Nat /\ Follows(reserve[r], X, slot)
      /\ X.available_amount = reserve[r].available_amount - n
  BY <1>1, <1>2, <1>4, FeesHandled
<1>6. X.available_amount = reserve[r].available_amount + (-n)
  <2>1. reserve[r].available_amount \in Nat
    BY <1>4 DEF Sound, ReserveType
  <2> QED BY <1>5, <2>1
<1>7. Handled(r, X, -n)
  BY <1>3, <1>5, <1>6, HandledBy
<1> QED BY <1>3, <1>5, <1>7

\* A sound reserve with another consistent configuration and another limiter.
LEMMA WithConfigSound ==
    ASSUME NEW res, NEW s \in Nat, Sound(res, s), NEW c \in ConfigType, ConsistentConfig(c),
           NEW rl \in LimiterType, NEW b,
           b = [res EXCEPT !.config = c, !.rate_limiter = rl]
    PROVE  /\ Onward(res, MarkStale(b), s)
           /\ MarkStale(b).available_amount = res.available_amount + 0
<1>1. /\ b \in ReserveType /\ b.config = c /\ b.last_update = res.last_update
      /\ b.cumulative_borrow_rate_wads = res.cumulative_borrow_rate_wads
      /\ b.available_amount = res.available_amount
  BY DEF Sound, ReserveType
<1>2. Sound(b, s)
  BY <1>1 DEF Sound
<1>3. Onward(res, b, s)
  BY <1>1, <1>2 DEF Onward, Sound, ReserveType
<1>4. /\ Follows(b, MarkStale(b), s)
      /\ MarkStale(b).available_amount = b.available_amount
  BY <1>2, MarkStaleFollows DEF Sound
<1>5. Onward(b, MarkStale(b), s)
  BY <1>2, <1>4, FollowsOnward
<1>6. res.available_amount \in Nat
  BY DEF Sound, ReserveType
<1>7. Onward(res, MarkStale(b), s)
  <2>1. PICK m : m = MarkStale(b)
    OBVIOUS
  <2> QED BY <1>1, <1>5, <2>1 DEF Onward
<1> QED BY <1>1, <1>4, <1>6, <1>7

\* A reconfiguration moves no liquidity.
LEMMA UpdateReserveConfigDoes ==
    ASSUME Accounts, NEW r \in Reserves, NEW signer, NEW config \in Reconfigs,
           NEW limits \in LimiterConfigs, UpdateReserveConfig(r, signer, config, limits)
    PROVE  \E X : Handled(r, X, 0)
<1>1. PICK res : res = reserve[r]
  OBVIOUS
<1>2. PICK b : b = Reconfigured(res, signer, config, limits)
  OBVIOUS
<1>3. PICK X : X = MarkStale(b)
  OBVIOUS
<1>4. Live(res) /\ ConsistentConfig(config) /\ reserve' = [reserve EXCEPT ![r] = X]
  BY <1>1, <1>2, <1>3 DEF UpdateReserveConfig, ValidConfig
<1>5. Sound(res, slot) /\ slot \in Nat
  BY <1>1, <1>4, LiveSound
<1>6. config \in ConfigType /\ limits \in LimiterConfigType
  BY ConfigsAssumption, LimitsAssumption
<1>7. res.config \in ConfigType /\ ConsistentConfig(res.config) /\ res.rate_limiter \in LimiterType
  BY <1>5 DEF Sound, ReserveType
<1>8. New(limits, slot) \in LimiterType
  BY <1>5, <1>6, NewLimiterType
<1>9. \E c \in ConfigType : \E rl \in LimiterType :
         ConsistentConfig(c) /\ b = [res EXCEPT !.config = c, !.rate_limiter = rl]
  <2>1. CASE signer = market.owner
    <3>1. PICK rl \in LimiterType :
             rl = IF limits = res.rate_limiter.config THEN res.rate_limiter ELSE New(limits, slot)
      BY <1>7, <1>8
    <3>2. b = [res EXCEPT !.config = config, !.rate_limiter = rl]
      BY <1>2, <2>1, <3>1 DEF Reconfigured
    <3> QED BY <1>4, <1>6, <3>2
  <2>2. CASE signer # market.owner /\ signer = market.risk_authority
    <3>1. PICK rl \in LimiterType :
             rl = IF limits.window_duration > 0 /\ limits.max_outflow = 0
                  THEN New(limits, slot) ELSE res.rate_limiter
      BY <1>7, <1>8
    <3>2. PICK c \in ConfigType : c = RiskConfig(res.config, config) /\ ConsistentConfig(c)
      BY <1>4, <1>6, <1>7, RiskConfigConsistent
    <3>3. b = [res EXCEPT !.config = c, !.rate_limiter = rl]
      BY <1>2, <2>2, <3>1, <3>2 DEF Reconfigured
    <3> QED BY <3>2, <3>3
  <2>3. CASE signer # market.owner /\ signer # market.risk_authority
    <3>1. PICK c \in ConfigType : c = FeeConfig(res.config, config) /\ ConsistentConfig(c)
      BY <1>4, <1>6, <1>7, FeeConfigConsistent
    <3>2. b = [res EXCEPT !.config = c]
      BY <1>2, <2>3, <3>1 DEF Reconfigured
    <3>3. b = [res EXCEPT !.config = c, !.rate_limiter = res.rate_limiter]
      BY <1>5, <3>2 DEF Sound, ReserveType
    <3> QED BY <1>7, <3>1, <3>3
  <2> QED BY <2>1, <2>2, <2>3
<1>10. Onward(res, X, slot) /\ X.available_amount = res.available_amount + 0
  <2>1. PICK c \in ConfigType, rl \in LimiterType :
           ConsistentConfig(c) /\ b = [res EXCEPT !.config = c, !.rate_limiter = rl]
    BY <1>9
  <2> QED BY <1>3, <1>5, <2>1, WithConfigSound
<1> QED BY <1>1, <1>4, <1>10 DEF Handled

-----------------------------------------------------------------------------
\* Every step leaves the accounts sound.

\* The invariant of the accounts, handler by handler.
LEMMA UpkeepAccounts ==
    ASSUME Accounts, Upkeep
    PROVE  Accounts'
<1>1. slot' = slot /\ market' = market
  BY DEF Upkeep, RefreshReserve, RefreshAnObligation, RedeemProtocolFees
<1>2. ASSUME NEW r \in Reserves, RefreshReserve(r)  PROVE Accounts'
  <2>1. obligation' = obligation
    BY <1>2 DEF RefreshReserve
  <2>2. PICK X : Handled(r, X, 0)
    BY <1>2, RefreshReserveDoes
  <2> QED BY <1>1, <2>1, <2>2, SameMarket, HandledAccounts
<1>3. ASSUME NEW o \in Obligations, RefreshAnObligation(o)  PROVE Accounts'
  <2>1. reserve' = reserve
    BY <1>3 DEF RefreshAnObligation
  <2>2. PICK Y : Obliged(o, Y)
    BY <1>3, RefreshAnObligationDoes
  <2>3. ReservesOnward(reserve, reserve', slot)
    BY <2>1, LiveSound, NoneChanged DEF Accounts
  <2> QED BY <1>1, <2>2, <2>3, SameMarket, ObligedAccounts
<1>4. ASSUME NEW r \in Reserves, RedeemProtocolFees(r)  PROVE Accounts'
  <2>1. obligation' = obligation
    BY <1>4 DEF RedeemProtocolFees
  <2>2. PICK X : \E n \in Nat : Handled(r, X, -n)
    BY <1>4, RedeemProtocolFeesDoes
  <2> QED BY <1>1, <2>1, <2>2, SameMarket, HandledAccounts
<1> QED BY <1>2, <1>3, <1>4 DEF Upkeep

LEMMA PoolAccounts ==
    ASSUME Accounts, Pool
    PROVE  Accounts'
<1>1. slot' = slot /\ obligation' = obligation
  BY DEF Pool, Deposit, Redeem
<1>2. ASSUME NEW r \in Reserves, NEW u \in Users, NEW n \in DepositAmounts, Deposit(u, r, n)
      PROVE  Accounts'
  <2>1. market' = market
    BY <1>2 DEF Deposit
  <2>2. PICK X : Handled(r, X, n)
    BY <1>2, AmountsAssumption, DepositDoes
  <2> QED BY <1>1, <2>1, <2>2, SameMarket, HandledAccounts
<1>3. ASSUME NEW r \in Reserves, NEW u \in Users, NEW n \in RedeemAmounts, Redeem(u, r, n)
      PROVE  Accounts'
  <2>1. PICK X : \E liq \in Nat : Handled(r, X, -liq) /\ MarketOK(market')
    BY <1>3, AmountsAssumption, RedeemDoes
  <2> QED BY <1>1, <2>1, HandledAccounts
<1> QED BY <1>2, <1>3 DEF Pool

LEMMA CollateralAccounts ==
    ASSUME Accounts, Collateral
    PROVE  Accounts'
<1>1. ASSUME NEW o \in Obligations, NEW r \in Reserves, NEW n \in PledgeAmounts,
             DepositObligation(o, r, n)
      PROVE  Accounts'
  <2>1. slot' = slot /\ market' = market
    BY <1>1 DEF DepositObligation
  <2>2. PICK X, Y : Handled(r, X, 0) /\ Obliged(o, Y)
    BY <1>1, AmountsAssumption, DepositObligationDoes
  <2> QED BY <2>1, <2>2, SameMarket, BothAccounts
<1>2. ASSUME NEW o \in Obligations, NEW r \in Reserves, NEW n \in PledgeAmounts,
             DepositAndPledge(o, r, n)
      PROVE  Accounts'
  <2>1. slot' = slot /\ market' = market
    BY <1>2 DEF DepositAndPledge
  <2>2. PICK X, Y : Handled(r, X, n) /\ Obliged(o, Y)
    BY <1>2, AmountsAssumption, DepositAndPledgeDoes
  <2> QED BY <2>1, <2>2, SameMarket, BothAccounts
<1>3. ASSUME NEW o \in Obligations, NEW r \in Reserves, NEW n \in WithdrawAmounts,
             WithdrawObligation(o, r, n)
      PROVE  Accounts'
  <2>1. slot' = slot /\ market' = market /\ reserve' = reserve
    BY <1>3 DEF WithdrawObligation
  <2>2. PICK Y : Obliged(o, Y)
    BY <1>3, AmountsAssumption, WithdrawObligationDoes
  <2>3. ReservesOnward(reserve, reserve', slot)
    BY <2>1, LiveSound, NoneChanged DEF Accounts
  <2> QED BY <2>1, <2>2, <2>3, SameMarket, ObligedAccounts
<1>4. ASSUME NEW o \in Obligations, NEW r \in Reserves, NEW n \in WithdrawAmounts,
             WithdrawAndRedeem(o, r, n)
      PROVE  Accounts'
  <2>1. PICK X, Y : \E liq \in Nat : Handled(r, X, -liq) /\ Obliged(o, Y) /\ MarketOK(market')
    BY <1>4, AmountsAssumption, WithdrawAndRedeemDoes
  <2>2. slot' = slot
    BY <1>4 DEF WithdrawAndRedeem
  <2> QED BY <2>1, <2>2, BothAccounts
<1> QED BY <1>1, <1>2, <1>3, <1>4 DEF Collateral

LEMMA DebtAccounts ==
    ASSUME Accounts, Debt
    PROVE  Accounts'
<1>1. ASSUME NEW o \in Obligations, NEW r \in Reserves, NEW n \in BorrowAmounts,
             NEW hosted \in BOOLEAN, Borrow(o, r, n, hosted)
      PROVE  Accounts'
  <2>1. PICK X, Y : \E host, fee, receive \in Nat :
           Handled(r, X, -(host + fee + receive)) /\ Obliged(o, Y) /\ MarketOK(market')
    BY <1>1, AmountsAssumption, BorrowDoes
  <2>2. slot' = slot
    BY <1>1 DEF Borrow
  <2> QED BY <2>1, <2>2, BothAccounts
<1>2. ASSUME NEW o \in Obligations, NEW r \in Reserves, NEW u \in Users, NEW n \in RepayAmounts,
             Repay(u, o, r, n)
      PROVE  Accounts'
  <2>1. slot' = slot /\ market' = market
    BY <1>2 DEF Repay
  <2>2. PICK X, Y : \E m \in Nat : Handled(r, X, m) /\ Obliged(o, Y)
    BY <1>2, AmountsAssumption, RepayDoes
  <2> QED BY <2>1, <2>2, SameMarket, BothAccounts
<1>3. ASSUME NEW o \in Obligations, NEW r \in Reserves, NEW n \in ForgiveAmounts,
             ForgiveDebt(o, r, n)
      PROVE  Accounts'
  <2>1. slot' = slot /\ market' = market
    BY <1>3 DEF ForgiveDebt
  <2>2. PICK X, Y : Handled(r, X, 0) /\ Obliged(o, Y)
    BY <1>3, AmountsAssumption, ForgiveDebtDoes
  <2> QED BY <2>1, <2>2, SameMarket, BothAccounts
<1> QED BY <1>1, <1>2, <1>3 DEF Debt

LEMMA LiquidateAccounts ==
    ASSUME Accounts, Liquidations
    PROVE  Accounts'
<1>1. PICK u \in Users, o \in Obligations, debt \in Reserves, coll \in Reserves,
           n \in LiquidateAmounts : Liquidate(u, o, debt, coll, n)
  BY DEF Liquidations
<1>2. slot' = slot /\ market' = market
  BY <1>1 DEF Liquidate
<1>3. PICK Y : \E repay, withdraw, redeemed, liq, fee \in Nat :
         LiquidationDone(u, o, debt, coll, Y, repay, withdraw, redeemed, liq, fee)
  BY <1>1, AmountsAssumption, LiquidateDoes
<1>4. ReservesOnward(reserve, reserve', slot) /\ Obliged(o, Y)
  BY <1>3 DEF LiquidationDone
<1> QED BY <1>2, <1>4, SameMarket, ObligedAccounts

LEMMA AdministrationAccounts ==
    ASSUME Accounts, Administration
    PROVE  Accounts'
<1>1. slot' = slot /\ obligation' = obligation
  BY DEF Administration, UpdateReserveConfig, SetOwnerAndConfig, SetRiskAuthority
<1>2. ASSUME NEW r \in Reserves, NEW signer \in Admins, NEW c \in Reconfigs,
             NEW l \in LimiterConfigs, UpdateReserveConfig(r, signer, c, l)
      PROVE  Accounts'
  <2>1. market' = market
    BY <1>2 DEF UpdateReserveConfig
  <2>2. PICK X : Handled(r, X, 0)
    BY <1>2, UpdateReserveConfigDoes
  <2> QED BY <1>1, <2>1, <2>2, SameMarket, HandledAccounts
<1>3. ASSUME NEW owner \in Admins, NEW risk \in Admins, NEW u \in Whitelists,
             NEW l \in LimiterConfigs, SetOwnerAndConfig(owner, risk, u, l)
      PROVE  Accounts'
  <2>1. slot \in Nat /\ reserve' = reserve
    BY <1>3, LiveSound DEF SetOwnerAndConfig
  <2>2. New(l, slot) \in LimiterType
    BY <2>1, LimitsAssumption, NewLimiterType
  <2>3. MarketOK(market')
    BY <1>3, <2>2, AccountsAssumption DEF SetOwnerAndConfig, MarketOK, Accounts
  <2>4. ReservesOnward(reserve, reserve', slot)
    BY <2>1, NoneChanged DEF Accounts
  <2> QED BY <1>1, <2>3, <2>4, AccountsKept
<1>4. ASSUME NEW risk \in Admins, SetRiskAuthority(risk)  PROVE Accounts'
  <2>1. slot \in Nat /\ reserve' = reserve /\ market' = [market EXCEPT !.risk_authority = risk]
    BY <1>4, LiveSound DEF SetRiskAuthority
  <2>2. MarketOK(market')
    BY <2>1 DEF MarketOK, Accounts
  <2>3. ReservesOnward(reserve, reserve', slot)
    BY <2>1, NoneChanged DEF Accounts
  <2> QED BY <1>1, <2>2, <2>3, AccountsKept
<1> QED BY <1>2, <1>3, <1>4 DEF Administration

LEMMA OpenAccountsAccounts ==
    ASSUME Accounts, OpenAccounts
    PROVE  Accounts'
BY InitReserveAccounts, InitObligationAccounts DEF OpenAccounts

\* Every step keeps the accounts sound.
LEMMA AccountsStep == Accounts /\ [Next]_vars => Accounts'
<1> SUFFICES ASSUME Accounts, [Next]_vars  PROVE Accounts'
  OBVIOUS
<1>1. CASE UNCHANGED vars
  <2>1. /\ slot' = slot /\ market' = market /\ reserve' = reserve /\ obligation' = obligation
    BY <1>1 DEF vars
  <2>2. ReservesOnward(reserve, reserve', slot)
    BY <2>1, LiveSound, NoneChanged DEF Accounts
  <2> QED BY <2>1, <2>2, SameMarket, AccountsKept
<1> QED BY <1>1, TickAccounts, OpenAccountsAccounts, UpkeepAccounts, PoolAccounts,
          CollateralAccounts, DebtAccounts, LiquidateAccounts, AdministrationAccounts DEF Next

\* In every state the accounts are sound.
THEOREM AccountsInvariant == Spec => []Accounts
<1>1. Init => Accounts
  BY AccountsInit
<1>2. Accounts /\ [Next]_vars => Accounts'
  BY AccountsStep
<1> QED BY <1>1, <1>2, PTL DEF Spec

-----------------------------------------------------------------------------
\* A fresh obligation's debts carry the rate that a refresh of their reserves
\* would give them: no instruction moves a reserve's rate within a slot in
\* which the reserve has been refreshed.
THEOREM FreshDebtsAccrued == Spec => []FreshDebtsAreAccrued
<1>1. Accounts => FreshDebtsAreAccrued
  <2> SUFFICES ASSUME Accounts, NEW o \in LiveObligations, Fresh(obligation[o]),
                      NEW i \in DOMAIN obligation[o].borrows
               PROVE  LET b == obligation[o].borrows[i]
                      IN  b.cumulative_borrow_rate_wads
                             = Accrued(b.borrow_reserve).cumulative_borrow_rate_wads
    BY DEF FreshDebtsAreAccrued
  <2>1. PICK ob : ob = obligation[o]
    OBVIOUS
  <2>2. PICK b : b = ob.borrows[i]
    OBVIOUS
  <2>3. /\ ObligationSound(ob, reserve, slot) /\ DebtsFresh(ob, reserve, slot)
        /\ ~IsStale(ob, slot) /\ slot \in Nat
    BY <2>1, LiveSound DEF LiveObligations, Fresh
  <2>4. i \in 1..Len(ob.borrows) /\ DebtSound(b, reserve) /\ b \in BorrowType
    BY <2>1, <2>2, <2>3 DEF ObligationSound, DebtsSound
  <2>5. PICK r \in Reserves : r = b.borrow_reserve
    BY <2>4 DEF BorrowType
  <2>6. /\ reserve[r].last_update.slot = slot
        /\ b.cumulative_borrow_rate_wads = reserve[r].cumulative_borrow_rate_wads
    BY <2>2, <2>3, <2>4, <2>5 DEF DebtsFresh
  <2>7. Live(reserve[r]) /\ Sound(reserve[r], slot)
    BY <2>4, <2>5, LiveSound DEF DebtSound
  <2>8. Accrued(r).cumulative_borrow_rate_wads = reserve[r].cumulative_borrow_rate_wads
    <3>1. PICK res : res = RefreshInterest(reserve[r], slot)
      OBVIOUS
    <3>2. Follows(reserve[r], res, slot)
      BY <2>3, <2>7, <3>1, RefreshedSound
    <3>3. Accrued(r) = res
      BY <2>7, <3>1 DEF Accrued
    <3> QED BY <2>6, <3>2, <3>3 DEF Follows
  <2> QED BY <2>1, <2>2, <2>5, <2>6, <2>8
<1> QED BY <1>1, AccountsInvariant, PTL

-----------------------------------------------------------------------------
\* The vaults: an initialised reserve's token account holds what the reserve
\* counts as available, another's holds nothing.

TokensTyped == token \in [Reserves -> [Holders -> Nat]]
InVault(r) == token[r][Vault]
Counted(r) == IF Live(reserve[r]) THEN reserve[r].available_amount ELSE 0

Cash == TokensTyped /\ \A r \in Reserves : InVault(r) = Counted(r)

\* The holders of tokens: the vault and the fee accounts are no user's.
LEMMA HoldersApart ==
    /\ Vault \in Holders /\ FeeReceiver \in Holders /\ Host \in Holders
    /\ Vault # FeeReceiver /\ Vault # Host /\ FeeReceiver # Host
    /\ \A u \in Users : u \in Holders /\ u # Vault /\ u # FeeReceiver /\ u # Host
BY AccountsAssumption DEF Holders, Vault, FeeReceiver, Host

\* A transfer of what the source holds.
LEMMA MoveFacts ==
    ASSUME NEW t \in [Reserves -> [Holders -> Nat]], NEW r \in Reserves,
           NEW a \in Holders, NEW b \in Holders, a # b, NEW n \in Nat, t[r][a] >= n
    PROVE  LET m == Move(t, r, a, b, n)
           IN  /\ m \in [Reserves -> [Holders -> Nat]]
               /\ m[r][a] = t[r][a] - n /\ m[r][b] = t[r][b] + n
               /\ \A h \in Holders \ {a, b} : m[r][h] = t[r][h]
               /\ \A q \in Reserves \ {r} : m[q] = t[q]
<1> DEFINE f == [t[r] EXCEPT ![a] = t[r][a] - n]
           g == [f EXCEPT ![b] = f[b] + n]
<1>1. t[r] \in [Holders -> Nat] /\ t[r][a] \in Nat /\ t[r][b] \in Nat
  OBVIOUS
<1>2. t[r][a] - n \in Nat
  BY <1>1
<1>3. f \in [Holders -> Nat] /\ f[b] = t[r][b] /\ f[a] = t[r][a] - n
      /\ \A h \in Holders \ {a} : f[h] = t[r][h]
  BY <1>1, <1>2
<1>4. g \in [Holders -> Nat] /\ g[b] = t[r][b] + n /\ g[a] = t[r][a] - n
      /\ \A h \in Holders \ {a, b} : g[h] = t[r][h]
  <2> HIDE DEF f
  <2> QED BY <1>1, <1>3
<1>5. Move(t, r, a, b, n) = [t EXCEPT ![r] = g]
  BY DEF Move
<1> HIDE DEF f, g
<1> QED BY <1>4, <1>5

\* The vaults after a step that handles one reserve.
LEMMA CashHandled ==
    ASSUME Accounts, Cash, NEW r \in Reserves, NEW X, NEW d \in Int, Handled(r, X, d),
           token' \in [Reserves -> [Holders -> Nat]],
           token'[r][Vault] = token[r][Vault] + d,
           \A q \in Reserves \ {r} : token'[q] = token[q]
    PROVE  Cash'
<1>1. Live(X)
  BY DEF Handled, Onward, Sound, ReserveType, Live
<1>2. /\ reserve'[r] = X /\ X.available_amount = reserve[r].available_amount + d
      /\ Live(reserve[r])
      /\ \A q \in Reserves \ {r} : reserve'[q] = reserve[q]
  BY DEF Handled, Accounts
<1>3. InVault(r)' = Counted(r)'
  BY <1>1, <1>2 DEF Cash, InVault, Counted
<1>4. \A q \in Reserves \ {r} : InVault(q)' = Counted(q)'
  BY <1>2 DEF Cash, InVault, Counted
<1> QED BY <1>3, <1>4 DEF Cash, TokensTyped

\* No tokens move; some come in; some go out.
LEMMA CashStays ==
    ASSUME Accounts, Cash, NEW r \in Reserves, NEW X, Handled(r, X, 0), token' = token
    PROVE  Cash'
<1>1. token[r][Vault] + 0 = token[r][Vault]
  BY HoldersApart DEF Cash, TokensTyped
<1> QED BY <1>1, CashHandled DEF Cash, TokensTyped

LEMMA CashIn ==
    ASSUME Accounts, Cash, NEW r \in Reserves, NEW X, NEW n \in Nat, Handled(r, X, n),
           NEW u \in Users, token[r][u] >= n, token' = Move(token, r, u, Vault, n)
    PROVE  Cash'
<1>1. /\ token' \in [Reserves -> [Holders -> Nat]]
      /\ token'[r][Vault] = token[r][Vault] + n
      /\ \A q \in Reserves \ {r} : token'[q] = token[q]
  <2>1. Vault \in Holders /\ u \in Holders /\ u # Vault
    BY HoldersApart
  <2>2. token \in [Reserves -> [Holders -> Nat]]
    BY DEF Cash, TokensTyped
  <2> QED BY <2>1, <2>2, MoveFacts
<1> QED BY <1>1, CashHandled

LEMMA CashOut ==
    ASSUME Accounts, Cash, NEW r \in Reserves, NEW X, NEW n \in Nat, Handled(r, X, -n),
           NEW h \in Holders, h # Vault, token[r][Vault] >= n,
           token' = Move(token, r, Vault, h, n)
    PROVE  Cash'
<1>1. /\ token' \in [Reserves -> [Holders -> Nat]]
      /\ token'[r][Vault] = token[r][Vault] - n
      /\ \A q \in Reserves \ {r} : token'[q] = token[q]
  <2>1. Vault \in Holders
    BY HoldersApart
  <2>2. token \in [Reserves -> [Holders -> Nat]]
    BY DEF Cash, TokensTyped
  <2> QED BY <2>1, <2>2, MoveFacts
<1>2. token[r][Vault] \in Nat
  BY HoldersApart DEF Cash, TokensTyped
<1>3. token'[r][Vault] = token[r][Vault] + (-n) /\ -n \in Int
  BY <1>1, <1>2
<1> QED BY <1>1, <1>3, CashHandled

\* The vaults are empty at first.
LEMMA CashInit == Init => Cash
<1> SUFFICES ASSUME Init PROVE Cash
  OBVIOUS
<1>1. \A r \in Reserves : ~Live(reserve[r])
  BY DEF Init, Live, Blank
<1>2. TokensTyped
  BY AmountsAssumption DEF Init, TokensTyped
<1>3. \A r \in Reserves : token[r][Vault] = 0
  <2>1. Vault \in Holders /\ Vault \notin Users
    BY HoldersApart
  <2> QED BY <2>1 DEF Init
<1> QED BY <1>1, <1>2, <1>3 DEF Cash, InVault, Counted

\* An obligation's owner is a user.
LEMMA OwnerIsUser ==
    ASSUME Accounts, NEW o \in Obligations, Live(obligation[o])
    PROVE  obligation[o].owner \in Users
BY LiveSound DEF ObligationSound, ObligationType

\* The vault and the reserve move together, handler by handler.
LEMMA CashOpen ==
    ASSUME Accounts, Cash, OpenAccounts
    PROVE  Cash'
<1>1. ASSUME NEW o \in Obligations, InitObligation(o)  PROVE Cash'
  BY <1>1 DEF InitObligation, Cash, TokensTyped, InVault, Counted
<1>2. ASSUME NEW r \in Reserves, NEW u \in Users, InitReserve(r, u)  PROVE Cash'
  <2>1. PICK X : /\ ~Live(reserve[r]) /\ reserve' = [reserve EXCEPT ![r] = X]
                 /\ Sound(X, slot) /\ X.available_amount = FirstDeposit
    BY <1>2, InitReserveDoes
  <2>2. token[r][u] >= FirstDeposit /\ token' = Move(token, r, u, Vault, FirstDeposit)
        /\ FirstDeposit \in Nat
    BY <1>2, AmountsAssumption DEF InitReserve
  <2>3. /\ token' \in [Reserves -> [Holders -> Nat]]
        /\ token'[r][Vault] = token[r][Vault] + FirstDeposit
        /\ \A q \in Reserves \ {r} : token'[q] = token[q]
    <3>1. Vault \in Holders /\ u \in Holders /\ u # Vault
      BY HoldersApart
    <3>2. token \in [Reserves -> [Holders -> Nat]]
      BY DEF Cash, TokensTyped
    <3> QED BY <2>2, <3>1, <3>2, MoveFacts
  <2>4. Live(X)
    BY <2>1 DEF Sound, ReserveType, Live
  <2>5. reserve'[r] = X /\ \A q \in Reserves \ {r} : reserve'[q] = reserve[q]
    BY <2>1 DEF Accounts
  <2>6. token[r][Vault] = 0
    BY <2>1 DEF Cash, InVault, Counted
  <2>7. InVault(r)' = Counted(r)'
    BY <2>1, <2>2, <2>3, <2>4, <2>5, <2>6 DEF InVault, Counted
  <2>8. \A q \in Reserves \ {r} : InVault(q)' = Counted(q)'
    BY <2>3, <2>5 DEF Cash, InVault, Counted
  <2> QED BY <2>3, <2>7, <2>8 DEF Cash, TokensTyped
<1> QED BY <1>1, <1>2 DEF OpenAccounts

LEMMA CashUpkeep ==
    ASSUME Accounts, Cash, Upkeep
    PROVE  Cash'
<1>1. ASSUME NEW r \in Reserves, RefreshReserve(r)  PROVE Cash'
  BY <1>1, RefreshReserveDoes, CashStays DEF RefreshReserve
<1>2. ASSUME NEW o \in Obligations, RefreshAnObligation(o)  PROVE Cash'
  BY <1>2 DEF RefreshAnObligation, Cash, TokensTyped, InVault, Counted
<1>3. ASSUME NEW r \in Reserves, RedeemProtocolFees(r)  PROVE Cash'
  <2>1. PICK X : \E n \in Nat : /\ Handled(r, X, -n) /\ token[r][Vault] >= n
                                /\ token' = Move(token, r, Vault, FeeReceiver, n)
    BY <1>3, RedeemProtocolFeesDoes
  <2> QED BY <2>1, HoldersApart, CashOut
<1> QED BY <1>1, <1>2, <1>3 DEF Upkeep

LEMMA CashPool ==
    ASSUME Accounts, Cash, Pool
    PROVE  Cash'
<1>1. ASSUME NEW r \in Reserves, NEW u \in Users, NEW n \in DepositAmounts, Deposit(u, r, n)
      PROVE  Cash'
  <2>1. n \in Nat /\ token[r][u] >= n /\ token' = Move(token, r, u, Vault, n)
    BY <1>1, AmountsAssumption DEF Deposit
  <2>2. PICK X : Handled(r, X, n)
    BY <1>1, <2>1, DepositDoes
  <2> QED BY <2>1, <2>2, CashIn
<1>2. ASSUME NEW r \in Reserves, NEW u \in Users, NEW n \in RedeemAmounts, Redeem(u, r, n)
      PROVE  Cash'
  <2>1. PICK X : \E liq \in Nat : /\ Handled(r, X, -liq) /\ token[r][Vault] >= liq
                                  /\ token' = Move(token, r, Vault, u, liq)
    BY <1>2, AmountsAssumption, RedeemDoes
  <2> QED BY <2>1, HoldersApart, CashOut
<1> QED BY <1>1, <1>2 DEF Pool

LEMMA CashCollateral ==
    ASSUME Accounts, Cash, Collateral
    PROVE  Cash'
<1>1. ASSUME NEW o \in Obligations, NEW r \in Reserves, NEW n \in PledgeAmounts,
             DepositObligation(o, r, n)
      PROVE  Cash'
  <2>1. token' = token
    BY <1>1 DEF DepositObligation
  <2>2. PICK X : Handled(r, X, 0)
    BY <1>1, AmountsAssumption, DepositObligationDoes
  <2> QED BY <2>1, <2>2, CashStays
<1>2. ASSUME NEW o \in Obligations, NEW r \in Reserves, NEW n \in PledgeAmounts,
             DepositAndPledge(o, r, n)
      PROVE  Cash'
  <2>1. PICK u : u = obligation[o].owner
    OBVIOUS
  <2>2. /\ n \in Nat /\ Live(obligation[o]) /\ token[r][u] >= n
        /\ token' = Move(token, r, u, Vault, n)
    BY <1>2, <2>1, AmountsAssumption DEF DepositAndPledge
  <2>3. u \in Users
    BY <2>1, <2>2, OwnerIsUser
  <2>4. PICK X : Handled(r, X, n)
    BY <1>2, <2>2, DepositAndPledgeDoes
  <2> QED BY <2>2, <2>3, <2>4, CashIn
<1>3. ASSUME NEW o \in Obligations, NEW r \in Reserves, NEW n \in WithdrawAmounts,
             WithdrawObligation(o, r, n)
      PROVE  Cash'
  BY <1>3 DEF WithdrawObligation, Cash, TokensTyped, InVault, Counted
<1>4. ASSUME NEW o \in Obligations, NEW r \in Reserves, NEW n \in WithdrawAmounts,
             WithdrawAndRedeem(o, r, n)
      PROVE  Cash'
  <2>1. PICK X, Y : \E coll, liq \in Nat :
           /\ Handled(r, X, -liq) /\ Obliged(o, Y) /\ token[r][Vault] >= liq
           /\ token' = Move(token, r, Vault, obligation[o].owner, liq)
    BY <1>4, AmountsAssumption, WithdrawAndRedeemDoes
  <2>2. obligation[o].owner \in Users
    BY <2>1, OwnerIsUser DEF Obliged
  <2> QED BY <2>1, <2>2, HoldersApart, CashOut
<1> QED BY <1>1, <1>2, <1>3, <1>4 DEF Collateral

LEMMA CashDebt ==
    ASSUME Accounts, Cash, Debt
    PROVE  Cash'
<1>1. ASSUME NEW o \in Obligations, NEW r \in Reserves, NEW n \in BorrowAmounts,
             NEW hosted \in BOOLEAN, Borrow(o, r, n, hosted)
      PROVE  Cash'
  <2>0. PICK X, Y : \E host, fee, receive \in Nat :
           /\ Handled(r, X, -(host + fee + receive)) /\ Obliged(o, Y)
           /\ token[r][Vault] >= host + fee + receive
           /\ token' = Move(Move(Move(token, r, Vault, Host, host), r, Vault, FeeReceiver, fee),
                            r, Vault, obligation[o].owner, receive)
    <3>1. n \in Nat
      BY AmountsAssumption
    <3> QED BY <1>1, <3>1, BorrowDoes
  <2>1. PICK host \in Nat, fee \in Nat, receive \in Nat :
           /\ Handled(r, X, -(host + fee + receive)) /\ Obliged(o, Y)
           /\ token[r][Vault] >= host + fee + receive
           /\ token' = Move(Move(Move(token, r, Vault, Host, host), r, Vault, FeeReceiver, fee),
                            r, Vault, obligation[o].owner, receive)
    BY <2>0
  <2>2. PICK u \in Users : u = obligation[o].owner
    BY <2>1, OwnerIsUser DEF Obliged
  <2>3. PICK t1 : t1 = Move(token, r, Vault, Host, host)
    OBVIOUS
  <2>4. PICK t2 : t2 = Move(t1, r, Vault, FeeReceiver, fee)
    OBVIOUS
  <2>5. token' = Move(t2, r, Vault, u, receive)
    BY <2>1, <2>2, <2>3, <2>4
  <2>6. token \in [Reserves -> [Holders -> Nat]] /\ token[r][Vault] \in Nat
    BY HoldersApart DEF Cash, TokensTyped
  <2>7. /\ t1 \in [Reserves -> [Holders -> Nat]]
        /\ t1[r][Vault] = token[r][Vault] - host
        /\ \A q \in Reserves \ {r} : t1[q] = token[q]
    <3>1. token[r][Vault] >= host
      BY <2>1, <2>6
    <3>2. Vault \in Holders /\ Host \in Holders /\ Vault # Host
      BY HoldersApart
    <3> QED BY <2>3, <2>6, <3>1, <3>2, MoveFacts
  <2>8. /\ t2 \in [Reserves -> [Holders -> Nat]]
        /\ t2[r][Vault] = token[r][Vault] - host - fee
        /\ \A q \in Reserves \ {r} : t2[q] = token[q]
    <3>1. t1[r][Vault] >= fee
      BY <2>1, <2>6, <2>7
    <3>2. Vault \in Holders /\ FeeReceiver \in Holders /\ Vault # FeeReceiver
      BY HoldersApart
    <3>3. /\ t2 \in [Reserves -> [Holders -> Nat]]
          /\ t2[r][Vault] = t1[r][Vault] - fee
          /\ \A q \in Reserves \ {r} : t2[q] = t1[q]
      BY <2>4, <2>7, <3>1, <3>2, MoveFacts
    <3> QED BY <2>7, <3>3
  <2>9. /\ token' \in [Reserves -> [Holders -> Nat]]
        /\ token'[r][Vault] = t2[r][Vault] - receive
        /\ \A q \in Reserves \ {r} : token'[q] = token[q]
    <3>1. t2[r][Vault] >= receive
      BY <2>1, <2>6, <2>8
    <3>2. Vault \in Holders /\ u \in Holders /\ u # Vault
      BY HoldersApart
    <3>3. /\ token' \in [Reserves -> [Holders -> Nat]]
          /\ token'[r][Vault] = t2[r][Vault] - receive
          /\ \A q \in Reserves \ {r} : token'[q] = t2[q]
      BY <2>5, <2>8, <3>1, <3>2, MoveFacts
    <3> QED BY <2>8, <3>3
  <2>10. /\ token'[r][Vault] = token[r][Vault] + (-(host + fee + receive))
         /\ -(host + fee + receive) \in Int
    BY <2>6, <2>8, <2>9
  <2> QED BY <2>1, <2>9, <2>10, CashHandled
<1>2. ASSUME NEW o \in Obligations, NEW r \in Reserves, NEW u \in Users, NEW n \in RepayAmounts,
             Repay(u, o, r, n)
      PROVE  Cash'
  <2>1. PICK X : \E m \in Nat : /\ Handled(r, X, m) /\ token[r][u] >= m
                                /\ token' = Move(token, r, u, Vault, m)
    BY <1>2, AmountsAssumption, RepayDoes
  <2> QED BY <2>1, CashIn
<1>3. ASSUME NEW o \in Obligations, NEW r \in Reserves, NEW n \in ForgiveAmounts,
             ForgiveDebt(o, r, n)
      PROVE  Cash'
  <2>1. token' = token
    BY <1>3 DEF ForgiveDebt
  <2>2. PICK X : Handled(r, X, 0)
    BY <1>3, AmountsAssumption, ForgiveDebtDoes
  <2> QED BY <2>1, <2>2, CashStays
<1> QED BY <1>1, <1>2, <1>3 DEF Debt

\* The tokens after a liquidation's payments.
LEMMA PaymentFacts ==
    ASSUME Accounts, Cash, NEW u \in Users, NEW debt \in Reserves, NEW coll \in Reserves,
           NEW repay \in Nat, NEW liq \in Nat, NEW fee \in Nat,
           Live(reserve[debt]), Live(reserve[coll]), token[debt][u] >= repay,
           liq =< reserve[coll].available_amount + (IF coll = debt THEN repay ELSE 0),
           LiquidationPays(u, debt, coll, repay, liq, fee)
    PROVE  /\ token' \in [Reserves -> [Holders -> Nat]]
           /\ \A r \in Reserves :
                 token'[r][Vault] = token[r][Vault] + (IF r = debt THEN repay ELSE 0)
                                                    - (IF r = coll THEN liq ELSE 0)
<1>1. token \in [Reserves -> [Holders -> Nat]] /\ \A r \in Reserves : token[r][Vault] \in Nat
  BY HoldersApart DEF Cash, TokensTyped
<1>2. PICK paid : paid = Move(token, debt, u, Vault, repay)
  OBVIOUS
<1>3. /\ paid \in [Reserves -> [Holders -> Nat]]
      /\ paid[debt][Vault] = token[debt][Vault] + repay
      /\ \A q \in Reserves \ {debt} : paid[q] = token[q]
  <2>1. Vault \in Holders /\ u \in Holders /\ u # Vault
    BY HoldersApart
  <2> QED BY <1>1, <1>2, <2>1, MoveFacts
<1>4. \A r \in Reserves : paid[r][Vault] = token[r][Vault] + (IF r = debt THEN repay ELSE 0)
  BY <1>1, <1>3
<1>5. CASE liq = 0 /\ token' = Move(token, debt, u, Vault, repay)
  BY <1>1, <1>2, <1>3, <1>4, <1>5
<1>6. CASE LET received == Move(Move(token, debt, u, Vault, repay), coll, Vault, u, liq)
           IN  received[coll][u] >= fee /\ token' = Move(received, coll, u, FeeReceiver, fee)
  <2>1. PICK received : received = Move(paid, coll, Vault, u, liq)
    OBVIOUS
  <2>2. received[coll][u] >= fee /\ token' = Move(received, coll, u, FeeReceiver, fee)
    BY <1>2, <1>6, <2>1
  <2>3. paid[coll][Vault] >= liq
    BY <1>4 DEF Cash, InVault, Counted
  <2>4. /\ received \in [Reserves -> [Holders -> Nat]]
        /\ received[coll][Vault] = paid[coll][Vault] - liq
        /\ \A q \in Reserves \ {coll} : received[q] = paid[q]
    <3>1. Vault \in Holders /\ u \in Holders /\ Vault # u
      BY HoldersApart
    <3> QED BY <1>3, <2>1, <2>3, <3>1, MoveFacts
  <2>5. /\ token' \in [Reserves -> [Holders -> Nat]]
        /\ token'[coll][Vault] = received[coll][Vault]
        /\ \A q \in Reserves \ {coll} : token'[q] = received[q]
    <3>1. u \in Holders /\ FeeReceiver \in Holders /\ Vault \in Holders \ {u, FeeReceiver}
          /\ u # FeeReceiver
      BY HoldersApart
    <3> QED BY <2>2, <2>4, <3>1, MoveFacts
  <2>6. ASSUME NEW r \in Reserves
        PROVE  token'[r][Vault] = token[r][Vault] + (IF r = debt THEN repay ELSE 0)
                                                  - (IF r = coll THEN liq ELSE 0)
    <3>1. /\ paid[r][Vault] = token[r][Vault] + (IF r = debt THEN repay ELSE 0)
          /\ paid[r][Vault] \in Nat /\ token[r][Vault] \in Nat
      BY <1>1, <1>3, <1>4, HoldersApart
    <3>2. CASE r = coll
      <4>1. token'[r][Vault] = paid[r][Vault] - liq
        BY <2>4, <2>5, <3>2
      <4> QED BY <3>1, <3>2, <4>1
    <3>3. CASE r # coll
      <4>1. token'[r][Vault] = paid[r][Vault]
        BY <2>4, <2>5, <3>3
      <4> QED BY <3>1, <3>3, <4>1
    <3> QED BY <3>2, <3>3
  <2> QED BY <2>5, <2>6
<1> QED BY <1>5, <1>6 DEF LiquidationPays

LEMMA CashLiquidate ==
    ASSUME Accounts, Cash, Liquidations
    PROVE  Cash'
<1>1. PICK u \in Users, o \in Obligations, debt \in Reserves, coll \in Reserves,
           n \in LiquidateAmounts : Liquidate(u, o, debt, coll, n)
  BY DEF Liquidations
<1>2. PICK repay \in Nat, liq \in Nat, fee \in Nat :
         /\ ReservesOnward(reserve, reserve', slot)
         /\ AvailableAfter(debt, coll, repay, liq)
         /\ liq =< reserve[coll].available_amount + (IF coll = debt THEN repay ELSE 0)
         /\ Live(reserve[debt]) /\ Live(reserve[coll])
         /\ token[debt][u] >= repay /\ LiquidationPays(u, debt, coll, repay, liq, fee)
  <2>1. PICK Y : \E repay, withdraw, redeemed, liq, fee \in Nat :
           LiquidationDone(u, o, debt, coll, Y, repay, withdraw, redeemed, liq, fee)
    BY <1>1, AmountsAssumption, LiquidateDoes
  <2> QED BY <2>1 DEF LiquidationDone
<1>3. /\ token' \in [Reserves -> [Holders -> Nat]]
      /\ \A r \in Reserves :
            token'[r][Vault] = token[r][Vault] + (IF r = debt THEN repay ELSE 0)
                                               - (IF r = coll THEN liq ELSE 0)
  BY <1>2, PaymentFacts
<1>4. ASSUME NEW r \in Reserves  PROVE InVault(r)' = Counted(r)'
  <2>1. CASE Live(reserve'[r])
    <3>1. /\ Live(reserve[r])
          /\ reserve'[r].available_amount =
                reserve[r].available_amount + (IF r = debt THEN repay ELSE 0)
                                            - (IF r = coll THEN liq ELSE 0)
      BY <1>2, <2>1 DEF AvailableAfter
    <3>2. token[r][Vault] = reserve[r].available_amount
      BY <3>1 DEF Cash, InVault, Counted
    <3> QED BY <1>3, <2>1, <3>1, <3>2 DEF InVault, Counted
  <2>2. CASE ~Live(reserve'[r])
    <3>1. ~Live(reserve[r])
      BY <1>2, <2>2 DEF ReservesOnward
    <3>2. r # debt /\ r # coll /\ token[r][Vault] = 0
      BY <1>2, <3>1 DEF Cash, InVault, Counted
    <3> QED BY <1>3, <2>2, <3>2 DEF InVault, Counted
  <2> QED BY <2>1, <2>2
<1> QED BY <1>3, <1>4 DEF Cash, TokensTyped

LEMMA CashAdministration ==
    ASSUME Accounts, Cash, Administration
    PROVE  Cash'
<1>1. ASSUME NEW r \in Reserves, NEW signer \in Admins, NEW c \in Reconfigs,
             NEW l \in LimiterConfigs, UpdateReserveConfig(r, signer, c, l)
      PROVE  Cash'
  <2>1. token' = token
    BY <1>1 DEF UpdateReserveConfig
  <2>2. PICK X : Handled(r, X, 0)
    BY <1>1, UpdateReserveConfigDoes
  <2> QED BY <2>1, <2>2, CashStays
<1>2. ASSUME token' = token /\ reserve' = reserve  PROVE Cash'
  BY <1>2 DEF Cash, TokensTyped, InVault, Counted
<1> QED BY <1>1, <1>2 DEF Administration, SetOwnerAndConfig, SetRiskAuthority

\* Every step keeps the vaults what the reserves count.
LEMMA CashStep == Accounts /\ Cash /\ [Next]_vars => Cash'
<1> SUFFICES ASSUME Accounts, Cash, [Next]_vars  PROVE Cash'
  OBVIOUS
<1>1. ASSUME token' = token /\ reserve' = reserve  PROVE Cash'
  BY <1>1 DEF Cash, TokensTyped, InVault, Counted
<1>2. CASE UNCHANGED vars \/ Tick
  BY <1>1, <1>2 DEF vars, Tick
<1> QED BY <1>2, CashOpen, CashUpkeep, CashPool, CashCollateral, CashDebt, CashLiquidate,
          CashAdministration DEF Next

\* The vaults, for every constant.
THEOREM CashInvariant == Spec => []Cash
<1>1. Init => Cash
  BY CashInit
<1>2. Accounts /\ Cash /\ [Next]_vars => Cash'
  BY CashStep
<1> QED BY <1>1, <1>2, AccountsInvariant, PTL DEF Spec

\* The liquidity a reserve counts as available is in its vault, through every
\* fee, rounding and liquidation.
THEOREM VaultHolds == Spec => []VaultHoldsAvailable
<1>1. Cash => VaultHoldsAvailable
  BY DEF Cash, InVault, Counted, VaultHoldsAvailable, LiveReserves
<1> QED BY <1>1, CashInvariant, PTL

-----------------------------------------------------------------------------
\* The collateral tokens: those minted are someone's, and those in custody are
\* what the obligations count as deposited.

Owners == Users \cup {Custody}
PledgesIn(r) == [o \in Obligations |-> PledgeOf(obligation[o], r)]
Outstanding(r) == SumFunctionOnSet(ctoken[r], Owners)
PledgedIn(r) == SumFunctionOnSet(PledgesIn(r), Obligations)

Shares ==
    /\ ctoken \in [Reserves -> [Owners -> Nat]]
    /\ minted \in [Reserves -> Nat]
    /\ \A r \in Reserves : minted[r] = Outstanding(r)
    /\ \A r \in Reserves : ctoken[r][Custody] = PledgedIn(r)

\* Custody is no user.
LEMMA OwnersApart ==
    /\ IsFiniteSet(Owners) /\ IsFiniteSet(Obligations)
    /\ Custody \in Owners
    /\ \A u \in Users : u \in Owners /\ u # Custody
<1>1. IsFiniteSet(Users \cup {Custody})
  BY AccountsAssumption, FS_AddElement
<1> QED BY <1>1, AccountsAssumption DEF Owners

\* Every pledge is a natural.
LEMMA PledgeNat ==
    ASSUME Accounts, NEW o \in Obligations, NEW r \in Reserves
    PROVE  PledgeOf(obligation[o], r) \in Nat
<1>1. CASE Live(obligation[o]) /\ r \in DOMAIN obligation[o].deposits
  <2>1. PICK ds : ds = obligation[o].deposits
    OBVIOUS
  <2>2. ds \in [DOMAIN ds -> DepositType]
    BY <1>1, <2>1, LiveSound DEF ObligationSound, DepositsSound
  <2>3. ds[r].deposited_amount \in Nat
    BY <1>1, <2>1, <2>2 DEF DepositType
  <2> QED BY <1>1, <2>1, <2>3 DEF PledgeOf
<1>2. CASE ~(Live(obligation[o]) /\ r \in DOMAIN obligation[o].deposits)
  BY <1>2 DEF PledgeOf
<1> QED BY <1>1, <1>2

\* What the obligations count after one of them changed.
LEMMA PledgedKept ==
    ASSUME Accounts, NEW o \in Obligations, NEW Y,
           obligation' = [obligation EXCEPT ![o] = Y], NEW r \in Reserves,
           PledgeOf(Y, r) = PledgeOf(obligation[o], r)
    PROVE  PledgedIn(r)' = PledgedIn(r)
<1>1. \A p \in Obligations : PledgesIn(r)'[p] = PledgesIn(r)[p]
  BY DEF PledgesIn, Accounts
<1>2. PICK f : f = PledgesIn(r)
  OBVIOUS
<1>3. PICK g : g = PledgesIn(r)'
  OBVIOUS
<1>4. SumFunctionOnSet(f, Obligations) = SumFunctionOnSet(g, Obligations)
  BY <1>1, <1>2, <1>3, OwnersApart, SumEqual
<1> QED BY <1>2, <1>3, <1>4 DEF PledgedIn

\* What they count when it now pledges d more to r.
LEMMA PledgedMoved ==
    ASSUME Accounts, NEW o \in Obligations, NEW Y,
           obligation' = [obligation EXCEPT ![o] = Y], NEW r \in Reserves, NEW d \in Int,
           PledgeOf(Y, r) = PledgeOf(obligation[o], r) + d
    PROVE  PledgedIn(r)' = PledgedIn(r) + d
<1>1. PICK f : f = PledgesIn(r)
  OBVIOUS
<1>2. PICK g : g = PledgesIn(r)'
  OBVIOUS
<1>3. /\ \A p \in Obligations : f[p] \in Int
      /\ f[o] = PledgeOf(obligation[o], r) /\ f[o] \in Nat
  BY <1>1, PledgeNat DEF PledgesIn
<1>4. g[o] = f[o] + d /\ \A p \in Obligations \ {o} : g[p] = f[p]
  BY <1>1, <1>2 DEF PledgesIn, Accounts
<1>5. g[o] \in Int
  BY <1>3, <1>4
<1>6. SumFunctionOnSet(g, Obligations) = SumFunctionOnSet(f, Obligations) - f[o] + g[o]
  BY <1>3, <1>4, <1>5, OwnersApart, SumUpdate
<1>7. SumFunctionOnSet(f, Obligations) \in Int
  BY <1>3, OwnersApart, SumInt
<1> QED BY <1>1, <1>2, <1>3, <1>4, <1>6, <1>7 DEF PledgedIn

\* The holdings of one reserve's collateral tokens become f, with m minted:
\* the shares are right if m is the sum of f and its custody what is pledged.
LEMMA SharesChanged ==
    ASSUME Shares, NEW r \in Reserves, NEW f \in [Owners -> Nat], NEW m,
           ctoken' = [ctoken EXCEPT ![r] = f], minted' = [minted EXCEPT ![r] = m],
           m = SumFunctionOnSet(f, Owners), f[Custody] = PledgedIn(r)',
           \A q \in Reserves \ {r} : PledgedIn(q)' = PledgedIn(q)
    PROVE  Shares'
<1>1. m \in Nat
  BY OwnersApart, SumNat
<1>2. ctoken' \in [Reserves -> [Owners -> Nat]] /\ minted' \in [Reserves -> Nat]
  BY <1>1 DEF Shares
<1>3. /\ ctoken'[r] = f /\ minted'[r] = m
      /\ \A q \in Reserves \ {r} : ctoken'[q] = ctoken[q] /\ minted'[q] = minted[q]
  BY DEF Shares
<1>4. \A q \in Reserves : minted'[q] = Outstanding(q)'
  BY <1>3 DEF Shares, Outstanding
<1>5. \A q \in Reserves : ctoken'[q][Custody] = PledgedIn(q)'
  BY <1>3 DEF Shares
<1> QED BY <1>2, <1>4, <1>5 DEF Shares

\* One holder's tokens are minted or burnt.
LEMMA OneHolder ==
    ASSUME Shares, NEW r \in Reserves, NEW h \in Owners, NEW d \in Int,
           ctoken[r][h] + d >= 0,
           ctoken' = [ctoken EXCEPT ![r][h] = ctoken[r][h] + d],
           minted' = [minted EXCEPT ![r] = minted[r] + d],
           PledgedIn(r)' = PledgedIn(r) + (IF h = Custody THEN d ELSE 0),
           \A q \in Reserves \ {r} : PledgedIn(q)' = PledgedIn(q)
    PROVE  Shares'
<1>1. PICK c : c = ctoken[r]
  OBVIOUS
<1>2. c \in [Owners -> Nat] /\ minted[r] = SumFunctionOnSet(c, Owners) /\ minted[r] \in Nat
  BY <1>1 DEF Shares, Outstanding
<1>3. PICK f : f = [c EXCEPT ![h] = c[h] + d]
  OBVIOUS
<1>4. /\ f \in [Owners -> Nat] /\ f[h] = c[h] + d
      /\ \A x \in Owners \ {h} : f[x] = c[x]
  BY <1>1, <1>2, <1>3
<1>5. ctoken' = [ctoken EXCEPT ![r] = f]
  BY <1>1, <1>3
<1>6. SumFunctionOnSet(f, Owners) = SumFunctionOnSet(c, Owners) - c[h] + f[h]
  BY <1>2, <1>4, OwnersApart, SumUpdate
<1>7. SumFunctionOnSet(f, Owners) = minted[r] + d
  BY <1>2, <1>4, <1>6
<1>8. f[Custody] = PledgedIn(r)'
  BY <1>1, <1>2, <1>4, OwnersApart DEF Shares
<1> QED BY <1>4, <1>5, <1>7, <1>8, SharesChanged

\* Some move from one holder to another, less what is burnt on the way.
LEMMA TwoHolders ==
    ASSUME Shares, NEW r \in Reserves, NEW h \in Owners, NEW k \in Owners, h # k,
           NEW d \in Int, NEW e \in Int, ctoken[r][h] + d >= 0, ctoken[r][k] + e >= 0,
           ctoken' = [ctoken EXCEPT ![r][h] = ctoken[r][h] + d, ![r][k] = ctoken[r][k] + e],
           minted' = [minted EXCEPT ![r] = minted[r] + (d + e)],
           PledgedIn(r)' = PledgedIn(r) + (IF h = Custody THEN d ELSE IF k = Custody THEN e ELSE 0),
           \A q \in Reserves \ {r} : PledgedIn(q)' = PledgedIn(q)
    PROVE  Shares'
<1>1. PICK c : c = ctoken[r]
  OBVIOUS
<1>2. c \in [Owners -> Nat] /\ minted[r] = SumFunctionOnSet(c, Owners) /\ minted[r] \in Nat
  BY <1>1 DEF Shares, Outstanding
<1>3. PICK f : f = [c EXCEPT ![h] = c[h] + d, ![k] = c[k] + e]
  OBVIOUS
<1>4. /\ f \in [Owners -> Nat] /\ f[h] = c[h] + d /\ f[k] = c[k] + e
      /\ \A x \in Owners \ {h, k} : f[x] = c[x]
  BY <1>1, <1>2, <1>3
<1>5. ctoken' = [ctoken EXCEPT ![r] = f]
  BY <1>1, <1>3
<1>6. SumFunctionOnSet(f, Owners)
         = SumFunctionOnSet(c, Owners) - c[h] - c[k] + f[h] + f[k]
  BY <1>2, <1>4, OwnersApart, SumUpdateTwo
<1>7. SumFunctionOnSet(f, Owners) = minted[r] + (d + e)
  BY <1>2, <1>4, <1>6
<1>8. f[Custody] = PledgedIn(r)'
  BY <1>1, <1>2, <1>4, OwnersApart DEF Shares
<1> QED BY <1>4, <1>5, <1>7, <1>8, SharesChanged

\* No tokens move and nothing is pledged or released.
LEMMA SharesKept ==
    ASSUME Shares, ctoken' = ctoken, minted' = minted,
           \A r \in Reserves : PledgedIn(r)' = PledgedIn(r)
    PROVE  Shares'
BY DEF Shares, Outstanding

\* The obligations unchanged pledge the same.
LEMMA SameObligations ==
    ASSUME obligation' = obligation, NEW r \in Reserves
    PROVE  PledgedIn(r)' = PledgedIn(r)
BY DEF PledgedIn, PledgesIn

\* The pledges after a change of one obligation.
LEMMA ObligedPledges ==
    ASSUME Accounts, NEW o \in Obligations, NEW Y, Obliged(o, Y)
    PROVE  /\ KeepsPledges(o, Y) => \A r \in Reserves : PledgedIn(r)' = PledgedIn(r)
           /\ \A r \in Reserves : \A d \in Int : Pledged(o, Y, r, d) =>
                 /\ PledgedIn(r)' = PledgedIn(r) + d
                 /\ \A q \in Reserves \ {r} : PledgedIn(q)' = PledgedIn(q)
BY PledgedKept, PledgedMoved DEF Obliged, KeepsPledges, Pledged

\* The holders' and the pledges' numbers.
LEMMA SharesNat ==
    ASSUME Accounts, Shares, NEW r \in Reserves
    PROVE  /\ minted[r] \in Nat /\ PledgedIn(r) \in Nat
           /\ \A h \in Owners : ctoken[r][h] \in Nat
BY OwnersApart DEF Shares

\* No tokens are minted at first.
LEMMA SharesInit == Init => Shares
<1> SUFFICES ASSUME Init PROVE Shares
  OBVIOUS
<1>1. /\ ctoken = [r \in Reserves |-> [h \in Owners |-> 0]]
      /\ minted = [r \in Reserves |-> 0]
      /\ \A o \in Obligations : ~Live(obligation[o])
  BY DEF Init, Live, Blank, Owners
<1>2. ASSUME NEW r \in Reserves  PROVE Outstanding(r) = 0 /\ PledgedIn(r) = 0
  <2>1. PICK c : c = ctoken[r]
    OBVIOUS
  <2>2. SumFunctionOnSet(c, Owners) = 0
    BY <1>1, <2>1, OwnersApart, SumZero
  <2>3. PICK f : f = PledgesIn(r)
    OBVIOUS
  <2>4. \A o \in Obligations : f[o] = 0
    BY <1>1, <2>3 DEF PledgesIn, PledgeOf
  <2>5. SumFunctionOnSet(f, Obligations) = 0
    BY <2>4, OwnersApart, SumZero
  <2> QED BY <2>1, <2>2, <2>3, <2>5 DEF Outstanding, PledgedIn
<1> QED BY <1>1, <1>2, OwnersApart DEF Shares

\* Tokens minted for a user, and burnt from one; the obligations are left alone.
LEMMA SharesMinted ==
    ASSUME Accounts, Shares, obligation' = obligation, NEW r \in Reserves, NEW u \in Users,
           NEW n \in Nat, ctoken' = [ctoken EXCEPT ![r][u] = @ + n],
           minted' = [minted EXCEPT ![r] = @ + n]
    PROVE  Shares'
<1>1. u \in Owners /\ u # Custody
  BY OwnersApart
<1>2. ctoken[r][u] \in Nat /\ minted[r] \in Nat /\ PledgedIn(r) \in Nat
  BY <1>1, SharesNat
<1>3. PledgedIn(r)' = PledgedIn(r) + (IF u = Custody THEN n ELSE 0)
  BY <1>1, <1>2, SameObligations
<1>4. \A q \in Reserves \ {r} : PledgedIn(q)' = PledgedIn(q)
  BY SameObligations
<1>5. n \in Int /\ ctoken[r][u] + n >= 0
  BY <1>2
<1>6. /\ ctoken' = [ctoken EXCEPT ![r][u] = ctoken[r][u] + n]
      /\ minted' = [minted EXCEPT ![r] = minted[r] + n]
  OBVIOUS
<1> QED BY <1>1, <1>3, <1>4, <1>5, <1>6, OneHolder

\* Tokens burnt.
LEMMA SharesBurnt ==
    ASSUME Accounts, Shares, obligation' = obligation, NEW r \in Reserves, NEW u \in Users,
           NEW n \in Nat, ctoken[r][u] >= n, ctoken' = [ctoken EXCEPT ![r][u] = @ - n],
           minted' = [minted EXCEPT ![r] = @ - n]
    PROVE  Shares'
<1>1. u \in Owners /\ u # Custody
  BY OwnersApart
<1>2. ctoken[r][u] \in Nat /\ minted[r] \in Nat /\ PledgedIn(r) \in Nat
  BY <1>1, SharesNat
<1>3. PICK d \in Int : d = -n
  OBVIOUS
<1>4. /\ ctoken' = [ctoken EXCEPT ![r][u] = ctoken[r][u] + d]
      /\ minted' = [minted EXCEPT ![r] = minted[r] + d]
      /\ ctoken[r][u] + d >= 0
  <2>1. /\ ctoken[r][u] - n = ctoken[r][u] + d /\ minted[r] - n = minted[r] + d
        /\ ctoken[r][u] + d >= 0
    BY <1>2, <1>3
  <2>2. /\ ctoken' = [ctoken EXCEPT ![r][u] = ctoken[r][u] - n]
        /\ minted' = [minted EXCEPT ![r] = minted[r] - n]
    OBVIOUS
  <2> QED BY <2>1, <2>2
<1>5. PledgedIn(r)' = PledgedIn(r) + (IF u = Custody THEN d ELSE 0)
  BY <1>1, <1>2, SameObligations
<1>6. \A q \in Reserves \ {r} : PledgedIn(q)' = PledgedIn(q)
  BY SameObligations
<1> QED BY <1>1, <1>4, <1>5, <1>6, OneHolder

\* The holdings stay right, handler by handler.
LEMMA SharesOpen ==
    ASSUME Accounts, Shares, OpenAccounts
    PROVE  Shares'
<1>1. ASSUME NEW r \in Reserves, NEW u \in Users, InitReserve(r, u)
      PROVE  Shares'
  <2>1. PICK X : \E new \in Nat :
           /\ ctoken' = [ctoken EXCEPT ![r][u] = @ + new]
           /\ minted' = [minted EXCEPT ![r] = @ + new]
    BY <1>1, InitReserveDoes
  <2>2. PICK new \in Nat :
           /\ ctoken' = [ctoken EXCEPT ![r][u] = @ + new]
           /\ minted' = [minted EXCEPT ![r] = @ + new]
    BY <2>1
  <2>3. obligation' = obligation
    BY <1>1 DEF InitReserve
  <2> QED BY <2>2, <2>3, SharesMinted
<1>2. ASSUME NEW o \in Obligations, InitObligation(o)
      PROVE  Shares'
  <2>1. PICK Y : Y = NewObligation(slot, OwnerOf[o])
    OBVIOUS
  <2>2. /\ ~Live(obligation[o]) /\ obligation' = [obligation EXCEPT ![o] = Y]
        /\ ctoken' = ctoken /\ minted' = minted
    BY <1>2, <2>1 DEF InitObligation
  <2>3. DOMAIN Y.deposits = {}
    BY <2>1 DEF NewObligation
  <2>4. \A r \in Reserves : PledgeOf(Y, r) = PledgeOf(obligation[o], r)
    BY <2>2, <2>3 DEF PledgeOf
  <2>5. \A r \in Reserves : PledgedIn(r)' = PledgedIn(r)
    BY <2>2, <2>4, PledgedKept
  <2> QED BY <2>2, <2>5, SharesKept
<1> QED BY <1>1, <1>2 DEF OpenAccounts

LEMMA SharesUpkeep ==
    ASSUME Accounts, Shares, Upkeep
    PROVE  Shares'
<1>1. ASSUME NEW r \in Reserves, RefreshReserve(r) \/ RedeemProtocolFees(r)
      PROVE  Shares'
  <2>1. obligation' = obligation /\ ctoken' = ctoken /\ minted' = minted
    BY <1>1 DEF RefreshReserve, RedeemProtocolFees
  <2> QED BY <2>1, SameObligations, SharesKept
<1>2. ASSUME NEW o \in Obligations, RefreshAnObligation(o)
      PROVE  Shares'
  <2>1. PICK Y : Obliged(o, Y) /\ KeepsPledges(o, Y)
    BY <1>2, RefreshAnObligationDoes
  <2>2. \A r \in Reserves : PledgedIn(r)' = PledgedIn(r)
    BY <2>1, ObligedPledges
  <2>3. ctoken' = ctoken /\ minted' = minted
    BY <1>2 DEF RefreshAnObligation
  <2> QED BY <2>2, <2>3, SharesKept
<1> QED BY <1>1, <1>2 DEF Upkeep

\* A deposit mints for its depositor.
LEMMA SharesDeposited ==
    ASSUME Accounts, Shares, NEW u \in Users, NEW r \in Reserves, NEW n \in Nat, Deposit(u, r, n)
    PROVE  Shares'
<1>1. PICK new : new = LiquidityToCollateral(RefreshInterest(reserve[r], slot), n)
  OBVIOUS
<1>2. /\ Live(reserve[r]) /\ TotalSupply(RefreshInterest(reserve[r], slot)) >= 0
      /\ ctoken' = [ctoken EXCEPT ![r][u] = @ + new]
      /\ minted' = [minted EXCEPT ![r] = @ + new]
      /\ obligation' = obligation
  BY <1>1 DEF Deposit, CanDeposit
<1>3. new \in Nat
  BY <1>1, <1>2, DepositMints
<1> QED BY <1>2, <1>3, SharesMinted

LEMMA SharesPool ==
    ASSUME Accounts, Shares, Pool
    PROVE  Shares'
<1>1. ASSUME NEW u \in Users, NEW r \in Reserves, NEW n \in DepositAmounts, Deposit(u, r, n)
      PROVE  Shares'
  <2>1. n \in Nat
    BY AmountsAssumption
  <2> QED BY <1>1, <2>1, SharesDeposited
<1>2. ASSUME NEW u \in Users, NEW r \in Reserves, NEW n \in RedeemAmounts, Redeem(u, r, n)
      PROVE  Shares'
  <2>1. n \in Nat
    BY AmountsAssumption
  <2>2. /\ obligation' = obligation /\ ctoken[r][u] >= n
        /\ ctoken' = [ctoken EXCEPT ![r][u] = @ - n]
        /\ minted' = [minted EXCEPT ![r] = @ - n]
    BY <1>2 DEF Redeem
  <2> QED BY <2>1, <2>2, SharesBurnt
<1> QED BY <1>1, <1>2 DEF Pool

\* Tokens go into custody as they are pledged.
LEMMA SharesPledged ==
    ASSUME Accounts, Shares, NEW o \in Obligations, NEW r \in Reserves, NEW coll \in Nat,
           DepositObligation(o, r, coll)
    PROVE  Shares'
<1>1. PICK X, Y : Obliged(o, Y) /\ Pledged(o, Y, r, coll)
  BY DepositObligationDoes
<1>2. /\ PledgedIn(r)' = PledgedIn(r) + coll
      /\ \A q \in Reserves \ {r} : PledgedIn(q)' = PledgedIn(q)
  BY <1>1, ObligedPledges
<1>3. PICK u : u = obligation[o].owner
  OBVIOUS
<1>4. u \in Users
  BY <1>1, <1>3, LiveSound DEF Obliged, ObligationSound, ObligationType
<1>5. u \in Owners /\ Custody \in Owners /\ u # Custody
  BY <1>4, OwnersApart
<1>6. /\ ctoken[r][u] >= coll /\ minted' = minted
      /\ ctoken' = Move(ctoken, r, u, Custody, coll)
  BY <1>3 DEF DepositObligation
<1>7. ctoken[r][u] \in Nat /\ ctoken[r][Custody] \in Nat /\ minted[r] \in Nat
  BY <1>5, SharesNat
<1>8. PICK d \in Int : d = -coll
  OBVIOUS
<1>9. /\ ctoken[r][u] - coll = ctoken[r][u] + d /\ ctoken[r][u] + d >= 0
      /\ ctoken[r][Custody] + coll >= 0 /\ minted[r] + (d + coll) = minted[r]
  BY <1>6, <1>7, <1>8
<1>10. ctoken' = [ctoken EXCEPT ![r][u] = ctoken[r][u] + d,
                                ![r][Custody] = ctoken[r][Custody] + coll]
  BY <1>5, <1>6, <1>9 DEF Move, Shares
<1>11. minted' = [minted EXCEPT ![r] = minted[r] + (d + coll)]
  BY <1>6, <1>9 DEF Shares
<1>12. PledgedIn(r)' = PledgedIn(r) + (IF u = Custody THEN d ELSE IF Custody = Custody THEN coll ELSE 0)
  BY <1>2, <1>5
<1>13. d \in Int /\ coll \in Int /\ r \in Reserves
  BY <1>8
<1> QED BY <1>2, <1>5, <1>9, <1>10, <1>11, <1>12, <1>13, TwoHolders

\* Tokens are minted into custody, and burnt from it.
LEMMA SharesInCustody ==
    ASSUME Accounts, Shares, NEW o \in Obligations, NEW r \in Reserves, NEW Y, NEW d \in Int,
           Obliged(o, Y), Pledged(o, Y, r, d), ctoken[r][Custody] + d >= 0,
           ctoken' = [ctoken EXCEPT ![r][Custody] = ctoken[r][Custody] + d],
           minted' = [minted EXCEPT ![r] = minted[r] + d]
    PROVE  Shares'
<1>1. /\ PledgedIn(r)' = PledgedIn(r) + d
      /\ \A q \in Reserves \ {r} : PledgedIn(q)' = PledgedIn(q)
  BY ObligedPledges
<1>2. Custody \in Owners
  BY OwnersApart
<1>3. PledgedIn(r)' = PledgedIn(r) + (IF Custody = Custody THEN d ELSE 0)
  BY <1>1
<1> QED BY <1>1, <1>2, <1>3, OneHolder

\* Tokens leave custody for their owner.
LEMMA SharesReleased ==
    ASSUME Accounts, Shares, NEW o \in Obligations, NEW r \in Reserves, NEW asked \in Nat,
           WithdrawObligation(o, r, asked)
    PROVE  Shares'
<1>1. PICK Y : \E coll \in Nat :
         /\ Obliged(o, Y) /\ Pledged(o, Y, r, -coll)
         /\ ctoken[r][Custody] >= coll
         /\ ctoken' = Move(ctoken, r, Custody, obligation[o].owner, coll)
  BY WithdrawObligationDoes
<1>2. PICK coll \in Nat :
         /\ Obliged(o, Y) /\ Pledged(o, Y, r, -coll)
         /\ ctoken[r][Custody] >= coll
         /\ ctoken' = Move(ctoken, r, Custody, obligation[o].owner, coll)
  BY <1>1
<1>3. PICK d \in Int : d = -coll
  OBVIOUS
<1>4. /\ PledgedIn(r)' = PledgedIn(r) + d
      /\ \A q \in Reserves \ {r} : PledgedIn(q)' = PledgedIn(q)
  BY <1>2, <1>3, ObligedPledges
<1>5. PICK u : u = obligation[o].owner
  OBVIOUS
<1>6. u \in Users
  BY <1>2, <1>5, LiveSound DEF Obliged, ObligationSound, ObligationType
<1>7. u \in Owners /\ Custody \in Owners /\ u # Custody
  BY <1>6, OwnersApart
<1>8. ctoken[r][u] \in Nat /\ ctoken[r][Custody] \in Nat /\ minted[r] \in Nat
  BY <1>7, SharesNat
<1>9. /\ ctoken[r][Custody] - coll = ctoken[r][Custody] + d /\ ctoken[r][Custody] + d >= 0
      /\ ctoken[r][u] + coll >= 0 /\ minted[r] + (d + coll) = minted[r]
  BY <1>2, <1>3, <1>8
<1>10. ctoken' = [ctoken EXCEPT ![r][Custody] = ctoken[r][Custody] + d,
                                ![r][u] = ctoken[r][u] + coll]
  BY <1>2, <1>5, <1>7, <1>9 DEF Move, Shares
<1>11. minted' = [minted EXCEPT ![r] = minted[r] + (d + coll)]
  <2>1. minted' = minted
    BY DEF WithdrawObligation
  <2> QED BY <1>9, <2>1 DEF Shares
<1>12. PledgedIn(r)' = PledgedIn(r) + (IF Custody = Custody THEN d ELSE IF u = Custody THEN coll ELSE 0)
  BY <1>4
<1>13. d \in Int /\ coll \in Int /\ r \in Reserves
  BY <1>3
<1> QED BY <1>4, <1>7, <1>9, <1>10, <1>11, <1>12, <1>13, TwoHolders

LEMMA SharesCollateral ==
    ASSUME Accounts, Shares, Collateral
    PROVE  Shares'
<1>1. ASSUME NEW o \in Obligations, NEW r \in Reserves, NEW n \in PledgeAmounts,
             DepositObligation(o, r, n) \/ DepositAndPledge(o, r, n)
      PROVE  Shares'
  <2>1. n \in Nat
    BY AmountsAssumption
  <2>2. CASE DepositObligation(o, r, n)
    BY <2>1, <2>2, SharesPledged
  <2>3. CASE DepositAndPledge(o, r, n)
    <3>1. PICK X, Y : \E new \in Nat :
             /\ Obliged(o, Y) /\ Pledged(o, Y, r, new)
             /\ ctoken' = [ctoken EXCEPT ![r][Custody] = @ + new]
             /\ minted' = [minted EXCEPT ![r] = @ + new]
      BY <2>1, <2>3, DepositAndPledgeDoes
    <3>2. PICK new \in Nat :
             /\ Obliged(o, Y) /\ Pledged(o, Y, r, new)
             /\ ctoken' = [ctoken EXCEPT ![r][Custody] = @ + new]
             /\ minted' = [minted EXCEPT ![r] = @ + new]
      BY <3>1
    <3>3. ctoken[r][Custody] \in Nat
      BY OwnersApart, SharesNat
    <3>4. new \in Int /\ ctoken[r][Custody] + new >= 0
      BY <3>3
    <3>5. /\ ctoken' = [ctoken EXCEPT ![r][Custody] = ctoken[r][Custody] + new]
          /\ minted' = [minted EXCEPT ![r] = minted[r] + new]
      BY <3>2
    <3> QED BY <3>2, <3>4, <3>5, SharesInCustody
  <2> QED BY <1>1, <2>2, <2>3
<1>2. ASSUME NEW o \in Obligations, NEW r \in Reserves, NEW n \in WithdrawAmounts,
             WithdrawObligation(o, r, n) \/ WithdrawAndRedeem(o, r, n)
      PROVE  Shares'
  <2>1. n \in Nat
    BY AmountsAssumption
  <2>2. CASE WithdrawObligation(o, r, n)
    BY <2>1, <2>2, SharesReleased
  <2>3. CASE WithdrawAndRedeem(o, r, n)
    <3>1. PICK X, Y : \E coll, liq \in Nat :
             /\ Obliged(o, Y) /\ Pledged(o, Y, r, -coll)
             /\ ctoken[r][Custody] >= coll
             /\ ctoken' = [ctoken EXCEPT ![r][Custody] = @ - coll]
             /\ minted' = [minted EXCEPT ![r] = @ - coll]
      BY <2>1, <2>3, WithdrawAndRedeemDoes
    <3>2. PICK coll \in Nat :
             /\ Obliged(o, Y) /\ Pledged(o, Y, r, -coll)
             /\ ctoken[r][Custody] >= coll
             /\ ctoken' = [ctoken EXCEPT ![r][Custody] = @ - coll]
             /\ minted' = [minted EXCEPT ![r] = @ - coll]
      BY <3>1
    <3>3. ctoken[r][Custody] \in Nat /\ minted[r] \in Nat
      BY OwnersApart, SharesNat
    <3>4. PICK d \in Int : d = -coll
      OBVIOUS
    <3>5. /\ ctoken[r][Custody] - coll = ctoken[r][Custody] + d
          /\ minted[r] - coll = minted[r] + d /\ ctoken[r][Custody] + d >= 0
      BY <3>2, <3>3, <3>4
    <3>6. /\ ctoken' = [ctoken EXCEPT ![r][Custody] = ctoken[r][Custody] - coll]
          /\ minted' = [minted EXCEPT ![r] = minted[r] - coll]
      BY <3>2
    <3>7. /\ ctoken' = [ctoken EXCEPT ![r][Custody] = ctoken[r][Custody] + d]
          /\ minted' = [minted EXCEPT ![r] = minted[r] + d]
      BY <3>5, <3>6
    <3> QED BY <3>2, <3>4, <3>5, <3>7, SharesInCustody
  <2> QED BY <1>2, <2>2, <2>3
<1> QED BY <1>1, <1>2 DEF Collateral

LEMMA SharesDebt ==
    ASSUME Accounts, Shares, Debt
    PROVE  Shares'
<1>1. ASSUME NEW o \in Obligations, NEW r \in Reserves, NEW n \in BorrowAmounts,
             NEW hosted \in BOOLEAN, Borrow(o, r, n, hosted)
      PROVE  Shares'
  <2>1. n \in Nat /\ ctoken' = ctoken /\ minted' = minted
    BY <1>1, AmountsAssumption DEF Borrow
  <2>2. PICK X, Y : Obliged(o, Y) /\ KeepsPledges(o, Y)
    BY <1>1, <2>1, BorrowDoes
  <2>3. \A q \in Reserves : PledgedIn(q)' = PledgedIn(q)
    BY <2>2, ObligedPledges
  <2> QED BY <2>1, <2>3, SharesKept
<1>2. ASSUME NEW o \in Obligations, NEW r \in Reserves, NEW u \in Users,
             NEW n \in RepayAmounts, Repay(u, o, r, n)
      PROVE  Shares'
  <2>1. n \in Nat /\ ctoken' = ctoken /\ minted' = minted
    BY <1>2, AmountsAssumption DEF Repay
  <2>2. PICK X, Y : Obliged(o, Y) /\ KeepsPledges(o, Y)
    BY <1>2, <2>1, RepayDoes
  <2>3. \A q \in Reserves : PledgedIn(q)' = PledgedIn(q)
    BY <2>2, ObligedPledges
  <2> QED BY <2>1, <2>3, SharesKept
<1>3. ASSUME NEW o \in Obligations, NEW r \in Reserves, NEW n \in ForgiveAmounts,
             ForgiveDebt(o, r, n)
      PROVE  Shares'
  <2>1. n \in Nat /\ ctoken' = ctoken /\ minted' = minted
    BY <1>3, AmountsAssumption DEF ForgiveDebt
  <2>2. PICK X, Y : Obliged(o, Y) /\ KeepsPledges(o, Y)
    BY <1>3, <2>1, ForgiveDebtDoes
  <2>3. \A q \in Reserves : PledgedIn(q)' = PledgedIn(q)
    BY <2>2, ObligedPledges
  <2> QED BY <2>1, <2>3, SharesKept
<1> QED BY <1>1, <1>2, <1>3 DEF Debt

\* What is liquidated leaves custody; the liquidator holds what is not redeemed.
LEMMA SharesLiquidate ==
    ASSUME Accounts, Shares, Liquidations
    PROVE  Shares'
<1>1. PICK u \in Users, o \in Obligations, debt \in Reserves, coll \in Reserves,
           n \in LiquidateAmounts : Liquidate(u, o, debt, coll, n)
  BY DEF Liquidations
<1>2. n \in Nat
  BY AmountsAssumption
<1>3. PICK Y : \E repay, withdraw, redeemed, liq, fee \in Nat :
         LiquidationDone(u, o, debt, coll, Y, repay, withdraw, redeemed, liq, fee)
  BY <1>1, <1>2, LiquidateDoes
<1>4. PICK repay \in Nat, withdraw \in Nat, redeemed \in Nat, liq \in Nat, fee \in Nat :
         LiquidationDone(u, o, debt, coll, Y, repay, withdraw, redeemed, liq, fee)
  BY <1>3
<1>5. /\ Obliged(o, Y) /\ Pledged(o, Y, coll, -withdraw)
      /\ redeemed =< withdraw /\ ctoken[coll][Custody] >= withdraw
      /\ ctoken' = [ctoken EXCEPT ![coll][Custody] = @ - withdraw,
                                  ![coll][u] = @ + withdraw - redeemed]
      /\ \/ redeemed = 0 /\ minted' = minted
         \/ minted' = [minted EXCEPT ![coll] = @ - redeemed]
  BY <1>4 DEF LiquidationDone
<1>6. u \in Owners /\ Custody \in Owners /\ u # Custody
  BY OwnersApart
<1>7. ctoken[coll][u] \in Nat /\ ctoken[coll][Custody] \in Nat /\ minted[coll] \in Nat
  BY <1>6, SharesNat
<1>8. PICK d \in Int : d = -withdraw
  OBVIOUS
<1>9. PICK e \in Int : e = withdraw - redeemed
  OBVIOUS
<1>10. /\ ctoken[coll][Custody] - withdraw = ctoken[coll][Custody] + d
       /\ ctoken[coll][u] + withdraw - redeemed = ctoken[coll][u] + e
       /\ ctoken[coll][Custody] + d >= 0 /\ ctoken[coll][u] + e >= 0
       /\ minted[coll] - redeemed = minted[coll] + (d + e)
       /\ redeemed = 0 => minted[coll] + (d + e) = minted[coll]
  BY <1>5, <1>7, <1>8, <1>9
<1>11. ctoken' = [ctoken EXCEPT ![coll][Custody] = ctoken[coll][Custody] + d,
                                ![coll][u] = ctoken[coll][u] + e]
  <2>1. ctoken' = [ctoken EXCEPT ![coll][Custody] = ctoken[coll][Custody] - withdraw,
                                 ![coll][u] = ctoken[coll][u] + withdraw - redeemed]
    BY <1>5, <1>6 DEF Shares
  <2> QED BY <1>10, <2>1
<1>12. minted' = [minted EXCEPT ![coll] = minted[coll] + (d + e)]
  <2>1. CASE redeemed = 0 /\ minted' = minted
    BY <1>10, <2>1 DEF Shares
  <2>2. CASE minted' = [minted EXCEPT ![coll] = minted[coll] - redeemed]
    BY <1>10, <2>2
  <2> QED BY <1>5, <2>1, <2>2
<1>13. /\ PledgedIn(coll)' = PledgedIn(coll) + d
       /\ \A q \in Reserves \ {coll} : PledgedIn(q)' = PledgedIn(q)
  BY <1>5, <1>8, ObligedPledges
<1>14. PledgedIn(coll)' = PledgedIn(coll) + (IF Custody = Custody THEN d ELSE IF u = Custody THEN e ELSE 0)
  BY <1>13
<1>15. d \in Int /\ e \in Int /\ coll \in Reserves
  BY <1>8, <1>9
<1> QED BY <1>6, <1>10, <1>11, <1>12, <1>13, <1>14, <1>15, TwoHolders

\* Every step keeps every token held.
LEMMA SharesStep == Accounts /\ Shares /\ [Next]_vars => Shares'
<1> SUFFICES ASSUME Accounts, Shares, [Next]_vars  PROVE Shares'
  OBVIOUS
<1>1. ASSUME obligation' = obligation /\ ctoken' = ctoken /\ minted' = minted
      PROVE  Shares'
  BY <1>1, SameObligations, SharesKept
<1>2. CASE UNCHANGED vars \/ Tick
  BY <1>1, <1>2 DEF vars, Tick
<1>3. CASE Administration
  BY <1>1, <1>3 DEF Administration, UpdateReserveConfig, SetOwnerAndConfig, SetRiskAuthority
<1> QED BY <1>2, <1>3, SharesOpen, SharesUpkeep, SharesPool, SharesCollateral, SharesDebt,
          SharesLiquidate DEF Next

\* The holdings of the collateral tokens, for every constant.
THEOREM SharesInvariant == Spec => []Shares
<1>1. Init => Shares
  BY SharesInit
<1>2. Accounts /\ Shares /\ [Next]_vars => Shares'
  BY SharesStep
<1> QED BY <1>1, <1>2, AccountsInvariant, PTL DEF Spec

\* Every collateral token a reserve counts is in a user's account or in
\* custody, whatever was minted, redeemed, pledged, withdrawn or liquidated.
THEOREM SharesHeld == Spec => []SharesAreHeld
<1>1. Shares /\ MintIsCounted => SharesAreHeld
  BY DEF Shares, Outstanding, Owners, MintIsCounted, SharesAreHeld, LiveReserves
<1> QED BY <1>1, SharesInvariant, MintCounted, PTL

\* The collateral that the obligations count as deposited is in custody: none
\* of it is ever another obligation's, nor a user's.
THEOREM PledgesHeld == Spec => []PledgesAreHeld
<1>1. Shares => PledgesAreHeld
  BY DEF Shares, PledgedIn, PledgesIn, PledgesAreHeld, LiveReserves
<1> QED BY <1>1, SharesInvariant, PTL

\* The accounts hold what their Rust types can hold: no amount a handler
\* computes is ever negative.
THEOREM TypesHold == Spec => []TypeOK
<1>1. Accounts /\ Cash /\ Shares => TypeOK
  <2> SUFFICES ASSUME Accounts, Cash, Shares  PROVE TypeOK
    OBVIOUS
  <2>1. ASSUME NEW o \in LiveObligations
        PROVE  \E D \in SUBSET Reserves : obligation[o] \in ObligationType(D)
    <3>1. ObligationSound(obligation[o], reserve, slot)
      BY LiveSound DEF LiveObligations
    <3>2. PICK D : D = DOMAIN obligation[o].deposits
      OBVIOUS
    <3>3. D \in SUBSET Reserves /\ obligation[o] \in ObligationType(D)
      BY <3>1, <3>2 DEF ObligationSound, DepositsSound
    <3> QED BY <3>3
  <2>2. \A r \in LiveReserves : reserve[r] \in ReserveType
    BY LiveSound DEF LiveReserves, Sound
  <2>3. /\ slot \in 1..MaxSlot
        /\ market.owner \in Admins /\ market.risk_authority \in Admins
        /\ market.whitelisted_liquidator \in Users \cup {Anyone}
        /\ market.rate_limiter \in LimiterType
    BY DEF Accounts, MarketOK
  <2>4. /\ token \in [Reserves -> [Holders -> Nat]]
        /\ ctoken \in [Reserves -> [Users \cup {Custody} -> Nat]]
        /\ minted \in [Reserves -> Nat]
    BY DEF Cash, TokensTyped, Shares, Owners
  <2> QED BY <2>1, <2>2, <2>3, <2>4 DEF TypeOK
<1> QED BY <1>1, AccountsInvariant, CashInvariant, SharesInvariant, PTL

-----------------------------------------------------------------------------
\* What a collateral token is worth, after each of the handlers.

\* The reserve b has at least the supply of a, and as many tokens.
Rises(a, b) ==
    /\ TotalSupply(b) >= TotalSupply(a)
    /\ b.mint_total_supply = a.mint_total_supply

\* A reserve with collateral tokens outstanding has liquidity for them.
Backed(res) == res.mint_total_supply > 0 => TotalSupply(res) > 0
SuppliesBacked == \A r \in LiveReserves : Backed(reserve[r])

\* No supply, with what any one user could pay into it, reaches WAD tokens: the
\* exchange rate is a quotient scaled by WAD, and of more than that its truncation
\* may take a whole token.
SuppliesWithin ==
    \A r \in LiveReserves, u \in Users :
        TotalSupply(reserve[r]) + FromInt(token[r][u]) < FromInt(WAD)

\* What every step keeps of a reserve: the value of its collateral tokens and,
\* of such a supply, that there is something behind them.
StaysBacked(r) ==
    SuppliesBacked /\ SuppliesWithin /\ Live(reserve'[r]) => Backed(reserve'[r])
KeepsShares(r) == KeepsShareValue(r) /\ StaysBacked(r)

\* A supply that does not fall keeps the value.
LEMMA ValueRaised ==
    ASSUME NEW a \in ReserveType, NEW b \in ReserveType, Rises(a, b)
    PROVE  ValueKept(a, b, 0)
<1>1. PICK m \in Nat : m = a.mint_total_supply /\ m = b.mint_total_supply
  BY DEF ReserveType, Rises
<1>2. PICK x \in Int, y \in Int : x = TotalSupply(a) /\ y = TotalSupply(b) /\ x =< y
  BY SupplyInt DEF Rises
<1>3. x * (m * WAD) =< y * (m * WAD)
  BY <1>2, WADAssumption, ProductNat, ProductMonotone
<1>4. x * m * WAD = x * (m * WAD) /\ y * m * WAD = y * (m * WAD)
  BY WADAssumption, SMT
<1>5. 0 * (y + FromInt(0)) = 0
  BY WADAssumption, SMT DEF FromInt
<1>6. y * (m * WAD) \in Int /\ x * (m * WAD) \in Int
  BY WADAssumption
<1> QED BY <1>1, <1>2, <1>3, <1>4, <1>5, <1>6 DEF ValueKept

\* So does a deposit, given no more tokens than its liquidity is worth.
LEMMA ValueMinted ==
    ASSUME NEW a \in ReserveType, NEW res \in ReserveType, Rises(a, res),
           TotalSupply(a) > 0, a.mint_total_supply > 0, NEW n \in Nat,
           NEW c, c = LiquidityToCollateral(res, n), NEW b, b = DepositLiquidity(res, n, c)
    PROVE  ValueKept(a, b, 0)
<1>1. PICK m \in Nat : m = a.mint_total_supply /\ m = res.mint_total_supply /\ m > 0
  BY DEF ReserveType, Rises
<1>2. PICK x \in Nat, y \in Nat : x = TotalSupply(a) /\ y = TotalSupply(res) /\ x =< y /\ y > 0
  BY SupplyInt DEF Rises
<1>3. c \in Nat /\ c * y =< FromInt(n) * m /\ FromInt(n) \in Nat
  BY <1>1, <1>2, DepositWorth, ConversionNat
<1>4. b.mint_total_supply = m + c
  BY <1>1 DEF DepositLiquidity, ReserveType
<1>5. TotalSupply(b) = y + FromInt(n)
  <2>1. PICK v \in Nat : v = res.available_amount
    BY DEF ReserveType
  <2>2. FromInt(v + n) = FromInt(v) + FromInt(n) /\ FromInt(v) \in Nat
    BY <2>1, WADAssumption, ConversionNat, SMT DEF FromInt
  <2>3. /\ b.available_amount = v + n
        /\ b.borrowed_amount_wads = res.borrowed_amount_wads
        /\ b.accumulated_protocol_fees_wads = res.accumulated_protocol_fees_wads
        /\ res.borrowed_amount_wads \in Nat /\ res.accumulated_protocol_fees_wads \in Nat
    BY <2>1 DEF DepositLiquidity, ReserveType
  <2> QED BY <1>2, <1>3, <2>1, <2>2, <2>3 DEF TotalSupply
<1>6. PICK f \in Nat : f = FromInt(n)
  BY <1>3
<1>7. x * (m + c) =< (y + f) * m
  <2>1. x * m =< y * m /\ x * c =< y * c
    BY <1>2, <1>3, ProductMonotone
  <2>2. x * (m + c) = x * m + x * c /\ (y + f) * m = y * m + f * m /\ y * c = c * y
    BY <1>3, SMT
  <2>3. PICK s \in Nat, t \in Nat, u \in Nat, v \in Nat, w \in Nat :
           s = x * m /\ t = y * m /\ u = x * c /\ v = c * y /\ w = f * m
    BY <1>3, ProductNat
  <2>4. s =< t /\ u =< v
    BY <2>1, <2>2, <2>3
  <2>5. v =< w
    BY <1>3, <1>6, <2>3
  <2>6. s + u =< t + w
    BY <2>3, <2>4, <2>5
  <2> QED BY <2>2, <2>3, <2>6
<1>8. (x * (m + c)) * WAD =< ((y + f) * m) * WAD
  <2>1. x * (m + c) \in Int /\ (y + f) * m \in Int
    BY <1>3
  <2> QED BY <1>7, <2>1, WADAssumption, ProductMonotone
<1>9. 0 * (TotalSupply(b) + FromInt(0)) = 0
  BY <1>5, <1>6, WADAssumption, SMT DEF FromInt
<1>10. ((y + f) * m) * WAD \in Int /\ (x * (m + c)) * WAD \in Int
  BY <1>3, WADAssumption
<1> QED BY <1>1, <1>2, <1>4, <1>5, <1>6, <1>8, <1>9, <1>10 DEF ValueKept

\* A redemption takes from the tokens that stay what truncating the exchange
\* rate can take.
LEMMA ValueRedeemed ==
    ASSUME NEW a \in ReserveType, NEW res \in ReserveType, Rises(a, res),
           TotalSupply(a) > 0, a.mint_total_supply > 0, ExchangeRate(res) > 0, NEW n \in Nat,
           NEW liq, liq = CollateralToLiquidity(res, n), CanRedeem(res, liq, n),
           NEW b, b = RedeemCollateral(res, liq, n)
    PROVE  ValueKept(a, b, liq)
<1>1. PICK m \in Nat : m = a.mint_total_supply /\ m = res.mint_total_supply /\ m > 0
  BY DEF ReserveType, Rises
<1>2. PICK x \in Nat, y \in Nat : x = TotalSupply(a) /\ y = TotalSupply(res) /\ x =< y /\ y > 0
  BY SupplyInt DEF Rises
<1>3. liq \in Nat /\ FromInt(liq) * m * WAD =< (FromInt(n) + liq) * y
  BY <1>1, <1>2, RedemptionWorth
<1>4. b.mint_total_supply = m - n /\ m - n \in Nat
  BY <1>1 DEF RedeemCollateral, ReserveType, CanRedeem
<1>5. PICK f \in Nat : f = FromInt(liq)
  BY <1>3, ConversionNat
<1>6. TotalSupply(b) = y - f
  <2>1. PICK v \in Nat : v = res.available_amount
    BY DEF ReserveType
  <2>2. FromInt(v - liq) = FromInt(v) - f /\ FromInt(v) \in Nat
    BY <1>3, <1>5, <2>1, WADAssumption, ConversionNat, SMT DEF FromInt
  <2>3. /\ b.available_amount = v - liq
        /\ b.borrowed_amount_wads = res.borrowed_amount_wads
        /\ b.accumulated_protocol_fees_wads = res.accumulated_protocol_fees_wads
        /\ res.borrowed_amount_wads \in Nat /\ res.accumulated_protocol_fees_wads \in Nat
    BY <2>1 DEF RedeemCollateral, ReserveType
  <2> QED BY <1>2, <2>1, <2>2, <2>3 DEF TotalSupply
<1>7. x * ((m - n) * WAD) =< y * ((m - n) * WAD)
  BY <1>2, <1>4, WADAssumption, ProductNat, ProductMonotone
<1>8. f * m * WAD =< (n * WAD + liq) * y
  BY <1>3, <1>5 DEF FromInt
<1>9. /\ y * ((m - n) * WAD) = y * m * WAD - y * n * WAD
      /\ (n * WAD + liq) * y = y * n * WAD + liq * y
      /\ (y - f) * m * WAD = y * m * WAD - f * m * WAD
      /\ x * (m - n) * WAD = x * ((m - n) * WAD)
  BY <1>3, <1>4, WADAssumption, SMT
<1>10. /\ y * m * WAD \in Int /\ y * n * WAD \in Int /\ f * m * WAD \in Int /\ liq * y \in Int
       /\ x * ((m - n) * WAD) \in Int
  BY <1>3, <1>4, WADAssumption
<1>11. (y - f) * m * WAD + liq * y >= x * (m - n) * WAD
  BY <1>7, <1>8, <1>9, <1>10
<1>12. liq * (y - f + f) = liq * y
  <2>1. y - f + f = y
    OBVIOUS
  <2> QED BY <2>1
<1> QED BY <1>1, <1>2, <1>4, <1>5, <1>6, <1>11, <1>12 DEF ValueKept

\* What does not touch the books does not bear on the value.
LEMMA ValueOfSame ==
    ASSUME NEW a, NEW b, NEW c, NEW out, ValueKept(a, b, out), SameBooks(b, c)
    PROVE  ValueKept(a, c, out)
BY SameSupply DEF ValueKept

\* Counting an outflow does not touch them.
LEMMA CountBooks ==
    ASSUME NEW res \in ReserveType, NEW amount
    PROVE  SameBooks(res, CountOutflow(res, amount))
BY DEF ReserveType, CountOutflow, SameBooks

LEMMA SameBooksRises ==
    ASSUME NEW a \in ReserveType, NEW b \in ReserveType, NEW c, Rises(a, b), SameBooks(b, c)
    PROVE  Rises(a, c)
BY SameSupply DEF Rises

LEMMA RisesAlong ==
    ASSUME NEW a \in ReserveType, NEW b \in ReserveType, NEW c \in ReserveType,
           Rises(a, b), Rises(b, c)
    PROVE  Rises(a, c)
BY SupplyInt DEF Rises

\* A supply that rises over the same tokens stays behind them.
LEMMA RisesBacked ==
    ASSUME NEW a \in ReserveType, NEW b \in ReserveType, Rises(a, b), Backed(a)
    PROVE  Backed(b)
BY SupplyInt DEF Rises, Backed

\* So does one that is deposited into, for the liquidity of a token is not nothing.
LEMMA DepositBacked ==
    ASSUME NEW res \in ReserveType, TotalSupply(res) >= 0, Backed(res), NEW n \in Nat,
           NEW c, c = LiquidityToCollateral(res, n), NEW d, d = DepositLiquidity(res, n, c)
    PROVE  Backed(d)
<1>1. PICK v \in Nat : v = res.available_amount
  BY DEF ReserveType
<1>2. PICK f \in Nat : f = FromInt(n)
  BY ConversionNat
<1>3. FromInt(v + n) = FromInt(v) + f /\ FromInt(v) \in Nat
  BY <1>1, <1>2, WADAssumption, ConversionNat, SMT DEF FromInt
<1>4. /\ d.available_amount = v + n /\ d.mint_total_supply = res.mint_total_supply + c
      /\ d.borrowed_amount_wads = res.borrowed_amount_wads
      /\ d.accumulated_protocol_fees_wads = res.accumulated_protocol_fees_wads
      /\ res.borrowed_amount_wads \in Nat /\ res.accumulated_protocol_fees_wads \in Nat
      /\ res.mint_total_supply \in Nat
  BY <1>1 DEF DepositLiquidity, ReserveType
<1>5. TotalSupply(d) = TotalSupply(res) + f /\ TotalSupply(res) \in Nat
  BY <1>1, <1>2, <1>3, <1>4, SupplyInt DEF TotalSupply
<1>6. CASE n = 0
  <2>1. PICK e \in Nat : e = ExchangeRate(res)
    BY ExchangeRateNat
  <2>2. PICK w \in Nat \ {0} : w = WAD
    BY WADAssumption
  <2>3. (0 * w * e) \div w = 0 /\ 0 \div w = 0
    <3>1. 0 * w * e = 0
      BY SMT
    <3>2. 0 \div w = 0
      BY DivFacts, QuotientBound
    <3> QED BY <3>1, <3>2
  <2>4. c = 0
    BY <1>6, <2>1, <2>2, <2>3 DEF LiquidityToCollateral, Mul, Floor, FromInt
  <2>5. f = 0
    BY <1>2, <1>6, WADAssumption, SMT DEF FromInt
  <2> QED BY <1>4, <1>5, <2>4, <2>5 DEF Backed
<1>7. CASE n # 0
  <2>1. f > 0
    BY <1>2, <1>7, WADAssumption, SMT DEF FromInt
  <2> QED BY <1>2, <1>5, <2>1 DEF Backed
<1> QED BY <1>6, <1>7

\* And one that is redeemed from, if it is below WAD tokens: those who redeem all
\* but one token leave something for it.
LEMMA BurntBacked ==
    ASSUME NEW res \in ReserveType, Backed(res), TotalSupply(res) < FromInt(WAD),
           ExchangeRate(res) > 0, NEW n \in Nat,
           NEW liq, liq = CollateralToLiquidity(res, n), CanRedeem(res, liq, n),
           NEW d, d = RedeemCollateral(res, liq, n)
    PROVE  Backed(d)
<1>1. PICK m \in Nat : m = res.mint_total_supply
  BY DEF ReserveType
<1>2. n =< m /\ d.mint_total_supply = m - n
  BY <1>1 DEF CanRedeem, RedeemCollateral, ReserveType
<1> SUFFICES ASSUME n < m  PROVE TotalSupply(d) > 0
  BY <1>1, <1>2 DEF Backed
<1>3. TotalSupply(res) > 0 /\ m > 0
  BY <1>1, <1>2 DEF Backed
<1>4. PICK x \in Nat, e \in Nat \ {0} : x = TotalSupply(res) /\ e = ExchangeRate(res)
  BY <1>3, SupplyInt, ExchangeRateNat
<1>5. PICK w \in Nat \ {0} : w = WAD
  BY WADAssumption
<1>6. m * w * w =< (e + 1) * x
  BY <1>1, <1>3, <1>4, <1>5, RateBounds DEF FromInt
<1>7. liq \in Nat /\ liq * w * e =< n * w * w
  <2>1. PICK g \in Nat : g = (n * w * w) \div e /\ g * e =< n * w * w
    <3>1. n * w * w \in Nat
      BY ProductNat
    <3> QED BY <3>1, DivFacts
  <2>2. g \div w \in Nat /\ (g \div w) * w =< g
    BY DivFacts
  <2>3. liq = g \div w
    BY <1>4, <1>5, <2>1 DEF CollateralToLiquidity, DecimalCollateralToLiquidity, Div, Floor, FromInt
  <2>4. PICK l \in Nat : l = liq
    BY <2>2, <2>3
  <2>5. (l * w) * e =< g * e
    BY <2>2, <2>3, <2>4, ProductNat, ProductMonotone
  <2>6. (l * w) * e \in Nat /\ g * e \in Nat /\ n * w * w \in Nat
    BY ProductNat
  <2> QED BY <2>1, <2>4, <2>5, <2>6
<1>8. PICK l \in Nat : l = liq
  BY <1>7
<1>9. TotalSupply(d) = x - l * w
  <2>1. PICK v \in Nat : v = res.available_amount
    BY DEF ReserveType
  <2>2. (v - l) * w = v * w - l * w /\ v * w \in Nat /\ l * w \in Nat
    BY ProductNat, SMT
  <2>3. /\ d.available_amount = v - l
        /\ d.borrowed_amount_wads = res.borrowed_amount_wads
        /\ d.accumulated_protocol_fees_wads = res.accumulated_protocol_fees_wads
        /\ res.borrowed_amount_wads \in Nat /\ res.accumulated_protocol_fees_wads \in Nat
    BY <1>8, <2>1 DEF RedeemCollateral, ReserveType
  <2> QED BY <1>4, <1>5, <2>1, <2>2, <2>3 DEF TotalSupply, FromInt
<1>10. l * w < x
  <2> SUFFICES ASSUME x =< l * w  PROVE FALSE
    BY ProductNat
  <2>1. x * e =< (l * w) * e
    BY ProductNat, ProductMonotone
  <2>2. n * (w * w) =< (m - 1) * (w * w)
    BY <1>2, ProductNat, ProductMonotone
  <2>3. /\ (e + 1) * x = x * e + x /\ (m - 1) * (w * w) = m * w * w - w * w
        /\ n * w * w = n * (w * w) /\ liq * w * e = (l * w) * e
    BY <1>8, SMT
  <2>4. x < w * w
    BY <1>4, <1>5 DEF FromInt
  <2>5. PICK p \in Nat, q \in Nat, a \in Nat, b \in Nat, c \in Nat :
           p = x * e /\ q = (l * w) * e /\ a = n * (w * w) /\ b = m * w * w /\ c = w * w
    BY ProductNat
  <2>6. p =< q /\ q =< a /\ a =< b - c /\ b =< p + x /\ x < c
    BY <1>6, <1>7, <2>1, <2>2, <2>3, <2>4, <2>5
  <2> QED BY <2>5, <2>6
<1> QED BY <1>4, <1>9, <1>10, ProductNat

-----------------------------------------------------------------------------
\* A handler that burns nothing: the reserve r becomes X.
Grows(r, X) ==
    /\ Live(reserve[r]) /\ reserve' = [reserve EXCEPT ![r] = X]
    /\ ~(X.mint_total_supply < reserve[r].mint_total_supply)
    /\ Backed(reserve[r]) => Backed(X)
    /\ reserve[r].mint_total_supply > 0 /\ TotalSupply(reserve[r]) > 0
         => ValueKept(reserve[r], X, 0)

\* A reserve that does not change keeps its value.
LEMMA UntouchedKeeps ==
    ASSUME Accounts, NEW r \in Reserves, reserve'[r] = reserve[r]
    PROVE  KeepsShares(r)
<1>0. StaysBacked(r)
  BY DEF StaysBacked, SuppliesBacked, LiveReserves
<1> SUFFICES ASSUME Live(reserve[r])  PROVE ValueKept(reserve[r], reserve'[r], Redeemed(r))
  BY <1>0 DEF KeepsShareValue, KeepsShares
<1>1. PICK a : a = reserve[r]
  OBVIOUS
<1>2. a \in ReserveType
  BY <1>1, LiveSound DEF Sound
<1>3. Rises(a, a) /\ ~(a.mint_total_supply < a.mint_total_supply)
  BY <1>2, SupplyInt DEF Rises, ReserveType
<1>4. Redeemed(r) = 0
  BY <1>1, <1>3 DEF Redeemed
<1>5. ValueKept(a, a, 0)
  BY <1>2, <1>3, ValueRaised
<1> QED BY <1>1, <1>4, <1>5

\* One that grows keeps it, and so do the others.
LEMMA GrowsKeeps ==
    ASSUME Accounts, NEW r \in Reserves, NEW X, Grows(r, X)
    PROVE  \A q \in Reserves : KeepsShares(q)
<1>1. reserve'[r] = X /\ \A q \in Reserves \ {r} : reserve'[q] = reserve[q]
  BY DEF Grows, Accounts
<1>2. Redeemed(r) = 0
  BY <1>1 DEF Grows, Redeemed
<1>3. KeepsShareValue(r)
  BY <1>1, <1>2 DEF Grows, KeepsShareValue
<1>4. StaysBacked(r)
  BY <1>1 DEF Grows, StaysBacked, SuppliesBacked, LiveReserves
<1> QED BY <1>1, <1>3, <1>4, UntouchedKeeps DEF KeepsShares

\* A supply that rises over the same tokens grows.
LEMMA RisesGrows ==
    ASSUME Accounts, NEW r \in Reserves, Live(reserve[r]), NEW X \in ReserveType,
           Rises(reserve[r], X), reserve' = [reserve EXCEPT ![r] = X]
    PROVE  Grows(r, X)
<1>1. PICK a : a = reserve[r]
  OBVIOUS
<1>2. a \in ReserveType
  BY <1>1, LiveSound DEF Sound
<1>3. ~(X.mint_total_supply < a.mint_total_supply)
  BY <1>1, <1>2 DEF Rises, ReserveType
<1>4. ValueKept(a, X, 0)
  BY <1>1, <1>2, ValueRaised
<1>5. Backed(a) => Backed(X)
  BY <1>1, <1>2, RisesBacked
<1> QED BY <1>1, <1>3, <1>4, <1>5 DEF Grows

\* A sound reserve refreshed rises.
LEMMA RefreshRises ==
    ASSUME NEW res, NEW s \in Nat, Sound(res, s)
    PROVE  LET b == RefreshInterest(res, s)
           IN  b \in ReserveType /\ Sound(b, s) /\ Rises(res, b)
<1>1. PICK b : b = RefreshInterest(res, s)
  OBVIOUS
<1>2. /\ res \in ReserveType /\ ConsistentConfig(res.config) /\ s >= res.last_update.slot
  BY DEF Sound, ReserveType, UpdateType
<1>3. TotalSupply(b) >= TotalSupply(res) /\ b.mint_total_supply = res.mint_total_supply
  BY <1>1, <1>2, RefreshSupply
<1>4. Sound(b, s)
  BY <1>1, RefreshedSound
<1> QED BY <1>1, <1>3, <1>4 DEF Rises, Sound

\* Marking what grew stale is no matter.
LEMMA MarkedRises ==
    ASSUME NEW a \in ReserveType, NEW b \in ReserveType, NEW s \in Nat,
           b.last_update.slot =< s, Rises(a, b)
    PROVE  MarkStale(b) \in ReserveType /\ Rises(a, MarkStale(b))
<1>1. MarkStale(b) \in ReserveType
  BY MarkStaleFollows DEF Follows
<1>2. SameBooks(b, MarkStale(b))
  BY MarkStaleBooks
<1>3. Rises(a, MarkStale(b))
  BY <1>2, SameBooksRises
<1> QED BY <1>1, <1>3

\* The interest of a slot raises the supply.
LEMMA RefreshReserveShares ==
    ASSUME Accounts, NEW r \in Reserves, RefreshReserve(r)
    PROVE  \A q \in Reserves : KeepsShares(q)
<1>1. PICK X : X = RefreshInterest(reserve[r], slot)
  OBVIOUS
<1>2. Live(reserve[r]) /\ reserve' = [reserve EXCEPT ![r] = X]
  BY <1>1 DEF RefreshReserve
<1>3. Sound(reserve[r], slot) /\ slot \in Nat
  BY <1>2, LiveSound
<1>4. X \in ReserveType /\ Rises(reserve[r], X)
  BY <1>1, <1>3, RefreshRises
<1>5. Grows(r, X)
  BY <1>2, <1>4, RisesGrows
<1> QED BY <1>5, GrowsKeeps

\* Fees redeemed were not part of it.
LEMMA RedeemProtocolFeesShares ==
    ASSUME Accounts, NEW r \in Reserves, RedeemProtocolFees(r)
    PROVE  \A q \in Reserves : KeepsShares(q)
<1>1. PICK n : n = RedeemableFees(reserve[r])
  OBVIOUS
<1>2. PICK d : d = RedeemFees(reserve[r], n)
  OBVIOUS
<1>3. PICK X : X = MarkStale(d)
  OBVIOUS
<1>4. Live(reserve[r]) /\ reserve' = [reserve EXCEPT ![r] = X]
  BY <1>1, <1>2, <1>3 DEF RedeemProtocolFees, Fresh
<1>5. Sound(reserve[r], slot) /\ slot \in Nat /\ reserve[r] \in ReserveType
      /\ reserve[r].last_update.slot =< slot
  BY <1>4, LiveSound DEF Sound
<1>6. n \in Nat /\ Follows(reserve[r], d, slot)
  BY <1>1, <1>2, <1>5, RedeemFeesFollows
<1>7. Rises(reserve[r], d)
  <2>1. TotalSupply(d) = TotalSupply(reserve[r]) /\ d.mint_total_supply = reserve[r].mint_total_supply
    BY <1>2, <1>5, <1>6, FeesSupply
  <2> QED BY <1>5, <2>1, SupplyInt DEF Rises
<1>8. X \in ReserveType /\ Rises(reserve[r], X)
  BY <1>3, <1>5, <1>6, <1>7, MarkedRises DEF Follows
<1>9. Grows(r, X)
  BY <1>4, <1>8, RisesGrows
<1> QED BY <1>9, GrowsKeeps

\* A reconfiguration touches no amount.
LEMMA UpdateReserveConfigShares ==
    ASSUME Accounts, NEW r \in Reserves, NEW signer, NEW config \in Reconfigs,
           NEW limits \in LimiterConfigs, UpdateReserveConfig(r, signer, config, limits)
    PROVE  \A q \in Reserves : KeepsShares(q)
<1>1. PICK a : a = reserve[r]
  OBVIOUS
<1>2. PICK b : b = Reconfigured(a, signer, config, limits)
  OBVIOUS
<1>3. PICK X : X = MarkStale(b)
  OBVIOUS
<1>4. Live(a) /\ reserve' = [reserve EXCEPT ![r] = X]
  BY <1>1, <1>2, <1>3 DEF UpdateReserveConfig
<1>5. a \in ReserveType
  BY <1>1, <1>4, LiveSound DEF Sound
<1>6. SameBooks(a, X)
  <2>1. SameBooks(a, b) /\ DOMAIN b = DOMAIN a
    BY <1>2, <1>5 DEF Reconfigured, SameBooks, ReserveType
  <2>2. SameBooks(b, MarkStale(b))
    BY <1>5, <2>1 DEF MarkStale, SameBooks, ReserveType
  <2> QED BY <1>3, <2>1, <2>2 DEF SameBooks
<1>7. PICK Z : Handled(r, Z, 0)
  BY UpdateReserveConfigDoes
<1>8. X \in ReserveType
  BY <1>4, <1>7 DEF Handled, Onward, Sound, Accounts
<1>9. Rises(a, X)
  <2>1. Rises(a, a)
    BY <1>5, SupplyInt DEF Rises
  <2> QED BY <1>5, <1>6, <2>1, SameBooksRises
<1>10. Grows(r, X)
  BY <1>1, <1>4, <1>8, <1>9, RisesGrows
<1> QED BY <1>10, GrowsKeeps

\* A deposit, pledged or not, into a refreshed reserve.
LEMMA DepositGrows ==
    ASSUME Accounts, NEW r \in Reserves, Live(reserve[r]), NEW n \in Nat,
           NEW res, res = RefreshInterest(reserve[r], slot), TotalSupply(res) >= 0,
           NEW c, c = LiquidityToCollateral(res, n),
           NEW X, X = MarkStale(DepositLiquidity(res, n, c)),
           reserve' = [reserve EXCEPT ![r] = X]
    PROVE  Grows(r, X)
<1>1. PICK a : a = reserve[r]
  OBVIOUS
<1>2. PICK d : d = DepositLiquidity(res, n, c)
  OBVIOUS
<1>3. Sound(a, slot) /\ slot \in Nat /\ a \in ReserveType
  BY <1>1, LiveSound DEF Sound
<1>4. res \in ReserveType /\ Sound(res, slot) /\ Rises(a, res)
  BY <1>1, <1>3, RefreshRises
<1>5. c \in Nat
  BY <1>3, <1>4, MintedNat
<1>6. Follows(res, d, slot)
  BY <1>2, <1>3, <1>4, <1>5, DepositFollows DEF Sound
<1>7. d \in ReserveType /\ SameBooks(d, X)
  BY <1>2, <1>6, MarkStaleBooks DEF Follows
<1>8. d.mint_total_supply = a.mint_total_supply + c
  BY <1>2, <1>4 DEF DepositLiquidity, ReserveType, Rises
<1>9. ~(X.mint_total_supply < a.mint_total_supply)
  BY <1>3, <1>5, <1>7, <1>8 DEF SameBooks, ReserveType
<1>10. ASSUME a.mint_total_supply > 0, TotalSupply(a) > 0
       PROVE  ValueKept(a, X, 0)
  <2>1. ValueKept(a, d, 0)
    BY <1>2, <1>3, <1>4, <1>10, ValueMinted
  <2> QED BY <1>7, <2>1, ValueOfSame
<1>11. ASSUME Backed(a)  PROVE Backed(X)
  <2>1. Backed(d)
    BY <1>2, <1>3, <1>4, <1>11, RisesBacked, DepositBacked
  <2> QED BY <1>7, <2>1, SameSupply DEF Backed
<1> QED BY <1>1, <1>9, <1>10, <1>11 DEF Grows

LEMMA DepositShares ==
    ASSUME Accounts, NEW u, NEW r \in Reserves, NEW amount \in Nat, Deposit(u, r, amount)
    PROVE  \A q \in Reserves : KeepsShares(q)
<1>1. PICK res : res = RefreshInterest(reserve[r], slot)
  OBVIOUS
<1>2. PICK c : c = LiquidityToCollateral(res, amount)
  OBVIOUS
<1>3. PICK X : X = MarkStale(DepositLiquidity(res, amount, c))
  OBVIOUS
<1>4. Live(reserve[r]) /\ TotalSupply(res) >= 0 /\ reserve' = [reserve EXCEPT ![r] = X]
  BY <1>1, <1>2, <1>3 DEF Deposit, CanDeposit
<1>5. Grows(r, X)
  BY <1>1, <1>2, <1>3, <1>4, DepositGrows
<1> QED BY <1>5, GrowsKeeps

LEMMA DepositAndPledgeShares ==
    ASSUME Accounts, NEW o \in Obligations, NEW r \in Reserves, NEW amount \in Nat,
           DepositAndPledge(o, r, amount)
    PROVE  \A q \in Reserves : KeepsShares(q)
<1>1. PICK res : res = RefreshInterest(reserve[r], slot)
  OBVIOUS
<1>2. PICK c : c = LiquidityToCollateral(res, amount)
  OBVIOUS
<1>3. PICK X : X = MarkStale(DepositLiquidity(res, amount, c))
  OBVIOUS
<1>4. Live(reserve[r]) /\ TotalSupply(res) >= 0 /\ reserve' = [reserve EXCEPT ![r] = X]
  BY <1>1, <1>2, <1>3 DEF DepositAndPledge, CanDeposit
<1>5. Grows(r, X)
  BY <1>1, <1>2, <1>3, <1>4, DepositGrows
<1> QED BY <1>5, GrowsKeeps

\* Pledging refreshes the reserve.
LEMMA DepositObligationShares ==
    ASSUME Accounts, NEW o \in Obligations, NEW r \in Reserves, NEW coll \in Nat,
           DepositObligation(o, r, coll)
    PROVE  \A q \in Reserves : KeepsShares(q)
<1>1. PICK res : res = RefreshInterest(reserve[r], slot)
  OBVIOUS
<1>2. PICK X : X = MarkStale(res)
  OBVIOUS
<1>3. Live(reserve[r]) /\ reserve' = [reserve EXCEPT ![r] = X]
  BY <1>1, <1>2 DEF DepositObligation
<1>4. Sound(reserve[r], slot) /\ slot \in Nat /\ reserve[r] \in ReserveType
  BY <1>3, LiveSound DEF Sound
<1>5. res \in ReserveType /\ Sound(res, slot) /\ Rises(reserve[r], res)
  BY <1>1, <1>4, RefreshRises
<1>6. X \in ReserveType /\ Rises(reserve[r], X)
  BY <1>2, <1>4, <1>5, MarkedRises DEF Sound
<1>7. Grows(r, X)
  BY <1>3, <1>6, RisesGrows
<1> QED BY <1>7, GrowsKeeps

\* What is lent, the fee included, is owed.
LEMMA BorrowShares ==
    ASSUME Accounts, NEW o \in Obligations, NEW r \in Reserves, NEW asked \in Nat,
           NEW hosted \in BOOLEAN, Borrow(o, r, asked, hosted)
    PROVE  \A q \in Reserves : KeepsShares(q)
<1>1. PICK loan : loan = LoanOf(obligation[o], reserve[r], asked)
  OBVIOUS
<1>2. PICK amount : amount = loan.amount
  OBVIOUS
<1>3. Live(reserve[r]) /\ amount \in Nat
  BY <1>1, <1>2, LoanFacts
<1>4. PICK c : c = CountOutflow(reserve[r], amount)
  OBVIOUS
<1>5. PICK d : d = Lend(c, amount)
  OBVIOUS
<1>6. PICK X : X = MarkStale(d)
  OBVIOUS
<1>7. reserve' = [reserve EXCEPT ![r] = X] /\ CanLend(reserve[r], amount)
  BY <1>1, <1>2, <1>4, <1>5, <1>6 DEF Borrow
<1>8. Sound(reserve[r], slot) /\ slot \in Nat /\ reserve[r] \in ReserveType
  BY <1>3, LiveSound DEF Sound
<1>9. /\ Follows(reserve[r], c, slot) /\ c.available_amount = reserve[r].available_amount
      /\ SameBooks(reserve[r], c)
  BY <1>3, <1>4, <1>8, CountFollows, CountBooks
<1>10. c \in ReserveType /\ Sound(c, slot) /\ CanLend(c, amount)
  BY <1>7, <1>8, <1>9, FollowsSound DEF CanLend, Follows
<1>11. Rises(reserve[r], c)
  <2>1. Rises(reserve[r], reserve[r])
    BY <1>8, SupplyInt DEF Rises
  <2> QED BY <1>8, <1>9, <2>1, SameBooksRises
<1>12. Follows(c, d, slot)
  BY <1>3, <1>5, <1>8, <1>10, LendFollows DEF Sound
<1>13. Rises(c, d)
  BY <1>3, <1>5, <1>10, LendSupply DEF Rises
<1>14. d \in ReserveType /\ Rises(reserve[r], d)
  BY <1>8, <1>10, <1>11, <1>12, <1>13, RisesAlong DEF Follows
<1>15. X \in ReserveType /\ Rises(reserve[r], X)
  BY <1>6, <1>8, <1>12, <1>14, MarkedRises DEF Follows
<1>16. Grows(r, X)
  BY <1>3, <1>7, <1>15, RisesGrows
<1> QED BY <1>16, GrowsKeeps

\* A debt settled brings in at least as much.
LEMMA SettledRises ==
    ASSUME NEW res, NEW s \in Nat, Sound(res, s), NEW settle \in Nat
    PROVE  LET b == MarkStale(Settle(res, Ceil(settle), settle))
           IN  b \in ReserveType /\ Sound(b, s) /\ Rises(res, b)
<1>1. PICK n \in Nat : n = Ceil(settle)
  BY CeilBound
<1>2. PICK d : d = Settle(res, n, settle)
  OBVIOUS
<1>3. PICK b : b = MarkStale(d)
  OBVIOUS
<1>4. res \in ReserveType
  BY DEF Sound
<1>5. Follows(res, d, s)
  BY <1>1, <1>2, SettleFollows DEF Sound
<1>6. Rises(res, d)
  BY <1>1, <1>2, <1>4, SettleSupply DEF Rises
<1>7. b \in ReserveType /\ Rises(res, b)
  BY <1>3, <1>4, <1>5, <1>6, MarkedRises DEF Follows
<1>8. Sound(b, s)
  BY <1>1, <1>2, <1>3, SettleHandled, FollowsSound
<1> QED BY <1>1, <1>2, <1>3, <1>7, <1>8

LEMMA RepayShares ==
    ASSUME Accounts, NEW u, NEW o \in Obligations, NEW r \in Reserves, NEW asked \in Nat,
           Repay(u, o, r, asked)
    PROVE  \A q \in Reserves : KeepsShares(q)
<1>1. PICK ob : ob = obligation[o]
  OBVIOUS
<1>2. PICK i : i = BorrowIndex(ob, r)
  OBVIOUS
<1>3. PICK res : res = RefreshInterest(reserve[r], slot)
  OBVIOUS
<1>4. PICK debt : debt = Accrue(ob.borrows[i], res.cumulative_borrow_rate_wads)
  OBVIOUS
<1>5. PICK settle : settle = IF asked = U64_MAX THEN debt.borrowed_amount_wads
                             ELSE Smaller(FromInt(asked), debt.borrowed_amount_wads)
  OBVIOUS
<1>6. PICK X : X = MarkStale(Settle(res, Ceil(settle), settle))
  OBVIOUS
<1>7. /\ Live(reserve[r]) /\ debt \in BorrowType
      /\ settle \in 0..debt.borrowed_amount_wads
  BY <1>1, <1>2, <1>3, <1>4, <1>5, RepayFacts
<1>8. reserve' = [reserve EXCEPT ![r] = X]
  BY <1>1, <1>2, <1>3, <1>4, <1>5, <1>6 DEF Repay
<1>9. Sound(reserve[r], slot) /\ slot \in Nat /\ reserve[r] \in ReserveType /\ settle \in Nat
  BY <1>7, LiveSound DEF Sound, BorrowType
<1>10. res \in ReserveType /\ Sound(res, slot) /\ Rises(reserve[r], res)
  BY <1>3, <1>9, RefreshRises
<1>11. X \in ReserveType /\ Rises(res, X)
  BY <1>6, <1>9, <1>10, SettledRises
<1>12. Rises(reserve[r], X)
  BY <1>9, <1>10, <1>11, RisesAlong
<1>13. Grows(r, X)
  BY <1>7, <1>8, <1>11, <1>12, RisesGrows
<1> QED BY <1>13, GrowsKeeps

-----------------------------------------------------------------------------
\* Debts, entry by entry.

\* The debt to a reserve is the one entry for it, if any.
LEMMA DebtOfEntry ==
    ASSUME NEW ob, NEW R, NEW s, ObligationSound(ob, R, s)
    PROVE  /\ Live(ob)
           /\ \A j \in 1..Len(ob.borrows) :
                 DebtOf(ob, ob.borrows[j].borrow_reserve) = ob.borrows[j].borrowed_amount_wads
           /\ \A q : (\A j \in 1..Len(ob.borrows) : ob.borrows[j].borrow_reserve # q)
                        => DebtOf(ob, q) = 0
           /\ \A q : DebtOf(ob, q) \in Nat
<1>1. PICK bs : bs = ob.borrows
  OBVIOUS
<1>2. /\ bs \in Seq(BorrowType) /\ Live(ob)
      /\ \A j, k \in 1..Len(bs) : j # k => bs[j].borrow_reserve # bs[k].borrow_reserve
  BY <1>1 DEF ObligationSound, DebtsSound, ObligationType, Live
<1>3. ASSUME NEW q  PROVE /\ BorrowIndex(ob, q) # 0 => BorrowIndex(ob, q) \in 1..Len(bs)
                                                       /\ bs[BorrowIndex(ob, q)].borrow_reserve = q
                          /\ BorrowIndex(ob, q) = 0 =>
                                \A j \in 1..Len(bs) : bs[j].borrow_reserve # q
  BY <1>1, <1>2, BorrowIndexFacts
<1>4. ASSUME NEW j \in 1..Len(bs)
      PROVE  DebtOf(ob, bs[j].borrow_reserve) = bs[j].borrowed_amount_wads
  <2>1. PICK q : q = bs[j].borrow_reserve
    OBVIOUS
  <2>2. PICK k : k = BorrowIndex(ob, q)
    OBVIOUS
  <2>3. k # 0 /\ k \in 1..Len(bs) /\ bs[k].borrow_reserve = q
    BY <1>3, <2>1, <2>2
  <2>4. k = j
    BY <1>2, <2>1, <2>3
  <2> QED BY <1>1, <1>2, <2>1, <2>2, <2>3, <2>4 DEF DebtOf
<1>5. ASSUME NEW q, \A j \in 1..Len(bs) : bs[j].borrow_reserve # q  PROVE DebtOf(ob, q) = 0
  BY <1>3, <1>5 DEF DebtOf
<1>6. ASSUME NEW q  PROVE DebtOf(ob, q) \in Nat
  <2>1. CASE BorrowIndex(ob, q) = 0
    BY <2>1 DEF DebtOf
  <2>2. CASE BorrowIndex(ob, q) # 0
    <3>1. bs[BorrowIndex(ob, q)] \in BorrowType
      BY <1>2, <1>3, <2>2
    <3> QED BY <1>1, <1>2, <2>2, <3>1 DEF DebtOf, BorrowType
  <2> QED BY <2>1, <2>2
<1> QED BY <1>1, <1>2, <1>4, <1>5, <1>6

\* Paying off takes from that debt and no other.
LEMMA PayOffDebts ==
    ASSUME NEW ob, NEW R, NEW s, ObligationSound(ob, R, s), NEW i \in 1..Len(ob.borrows),
           NEW n \in 0..ob.borrows[i].borrowed_amount_wads,
           NEW d, d = ob.borrows[i].borrow_reserve
    PROVE  LET b == PayOff(ob, i, n)
           IN  /\ DebtOf(b, d) = DebtOf(ob, d) - n
               /\ \A q : q # d => DebtOf(b, q) = DebtOf(ob, q)
<1>1. PICK bs : bs = ob.borrows
  OBVIOUS
<1>2. /\ DebtsSound(bs, R) /\ bs \in Seq(BorrowType) /\ i \in 1..Len(bs)
      /\ \A j, k \in 1..Len(bs) : j # k => bs[j].borrow_reserve # bs[k].borrow_reserve
  BY <1>1 DEF ObligationSound, DebtsSound
<1>3. PICK b : b = PayOff(ob, i, n)
  OBVIOUS
<1>4. ObligationSound(b, R, s)
  BY <1>3, PayOffSound
<1>5. /\ DebtOf(ob, d) = bs[i].borrowed_amount_wads
      /\ bs[i].borrowed_amount_wads \in Nat /\ n \in Nat
  <2>1. bs[i] \in BorrowType
    BY <1>2
  <2> QED BY <1>1, <2>1, DebtOfEntry DEF BorrowType
<1>6. CASE n = bs[i].borrowed_amount_wads
  <2>1. PICK both : both = RemoveAt(bs, i)
    OBVIOUS
  <2>2. b.borrows = both
    BY <1>1, <1>3, <1>6, <2>1 DEF PayOff, ObligationSound, ObligationType
  <2>3. /\ both \in Seq(BorrowType) /\ Len(bs) \in Nat /\ Len(both) = Len(bs) - 1
        /\ \A j \in 1..(Len(bs) - 1) : /\ both[j] = bs[IF j < i THEN j ELSE j + 1]
                                       /\ (IF j < i THEN j ELSE j + 1) \in 1..Len(bs)
    BY <1>2, <2>1, RemoveEntries
  <2>4. ASSUME NEW j \in 1..Len(both)  PROVE both[j].borrow_reserve # d
    <3>1. PICK k \in 1..Len(bs) : k = (IF j < i THEN j ELSE j + 1) /\ both[j] = bs[k]
      BY <2>3
    <3>2. k # i
      BY <2>3, <3>1
    <3> QED BY <1>1, <1>2, <3>1, <3>2
  <2>5. DebtOf(b, d) = 0
    BY <1>4, <2>2, <2>4, DebtOfEntry
  <2>6. ASSUME NEW q, q # d  PROVE DebtOf(b, q) = DebtOf(ob, q)
    <3>1. CASE \E k \in 1..Len(bs) : bs[k].borrow_reserve = q
      <4>1. PICK k \in 1..Len(bs) : bs[k].borrow_reserve = q
        BY <3>1
      <4>2. k # i
        BY <1>1, <2>6, <4>1
      <4>3. PICK j \in 1..Len(both) : both[j] = bs[k]
        <5>1. CASE k < i
          <6>1. k \in 1..(Len(bs) - 1)
            <7>1. PICK l \in Nat : l = Len(bs)
              BY <2>3
            <7>2. k \in 1..l /\ i \in 1..l
              BY <1>2, <7>1
            <7> QED BY <5>1, <7>1, <7>2
          <6> QED BY <2>3, <5>1, <6>1
        <5>2. CASE k > i
          <6>1. k - 1 \in 1..(Len(bs) - 1) /\ ~(k - 1 < i) /\ k - 1 + 1 = k
            BY <2>3, <5>2
          <6> QED BY <2>3, <6>1
        <5> QED BY <2>3, <4>2, <5>1, <5>2
      <4>4. DebtOf(b, both[j].borrow_reserve) = both[j].borrowed_amount_wads
        BY <1>4, <2>2, DebtOfEntry
      <4>5. DebtOf(ob, bs[k].borrow_reserve) = bs[k].borrowed_amount_wads
        BY <1>1, DebtOfEntry
      <4> QED BY <4>1, <4>3, <4>4, <4>5
    <3>2. CASE \A k \in 1..Len(bs) : bs[k].borrow_reserve # q
      <4>1. \A j \in 1..Len(both) : both[j].borrow_reserve # q
        BY <2>3, <3>2
      <4>2. DebtOf(b, q) = 0
        BY <1>4, <2>2, <4>1, DebtOfEntry
      <4>3. DebtOf(ob, q) = 0
        BY <1>1, <3>2, DebtOfEntry
      <4> QED BY <4>2, <4>3
    <3> QED BY <3>1, <3>2
  <2> QED BY <1>3, <1>5, <1>6, <2>5, <2>6
<1>7. CASE n # bs[i].borrowed_amount_wads
  <2>1. PICK m : m = [bs[i] EXCEPT !.borrowed_amount_wads = @ - n]
    OBVIOUS
  <2>2. PICK less : less = [bs EXCEPT ![i] = m]
    OBVIOUS
  <2>3. /\ m.borrow_reserve = d /\ m.borrowed_amount_wads = bs[i].borrowed_amount_wads - n
    BY <1>1, <1>2, <2>1 DEF BorrowType
  <2>4. b.borrows = less
    BY <1>1, <1>3, <1>7, <2>1, <2>2 DEF PayOff, ObligationSound, ObligationType
  <2>5. /\ Len(less) = Len(bs) /\ less[i] = m
        /\ \A j \in 1..Len(bs) : j # i => less[j] = bs[j]
    BY <1>2, <2>2
  <2>6. DebtOf(b, less[i].borrow_reserve) = less[i].borrowed_amount_wads
    BY <1>2, <1>4, <2>4, <2>5, DebtOfEntry
  <2>7. ASSUME NEW q, q # d  PROVE DebtOf(b, q) = DebtOf(ob, q)
    <3>1. CASE \E k \in 1..Len(bs) : bs[k].borrow_reserve = q
      <4>1. PICK k \in 1..Len(bs) : bs[k].borrow_reserve = q
        BY <3>1
      <4>2. less[k] = bs[k] /\ k \in 1..Len(less)
        BY <1>1, <2>5, <2>7, <4>1
      <4>3. DebtOf(b, less[k].borrow_reserve) = less[k].borrowed_amount_wads
        BY <1>4, <2>4, <4>2, DebtOfEntry
      <4>4. DebtOf(ob, bs[k].borrow_reserve) = bs[k].borrowed_amount_wads
        BY <1>1, DebtOfEntry
      <4> QED BY <4>1, <4>2, <4>3, <4>4
    <3>2. CASE \A k \in 1..Len(bs) : bs[k].borrow_reserve # q
      <4>1. \A j \in 1..Len(less) : less[j].borrow_reserve # q
        BY <2>3, <2>5, <2>7, <3>2
      <4>2. DebtOf(b, q) = 0
        BY <1>4, <2>4, <4>1, DebtOfEntry
      <4>3. DebtOf(ob, q) = 0
        BY <1>1, <3>2, DebtOfEntry
      <4> QED BY <4>2, <4>3
    <3> QED BY <3>1, <3>2
  <2> QED BY <1>3, <1>5, <2>3, <2>5, <2>6, <2>7
<1> QED BY <1>6, <1>7

\* What the obligations owe a reserve less after a step that changes one.
LEMMA SettledBy ==
    ASSUME Accounts, NEW o \in Obligations, NEW Y, NEW r \in Reserves, NEW n \in Int,
           obligation' = [obligation EXCEPT ![o] = Y],
           DebtOf(obligation[o], r) - DebtOf(Y, r) = n
    PROVE  SettledDebt(r) = n
<1> DEFINE f == [p \in Obligations |-> DebtOf(obligation[p], r) - DebtOf(obligation'[p], r)]
           z == [p \in Obligations |-> 0]
<1>1. IsFiniteSet(Obligations) /\ DOMAIN obligation = Obligations
  BY AccountsAssumption DEF Accounts
<1>2. obligation'[o] = Y /\ \A p \in Obligations \ {o} : obligation'[p] = obligation[p]
  BY <1>1
<1>3. ASSUME NEW p \in Obligations  PROVE DebtOf(obligation[p], r) \in Nat
  <2>1. CASE Live(obligation[p])
    BY <2>1, LiveSound, DebtOfEntry
  <2>2. CASE ~Live(obligation[p])
    BY <2>2 DEF DebtOf
  <2> QED BY <2>1, <2>2
<1>4. ASSUME NEW p \in Obligations \ {o}  PROVE f[p] = z[p]
  <2>1. f[p] = DebtOf(obligation[p], r) - DebtOf(obligation'[p], r)
    OBVIOUS
  <2>2. DebtOf(obligation[p], r) - DebtOf(obligation[p], r) = 0
    BY <1>3
  <2> QED BY <1>2, <2>1, <2>2
<1>5. f[o] = n
  BY <1>2
<1>6. z[o] = 0 /\ \A p \in Obligations : z[p] = 0
  OBVIOUS
<1> HIDE DEF f, z
<1>7. SumFunctionOnSet(f, Obligations) = SumFunctionOnSet(z, Obligations) - z[o] + f[o]
  BY <1>1, <1>4, <1>5, <1>6, SumUpdate
<1>8. SumFunctionOnSet(z, Obligations) = 0
  BY <1>1, <1>6, SumZero
<1>9. SumFunctionOnSet(f, Obligations) = n
  BY <1>5, <1>6, <1>7, <1>8
<1> QED BY <1>9 DEF SettledDebt, f

\* Obligations that owe the same settle nothing.
LEMMA SettledNone ==
    ASSUME Accounts, NEW r \in Reserves,
           \A p \in Obligations : DebtOf(obligation'[p], r) = DebtOf(obligation[p], r)
    PROVE  SettledDebt(r) = 0
<1> DEFINE f == [p \in Obligations |-> DebtOf(obligation[p], r) - DebtOf(obligation'[p], r)]
<1>1. IsFiniteSet(Obligations)
  BY AccountsAssumption
<1>2. ASSUME NEW p \in Obligations  PROVE DebtOf(obligation[p], r) \in Nat
  <2>1. CASE Live(obligation[p])
    BY <2>1, LiveSound, DebtOfEntry
  <2>2. CASE ~Live(obligation[p])
    BY <2>2 DEF DebtOf
  <2> QED BY <2>1, <2>2
<1>3. \A p \in Obligations : f[p] = 0
  BY <1>2
<1> HIDE DEF f
<1>4. SumFunctionOnSet(f, Obligations) = 0
  BY <1>1, <1>3, SumZero
<1> QED BY <1>4 DEF SettledDebt, f

\* The ceiling of nothing.
LEMMA CeilZero == Ceil(0) = 0
<1>1. PICK w \in Nat \ {0} : w = WAD
  BY WADAssumption
<1>2. (w - 1) \div w = 0
  <2>1. PICK q \in Nat : q = (w - 1) \div w /\ q * w =< w - 1
    BY DivFacts
  <2>2. CASE q >= 1
    <3>1. 1 * w =< q * w
      BY <2>2, ProductMonotone
    <3>2. q * w \in Nat
      BY ProductNat
    <3> QED BY <2>1, <3>1, <3>2
  <2> QED BY <2>1, <2>2
<1> QED BY <1>1, <1>2 DEF Ceil

\* A reserve of which n tokens are burnt, for the liquidity they are worth
\* after a rise.
LEMMA BurntKeeps ==
    ASSUME Accounts, NEW r \in Reserves, Live(reserve[r]), NEW res \in ReserveType,
           Rises(reserve[r], res), ExchangeRate(res) > 0, NEW n \in Nat \ {0},
           NEW liq, liq = CollateralToLiquidity(res, n), CanRedeem(res, liq, n),
           NEW d, d = RedeemCollateral(res, liq, n), SameBooks(d, reserve'[r]),
           token[r][Vault] - token'[r][Vault] + Ceil(SettledDebt(r)) = liq,
           SuppliesWithin => TotalSupply(res) < FromInt(WAD)
    PROVE  KeepsShares(r)
<1>0. StaysBacked(r)
  <2> SUFFICES ASSUME SuppliesBacked, SuppliesWithin  PROVE Backed(reserve'[r])
    BY DEF StaysBacked
  <2>1. Backed(reserve[r]) /\ reserve[r] \in ReserveType
    BY LiveSound DEF SuppliesBacked, LiveReserves, Sound
  <2>2. Backed(d)
    BY <2>1, RisesBacked, BurntBacked
  <2> QED BY <2>2, SameSupply DEF Backed
<1> SUFFICES ASSUME reserve[r].mint_total_supply > 0, TotalSupply(reserve[r]) > 0
             PROVE  ValueKept(reserve[r], reserve'[r], Redeemed(r))
  BY <1>0 DEF KeepsShareValue, KeepsShares
<1>1. PICK a : a = reserve[r]
  OBVIOUS
<1>2. a \in ReserveType
  BY <1>1, LiveSound DEF Sound
<1>3. ValueKept(a, d, liq)
  BY <1>1, <1>2, ValueRedeemed
<1>4. ValueKept(a, reserve'[r], liq)
  BY <1>3, ValueOfSame
<1>5. d.mint_total_supply = a.mint_total_supply - n /\ a.mint_total_supply \in Nat
  BY <1>1, <1>2 DEF RedeemCollateral, Rises, ReserveType
<1>6. reserve'[r].mint_total_supply < a.mint_total_supply
  BY <1>5 DEF SameBooks
<1>7. Redeemed(r) = liq
  BY <1>1, <1>6 DEF Redeemed
<1> QED BY <1>1, <1>4, <1>7

\* A redemption, whoever held the tokens.
LEMMA PaidKeeps ==
    ASSUME Accounts, Cash, NEW r \in Reserves, Live(reserve[r]), NEW coll \in Nat \ {0},
           NEW res, res = reserve[r], CanPay(res, coll),
           NEW liq, liq = CollateralToLiquidity(res, coll),
           NEW X, X = MarkStale(CountOutflow(RedeemCollateral(res, liq, coll), FromInt(liq))),
           reserve' = [reserve EXCEPT ![r] = X],
           NEW u \in Users, token[r][Vault] >= liq, token' = Move(token, r, Vault, u, liq),
           \A p \in Obligations : DebtOf(obligation'[p], r) = DebtOf(obligation[p], r)
    PROVE  \A q \in Reserves : KeepsShares(q)
<1>1. Sound(res, slot) /\ slot \in Nat /\ res \in ReserveType
  BY LiveSound DEF Sound
<1>2. liq \in Nat /\ CanRedeem(res, liq, coll) /\ ExchangeRate(res) > 0
  BY <1>1, PaidNat DEF CanPay
<1>3. PICK out \in Nat : out = FromInt(liq)
  BY <1>2, ConversionNat
<1>4. PICK d : d = RedeemCollateral(res, liq, coll)
  OBVIOUS
<1>5. Follows(res, d, slot)
  BY <1>1, <1>2, <1>4, RedeemFollows DEF Sound
<1>6. PICK c : c = CountOutflow(d, out)
  OBVIOUS
<1>7. d \in ReserveType /\ Sound(d, slot)
  BY <1>1, <1>5, FollowsSound DEF Follows
<1>8. Follows(d, c, slot) /\ SameBooks(d, c)
  BY <1>1, <1>6, <1>7, CountFollows, CountBooks
<1>9. SameBooks(c, X)
  BY <1>3, <1>4, <1>6, <1>8, MarkStaleBooks DEF Follows
<1>10. reserve'[r] = X /\ \A q \in Reserves \ {r} : reserve'[q] = reserve[q]
  BY DEF Accounts
<1>11. SameBooks(d, reserve'[r])
  BY <1>8, <1>9, <1>10 DEF SameBooks
<1>12. token[r][Vault] - token'[r][Vault] + Ceil(SettledDebt(r)) = liq
  <2>1. Vault \in Holders /\ u \in Holders /\ u # Vault
    BY HoldersApart
  <2>2. token \in [Reserves -> [Holders -> Nat]]
    BY DEF Cash, TokensTyped
  <2>3. token'[r][Vault] = token[r][Vault] - liq /\ token[r][Vault] \in Nat
    BY <1>2, <2>1, <2>2, MoveFacts
  <2>4. Ceil(SettledDebt(r)) = 0
    BY SettledNone, CeilZero
  <2> QED BY <1>2, <2>3, <2>4
<1>13. Rises(res, res)
  BY <1>1, SupplyInt DEF Rises
<1>14. SuppliesWithin => TotalSupply(res) < FromInt(WAD)
  <2>1. FromInt(token[r][u]) \in Nat
    BY ConversionNat, HoldersApart DEF Cash, TokensTyped
  <2>2. FromInt(WAD) \in Nat /\ TotalSupply(res) \in Int
    BY <1>1, SupplyInt, ConversionNat, WADAssumption
  <2> QED BY <2>1, <2>2 DEF SuppliesWithin, LiveReserves
<1>15. KeepsShares(r)
  BY <1>1, <1>2, <1>4, <1>11, <1>12, <1>13, <1>14, BurntKeeps
<1> QED BY <1>10, <1>15, UntouchedKeeps

LEMMA RedeemShares ==
    ASSUME Accounts, Cash, NEW u \in Users, NEW r \in Reserves, NEW coll \in Nat,
           Redeem(u, r, coll)
    PROVE  \A q \in Reserves : KeepsShares(q)
<1>1. PICK res : res = reserve[r]
  OBVIOUS
<1>2. PICK liq : liq = CollateralToLiquidity(res, coll)
  OBVIOUS
<1>3. PICK X : X = MarkStale(CountOutflow(RedeemCollateral(res, liq, coll), FromInt(liq)))
  OBVIOUS
<1>4. /\ Live(res) /\ coll # 0 /\ CanPay(res, coll)
      /\ reserve' = [reserve EXCEPT ![r] = X]
      /\ token[r][Vault] >= liq /\ token' = Move(token, r, Vault, u, liq)
      /\ obligation' = obligation
  BY <1>1, <1>2, <1>3 DEF Redeem, Fresh
<1>5. coll \in Nat \ {0}
  BY <1>4
<1>6. \A p \in Obligations : DebtOf(obligation'[p], r) = DebtOf(obligation[p], r)
  BY <1>4
<1> QED BY <1>1, <1>2, <1>3, <1>4, <1>5, <1>6, PaidKeeps

\* A release leaves the debts alone.
LEMMA ReleaseDebts ==
    ASSUME NEW ob, NEW R, NEW s, ObligationSound(ob, R, s), NEW r \in DOMAIN ob.deposits,
           NEW n \in 0..ob.deposits[r].deposited_amount
    PROVE  \A q : DebtOf(MarkStale(Release(ob, r, n)), q) = DebtOf(ob, q)
<1>1. PICK b : b = Release(ob, r, n)
  OBVIOUS
<1>2. ObligationSound(b, R, s) /\ b.borrows = ob.borrows
  BY <1>1, ReleaseSound
<1>3. PICK Y : Y = MarkStale(b)
  OBVIOUS
<1>4. Y.borrows = ob.borrows /\ ObligationSound(Y, R, s)
  BY <1>2, <1>3, StaleObligation
<1>5. Live(Y) /\ Live(ob)
  BY <1>4, DebtOfEntry
<1>6. \A q : BorrowIndex(Y, q) = BorrowIndex(ob, q)
  BY <1>4 DEF BorrowIndex
<1>7. \A q : DebtOf(Y, q) = DebtOf(ob, q)
  BY <1>4, <1>5, <1>6 DEF DebtOf
<1> QED BY <1>1, <1>3, <1>7

LEMMA WithdrawAndRedeemShares ==
    ASSUME Accounts, Cash, NEW o \in Obligations, NEW r \in Reserves, NEW asked \in Nat,
           WithdrawAndRedeem(o, r, asked)
    PROVE  \A q \in Reserves : KeepsShares(q)
<1>1. PICK ob : ob = obligation[o]
  OBVIOUS
<1>2. PICK coll : coll = Withdrawable(ob, r, asked, TRUE)
  OBVIOUS
<1>3. PICK res : res = reserve[r]
  OBVIOUS
<1>4. PICK liq : liq = CollateralToLiquidity(res, coll)
  OBVIOUS
<1>5. PICK X : X = MarkStale(CountOutflow(RedeemCollateral(res, liq, coll), FromInt(liq)))
  OBVIOUS
<1>6. PICK Y : Y = MarkStale(Release(ob, r, coll))
  OBVIOUS
<1>7. /\ CanWithdraw(o, r) /\ coll # 0 /\ CanPay(res, coll) /\ token[r][Vault] >= liq
      /\ reserve' = [reserve EXCEPT ![r] = X]
      /\ obligation' = [obligation EXCEPT ![o] = Y]
      /\ token' = Move(token, r, Vault, ob.owner, liq)
  BY <1>1, <1>2, <1>3, <1>4, <1>5, <1>6 DEF WithdrawAndRedeem
<1>8. /\ Live(ob) /\ Live(res) /\ r \in DOMAIN ob.deposits
      /\ coll \in 0..ob.deposits[r].deposited_amount
  BY <1>1, <1>2, <1>3, <1>7, WithdrawFacts
<1>9. ObligationSound(ob, reserve, slot)
  BY <1>1, <1>8, LiveSound
<1>10. coll \in Nat \ {0}
  <2>1. ob.deposits[r].deposited_amount \in Nat
    BY <1>8, <1>9 DEF ObligationSound, DepositsSound, DepositType
  <2> QED BY <1>7, <1>8, <2>1
<1>11. \A q : DebtOf(Y, q) = DebtOf(ob, q)
  BY <1>6, <1>8, <1>9, ReleaseDebts
<1>12. \A p \in Obligations : DebtOf(obligation'[p], r) = DebtOf(obligation[p], r)
  BY <1>1, <1>7, <1>11 DEF Accounts
<1>13. ob.owner \in Users
  BY <1>1, <1>8, OwnerIsUser
<1> QED BY <1>3, <1>4, <1>5, <1>7, <1>8, <1>10, <1>12, <1>13, PaidKeeps

\* What forgive_debt takes the smallest of are integers.
LEMMA ForgivenWithin ==
    ASSUME NEW ob, NEW R, NEW s, ObligationSound(ob, R, s), NEW i \in 1..Len(ob.borrows),
           NEW res \in ReserveType
    PROVE  ob.borrows[i].borrowed_amount_wads \in Nat /\ Forgivable(res) \in Int
<1>1. ob.borrows[i].borrowed_amount_wads \in Nat
  <2>1. ob.borrows[i] \in BorrowType
    BY DEF ObligationSound, DebtsSound
  <2> QED BY <2>1 DEF BorrowType
<1>2. TotalSupply(res) \in Int /\ res.mint_total_supply \in Nat
  BY SupplyInt DEF ReserveType
<1>3. Mul(FromInt(res.mint_total_supply), FromPercent(1)) \in Nat
  BY <1>2, ConversionNat, PercentFacts, DecimalNat
<1> QED BY <1>1, <1>2, <1>3 DEF Forgivable

\* The hundredth that is not forgiven stays behind the tokens.
LEMMA ForgivenBacked ==
    ASSUME NEW res \in ReserveType, NEW amount \in Nat, amount =< Forgivable(res),
           NEW d, d = Forgive(res, amount)
    PROVE  Backed(d)
<1>1. PICK m \in Nat : m = res.mint_total_supply
  BY DEF ReserveType
<1>2. PICK w \in Nat \ {0}, h \in Nat : w = WAD /\ h = WAD \div 100 /\ 100 * h = w
  BY WADAssumption, ExactHundredths, DivFacts
<1>3. Mul(FromInt(m), FromPercent(1)) = m * h
  <2>1. FromInt(m) * FromPercent(1) = (m * h) * w /\ m * h \in Nat
    BY <1>2, ProductNat, SMT DEF FromInt, FromPercent
  <2>2. ((m * h) * w) \div w = m * h
    BY <1>2, <2>1, FloorFromInt DEF Floor, FromInt
  <2> QED BY <1>2, <2>1, <2>2 DEF Mul
<1>4. /\ d.available_amount = res.available_amount /\ d.mint_total_supply = m
      /\ d.borrowed_amount_wads = res.borrowed_amount_wads - amount
      /\ d.accumulated_protocol_fees_wads = res.accumulated_protocol_fees_wads
      /\ res.borrowed_amount_wads \in Nat /\ res.accumulated_protocol_fees_wads \in Nat
      /\ res.available_amount \in Nat
  BY <1>1 DEF Forgive, ReserveType
<1>5. TotalSupply(d) = TotalSupply(res) - amount /\ TotalSupply(res) \in Int
  BY <1>4, SupplyInt, ConversionNat DEF TotalSupply
<1>6. amount =< TotalSupply(res) - m * h
  BY <1>1, <1>3 DEF Forgivable
<1>7. m * h \in Nat /\ (m > 0 => m * h > 0)
  <2>1. h >= 1
    BY <1>2
  <2> QED BY <2>1, SMT
<1> QED BY <1>4, <1>5, <1>6, <1>7 DEF Backed

\* Forgiving is the exception, and forgiving nothing changes nothing.
LEMMA ForgiveDebtShares ==
    ASSUME Accounts, NEW o \in Obligations, NEW r \in Reserves, NEW asked \in Nat,
           ForgiveDebt(o, r, asked)
    PROVE  \A q \in Reserves : KeepsShares(q)
<1>1. PICK ob : ob = obligation[o]
  OBVIOUS
<1>2. PICK res : res = reserve[r]
  OBVIOUS
<1>3. PICK i : i = BorrowIndex(ob, r)
  OBVIOUS
<1>4. PICK amount : amount = Smaller(FromInt(asked),
                                Smaller(ob.borrows[i].borrowed_amount_wads, Forgivable(res)))
  OBVIOUS
<1>5. PICK d : d = Forgive(res, amount)
  OBVIOUS
<1>6. PICK X : X = MarkStale(d)
  OBVIOUS
<1>7. /\ Live(ob) /\ Live(res) /\ Forgivable(res) >= 0 /\ i # 0
      /\ amount =< res.borrowed_amount_wads
      /\ reserve' = [reserve EXCEPT ![r] = X]
  BY <1>1, <1>2, <1>3, <1>4, <1>5, <1>6 DEF ForgiveDebt, Fresh
<1>8. Sound(res, slot) /\ slot \in Nat /\ res \in ReserveType /\ ObligationSound(ob, reserve, slot)
  BY <1>1, <1>2, <1>7, LiveSound DEF Sound
<1>9. i \in 1..Len(ob.borrows)
  BY <1>3, <1>7, <1>8, BorrowIndexFacts DEF ObligationSound, DebtsSound
<1>10. amount \in Nat
  <2>1. ob.borrows[i].borrowed_amount_wads \in Nat /\ Forgivable(res) \in Int
    BY <1>8, <1>9, ForgivenWithin
  <2>2. FromInt(asked) \in Nat
    BY ConversionNat
  <2> QED BY <1>4, <1>7, <2>1, <2>2 DEF Smaller
<1>11. Follows(res, d, slot)
  BY <1>5, <1>7, <1>8, <1>10, ForgiveFollows DEF Sound
<1>12. d \in ReserveType /\ SameBooks(d, X)
  BY <1>6, <1>11, MarkStaleBooks DEF Follows
<1>13. /\ d.borrowed_amount_wads = res.borrowed_amount_wads - amount
       /\ d.available_amount = res.available_amount
       /\ d.accumulated_protocol_fees_wads = res.accumulated_protocol_fees_wads
       /\ d.mint_total_supply = res.mint_total_supply
       /\ res.borrowed_amount_wads \in Nat
  BY <1>5, <1>8 DEF Forgive, ReserveType
<1>14. reserve'[r] = X /\ \A q \in Reserves \ {r} : reserve'[q] = reserve[q]
  BY <1>7 DEF Accounts
<1>15. CASE amount = 0
  <2>1. SameBooks(res, d)
    BY <1>13, <1>15 DEF SameBooks
  <2>2. Rises(res, res)
    BY <1>8, SupplyInt DEF Rises
  <2>3. Rises(res, X)
    BY <1>8, <1>12, <2>1, <2>2, SameBooksRises
  <2>4. X \in ReserveType
    BY <1>6, <1>8, <1>11, <1>12, MarkStaleFollows DEF Follows
  <2>5. Grows(r, X)
    BY <1>2, <1>7, <2>3, <2>4, RisesGrows
  <2> QED BY <2>5, GrowsKeeps
<1>16. CASE amount # 0
  <2>1. Forgiven(r)
    BY <1>2, <1>10, <1>12, <1>13, <1>14, <1>16 DEF Forgiven, SameBooks
  <2>2. KeepsShareValue(r)
    BY <2>1 DEF KeepsShareValue
  <2>3. StaysBacked(r)
    <3>1. amount =< Forgivable(res)
      <4>1. ob.borrows[i].borrowed_amount_wads \in Int /\ Forgivable(res) \in Int
        BY <1>8, <1>9, ForgivenWithin
      <4> QED BY <1>4, <4>1, ConversionNat DEF Smaller
    <3>2. Backed(d)
      BY <1>5, <1>8, <1>10, <3>1, ForgivenBacked
    <3>3. Backed(X)
      BY <1>12, <3>2, SameSupply DEF Backed
    <3> QED BY <1>14, <3>3 DEF StaysBacked
  <2> QED BY <1>14, <2>2, <2>3, UntouchedKeeps DEF KeepsShares
<1> QED BY <1>15, <1>16

\* A reserve whose supply rises over the same tokens, whatever else changes.
LEMMA RisesKeeps ==
    ASSUME Accounts, NEW r \in Reserves, Live(reserve[r]), reserve'[r] \in ReserveType,
           Rises(reserve[r], reserve'[r])
    PROVE  KeepsShares(r)
<1>1. PICK a : a = reserve[r]
  OBVIOUS
<1>2. PICK b : b = reserve'[r]
  OBVIOUS
<1>3. a \in ReserveType /\ b \in ReserveType /\ Rises(a, b)
  BY <1>1, <1>2, LiveSound DEF Sound
<1>4. ~(b.mint_total_supply < a.mint_total_supply)
  BY <1>3 DEF Rises, ReserveType
<1>5. Redeemed(r) = 0
  BY <1>1, <1>2, <1>4 DEF Redeemed
<1>6. ValueKept(a, b, 0)
  BY <1>3, ValueRaised
<1>7. StaysBacked(r)
  BY <1>1, <1>2, <1>3, RisesBacked DEF StaysBacked, SuppliesBacked, LiveReserves
<1> QED BY <1>1, <1>2, <1>5, <1>6, <1>7 DEF KeepsShareValue, KeepsShares

\* The reserve of a liquidation's collateral, after the repayment and its own
\* refresh.
LEMMA RepaidRises ==
    ASSUME Accounts, NEW debt \in Reserves, NEW coll \in Reserves, Live(reserve[debt]),
           Live(reserve[coll]), NEW settle \in Nat,
           NEW repaid, repaid = [reserve EXCEPT ![debt] = MarkStale(Settle(@, Ceil(settle), settle))],
           NEW res, res = RefreshInterest(repaid[coll], slot)
    PROVE  /\ repaid[debt] \in ReserveType /\ Rises(reserve[debt], repaid[debt])
           /\ \A q \in Reserves \ {debt} : repaid[q] = reserve[q]
           /\ DOMAIN repaid = Reserves
           /\ res \in ReserveType /\ Sound(res, slot) /\ Rises(reserve[coll], res)
<1>1. PICK X : X = MarkStale(Settle(reserve[debt], Ceil(settle), settle))
  OBVIOUS
<1>2. /\ Sound(reserve[debt], slot) /\ Sound(reserve[coll], slot) /\ slot \in Nat
      /\ DOMAIN reserve = Reserves
  BY LiveSound DEF Accounts
<1>3. X \in ReserveType /\ Sound(X, slot) /\ Rises(reserve[debt], X)
  BY <1>1, <1>2, SettledRises
<1>4. repaid[debt] = X /\ DOMAIN repaid = Reserves /\ \A q \in Reserves \ {debt} : repaid[q] = reserve[q]
  BY <1>1, <1>2
<1>5. Sound(repaid[coll], slot) /\ Rises(reserve[coll], repaid[coll])
  <2>1. CASE coll = debt
    BY <1>3, <1>4, <2>1
  <2>2. CASE coll # debt
    <3>1. reserve[coll] \in ReserveType /\ repaid[coll] = reserve[coll]
      BY <1>2, <1>4, <2>2 DEF Sound
    <3> QED BY <1>2, <3>1, SupplyInt DEF Rises
  <2> QED BY <2>1, <2>2
<1>6. res \in ReserveType /\ Sound(res, slot) /\ Rises(repaid[coll], res)
  BY <1>2, <1>5, RefreshRises
<1>7. Rises(reserve[coll], res)
  BY <1>2, <1>5, <1>6, RisesAlong DEF Sound
<1> QED BY <1>3, <1>4, <1>6, <1>7

\* That supply is within what the liquidator can pay: the interest of the slot
\* is there already.
LEMMA RepaidWithin ==
    ASSUME Accounts, Cash, NEW debt \in Reserves, NEW coll \in Reserves, Live(reserve[debt]),
           Live(reserve[coll]), NEW settle \in Nat, NEW u \in Users,
           NEW repaid, repaid = [reserve EXCEPT ![debt] = MarkStale(Settle(@, Ceil(settle), settle))],
           NEW res, res = RefreshInterest(repaid[coll], slot),
           reserve[debt].last_update.slot = slot, reserve[coll].last_update.slot = slot,
           Ceil(settle) =< token[coll][u] \/ coll # debt, SuppliesWithin
    PROVE  TotalSupply(res) < FromInt(WAD)
<1>1. PICK a : a = reserve[coll]
  OBVIOUS
<1>2. PICK b : b = repaid[coll]
  OBVIOUS
<1>3. Sound(a, slot) /\ slot \in Nat /\ a \in ReserveType /\ DOMAIN reserve = Reserves
  BY <1>1, LiveSound DEF Sound, Accounts
<1>4. PICK n \in Nat, k \in Nat : n = Ceil(settle) /\ k = token[coll][u]
  BY CeilBound, HoldersApart DEF Cash, TokensTyped
<1>5. PICK most \in Nat : most = FromInt(WAD)
  BY ConversionNat, WADAssumption
<1>6. TotalSupply(a) + FromInt(k) < most /\ FromInt(k) \in Nat /\ TotalSupply(a) \in Int
  BY <1>1, <1>3, <1>4, <1>5, ConversionNat, SupplyInt DEF SuppliesWithin, LiveReserves
<1>7. /\ b.last_update.slot = slot /\ Sound(b, slot) /\ b \in ReserveType
      /\ TotalSupply(b) =< TotalSupply(a) + FromInt(k)
  <2>1. CASE coll # debt
    <3>1. b = a
      BY <1>1, <1>2, <1>3, <2>1
    <3> QED BY <1>1, <1>3, <1>6, <3>1
  <2>2. CASE coll = debt
    <3>1. PICK d : d = Settle(a, n, settle)
      OBVIOUS
    <3>2. b = MarkStale(d)
      BY <1>1, <1>2, <1>3, <1>4, <2>2, <3>1
    <3>3. Sound(b, slot) /\ b \in ReserveType
      BY <1>3, <1>4, <3>1, <3>2, SettledRises DEF Sound
    <3>4. Follows(a, d, slot)
      BY <1>3, <1>4, <3>1, SettleFollows DEF Sound
    <3>5. SameBooks(d, b) /\ b.last_update.slot = d.last_update.slot
      BY <3>2, <3>4, MarkStaleBooks DEF Follows, MarkStale, ReserveType, UpdateType
    <3>6. /\ d.last_update = a.last_update
          /\ d.available_amount = a.available_amount + n /\ a.available_amount \in Nat
          /\ d.borrowed_amount_wads =< a.borrowed_amount_wads
          /\ d.borrowed_amount_wads \in Nat /\ a.borrowed_amount_wads \in Nat
          /\ d.accumulated_protocol_fees_wads = a.accumulated_protocol_fees_wads
          /\ a.accumulated_protocol_fees_wads \in Nat
      BY <1>3, <3>1 DEF Settle, Smaller, ReserveType
    <3>7. FromInt(a.available_amount + n) = FromInt(a.available_amount) + FromInt(n)
          /\ FromInt(a.available_amount) \in Nat /\ FromInt(n) \in Nat
      BY <3>6, WADAssumption, ConversionNat, SMT DEF FromInt
    <3>8. FromInt(n) =< FromInt(k)
      BY <1>4, <2>2, WADAssumption, ProductMonotone DEF FromInt
    <3>9. TotalSupply(d) =< TotalSupply(a) + FromInt(k)
      BY <1>6, <3>6, <3>7, <3>8 DEF TotalSupply
    <3> QED BY <1>1, <3>3, <3>5, <3>6, <3>9, SameSupply
  <2> QED BY <2>1, <2>2
<1>8. SameBooks(b, res)
  BY <1>2, <1>3, <1>7, RefreshSupply DEF Sound
<1> QED BY <1>5, <1>6, <1>7, <1>8, SameSupply, SupplyInt

\* What a liquidation settles, with each reserve.
LEMMA LiquidationSettles ==
    ASSUME Accounts, NEW o \in Obligations, NEW debt \in Reserves, NEW coll \in Reserves,
           Live(obligation[o]), NEW i, i = BorrowIndex(obligation[o], debt),
           i \in 1..Len(obligation[o].borrows), coll \in DOMAIN obligation[o].deposits,
           NEW settle \in 0..obligation[o].borrows[i].borrowed_amount_wads, settle \in Nat,
           NEW withdraw \in 0..obligation[o].deposits[coll].deposited_amount,
           obligation' = [obligation EXCEPT ![o] =
               MarkStale(Release(PayOff(@, i, settle), coll, withdraw))]
    PROVE  \A q \in Reserves : SettledDebt(q) = IF q = debt THEN settle ELSE 0
<1>1. PICK ob : ob = obligation[o]
  OBVIOUS
<1>2. PICK paid : paid = PayOff(ob, i, settle)
  OBVIOUS
<1>3. PICK Y : Y = MarkStale(Release(paid, coll, withdraw))
  OBVIOUS
<1>4. obligation' = [obligation EXCEPT ![o] = Y]
  BY <1>1, <1>2, <1>3
<1>5. ObligationSound(ob, reserve, slot)
  BY <1>1, LiveSound
<1>6. ob.borrows[i].borrow_reserve = debt
  BY <1>1, <1>5, BorrowIndexFacts DEF ObligationSound, DebtsSound
<1>7. ObligationSound(paid, reserve, slot) /\ paid.deposits = ob.deposits
  BY <1>1, <1>2, <1>5, PayOffSound
<1>8. DebtOf(paid, debt) = DebtOf(ob, debt) - settle
      /\ \A q : q # debt => DebtOf(paid, q) = DebtOf(ob, q)
  BY <1>1, <1>2, <1>5, <1>6, PayOffDebts
<1>9. \A q : DebtOf(Y, q) = DebtOf(paid, q)
  BY <1>1, <1>3, <1>7, ReleaseDebts
<1>10. \A q : DebtOf(ob, q) \in Nat
  BY <1>5, DebtOfEntry
<1>11. ASSUME NEW q \in Reserves
       PROVE  DebtOf(ob, q) - DebtOf(Y, q) = IF q = debt THEN settle ELSE 0
  <2>1. PICK had \in Nat : had = DebtOf(ob, q)
    BY <1>10
  <2>2. DebtOf(Y, q) = IF q = debt THEN had - settle ELSE had
    BY <1>8, <1>9, <2>1
  <2> QED BY <2>1, <2>2
<1>12. \A q \in Reserves : (IF q = debt THEN settle ELSE 0) \in Int
  OBVIOUS
<1> QED BY <1>1, <1>4, <1>11, <1>12, SettledBy

\* A liquidation: the debt's reserve rises, the collateral's keeps its value
\* whether or not tokens are redeemed from it.
LEMMA LiquidateShares ==
    ASSUME Accounts, Cash, NEW u \in Users, NEW o \in Obligations, NEW debt \in Reserves,
           NEW coll \in Reserves, NEW asked \in Nat, Liquidate(u, o, debt, coll, asked)
    PROVE  \A q \in Reserves : KeepsShares(q)
<1>1. PICK ob : ob = obligation[o]
  OBVIOUS
<1>2. PICK i : i = BorrowIndex(ob, debt)
  OBVIOUS
<1>3. PICK part : part = LiquidationOf(ob, i, coll, asked)
  OBVIOUS
<1>4. PICK settle : settle = part.settle
  OBVIOUS
<1>5. PICK repay : repay = part.repay
  OBVIOUS
<1>6. PICK withdraw : withdraw = part.withdraw
  OBVIOUS
<1>7. PICK repaid : repaid = [reserve EXCEPT ![debt] = MarkStale(Settle(@, repay, settle))]
  OBVIOUS
<1>8. PICK res : res = RefreshInterest(repaid[coll], slot)
  OBVIOUS
<1>9. PICK redeemed : redeemed = Smaller(withdraw, LiquidityToCollateral(res, res.available_amount))
  OBVIOUS
<1>10. PICK liq : liq = CollateralToLiquidity(res, redeemed)
  OBVIOUS
<1>11. PICK fee : fee = ProtocolLiquidationFee(res, liq, BonusRate(reserve[coll], ob))
  OBVIOUS
<1>12. PICK received : received = Move(Move(token, debt, u, Vault, repay), coll, Vault, u, liq)
  OBVIOUS
<1>13. PICK Z : Z = MarkStale(RedeemCollateral(res, liq, redeemed))
  OBVIOUS
<1>14. /\ CanLiquidate(o, debt, coll) /\ TotalSupply(res) >= 0 /\ token[debt][u] >= repay
       /\ obligation' = [obligation EXCEPT ![o] =
             MarkStale(Release(PayOff(@, i, settle), coll, withdraw))]
  BY <1>1, <1>2, <1>3, <1>4, <1>5, <1>6, <1>7, <1>8 DEF Liquidate
<1>15. \/ reserve' = [repaid EXCEPT ![coll] = res]
       \/ /\ redeemed # 0 /\ CanPay(res, redeemed) /\ received[coll][u] >= fee
          /\ reserve' = [repaid EXCEPT ![coll] = Z]
          /\ token' = Move(received, coll, u, FeeReceiver, fee)
  BY <1>1, <1>2, <1>3, <1>4, <1>5, <1>6, <1>7, <1>8, <1>9, <1>10, <1>11, <1>12, <1>13
  DEF Liquidate
<1>16. /\ Live(ob) /\ Live(reserve[debt]) /\ Live(reserve[coll])
       /\ i \in 1..Len(ob.borrows) /\ coll \in DOMAIN ob.deposits
       /\ settle \in 0..ob.borrows[i].borrowed_amount_wads
       /\ withdraw \in 0..ob.deposits[coll].deposited_amount
       /\ repay \in Nat /\ settle \in Nat /\ withdraw \in Nat
       /\ BonusRate(reserve[coll], ob) \in Nat /\ BonusRate(reserve[coll], ob) >= WAD
  BY <1>1, <1>2, <1>3, <1>4, <1>5, <1>6, <1>14, LiquidateFacts
<1>17. repay = Ceil(settle)
  BY <1>3, <1>4, <1>5 DEF LiquidationOf, Liquidation, TakeCollateral
<1>18. /\ repaid[debt] \in ReserveType /\ Rises(reserve[debt], repaid[debt])
       /\ \A q \in Reserves \ {debt} : repaid[q] = reserve[q]
       /\ DOMAIN repaid = Reserves
       /\ res \in ReserveType /\ Sound(res, slot) /\ Rises(reserve[coll], res)
  BY <1>7, <1>8, <1>16, <1>17, RepaidRises
<1>19. KeepsShares(coll)
  <2>1. CASE reserve' = [repaid EXCEPT ![coll] = res]
    <3>1. reserve'[coll] = res
      BY <1>18, <2>1
    <3> QED BY <1>16, <1>18, <3>1, RisesKeeps
  <2>2. CASE /\ redeemed # 0 /\ CanPay(res, redeemed) /\ received[coll][u] >= fee
             /\ reserve' = [repaid EXCEPT ![coll] = Z]
             /\ token' = Move(received, coll, u, FeeReceiver, fee)
    <3>1. /\ redeemed \in Nat \ {0} /\ liq \in Nat /\ CanRedeem(res, liq, redeemed)
          /\ liq =< reserve[coll].available_amount + (IF coll = debt THEN repay ELSE 0)
      <4>1. /\ repaid[debt].available_amount = reserve[debt].available_amount + repay
            /\ res.available_amount = repaid[coll].available_amount
            /\ redeemed \in Nat /\ liq \in Nat /\ CanRedeem(res, liq, redeemed)
        <5>1. LET again == [reserve EXCEPT ![debt] = MarkStale(Settle(@, repay, settle))]
                  next  == RefreshInterest(again[coll], slot)
                  most  == Smaller(withdraw, LiquidityToCollateral(next, next.available_amount))
                  out   == CollateralToLiquidity(next, most)
              IN  /\ ReservesOnward(reserve, again, slot)
                  /\ again[debt].available_amount = reserve[debt].available_amount + repay
                  /\ \A r \in Reserves \ {debt} : again[r] = reserve[r]
                  /\ Live(again[coll]) /\ Follows(again[coll], next, slot) /\ Sound(next, slot)
                  /\ next.available_amount = again[coll].available_amount
                  /\ TotalSupply(next) >= 0 =>
                        /\ most \in 0..withdraw /\ most \in Nat
                        /\ CanPay(next, most) => out \in Nat /\ CanRedeem(next, out, most)
          BY <1>16, RedeemedFacts
        <5> QED BY <1>7, <1>8, <1>9, <1>10, <1>14, <2>2, <5>1
      <4>2. liq =< res.available_amount
        BY <4>1 DEF CanRedeem
      <4>3. res.available_amount = reserve[coll].available_amount
                                     + (IF coll = debt THEN repay ELSE 0)
        <5>1. reserve[coll].available_amount \in Nat
          BY <1>16, LiveSound DEF Sound, ReserveType
        <5>2. CASE coll = debt
          BY <4>1, <5>2
        <5>3. CASE coll # debt
          BY <1>18, <4>1, <5>1, <5>3
        <5> QED BY <5>2, <5>3
      <4> QED BY <2>2, <4>1, <4>2, <4>3
    <3>2. PICK d : d = RedeemCollateral(res, liq, redeemed)
      OBVIOUS
    <3>3. d \in ReserveType
      <4>1. slot \in Nat /\ res.last_update.slot =< slot
        BY <1>16, <1>18, LiveSound DEF Sound
      <4> QED BY <1>18, <3>1, <3>2, <4>1, RedeemFollows DEF Follows
    <3>4. SameBooks(d, reserve'[coll])
      <4>1. reserve'[coll] = Z
        BY <1>18, <2>2
      <4> QED BY <1>13, <3>2, <3>3, <4>1, MarkStaleBooks
    <3>5. ExchangeRate(res) > 0
      BY <2>2 DEF CanPay
    <3>6. token'[coll][Vault] = token[coll][Vault] + (IF coll = debt THEN repay ELSE 0) - liq
      <4>1. fee \in Nat
        BY <1>11, <1>16, <1>18, <3>1, LiquidationFeeNat
      <4>2. LiquidationPays(u, debt, coll, repay, liq, fee)
        BY <1>12, <2>2 DEF LiquidationPays
      <4>3. token'[coll][Vault] = token[coll][Vault] + (IF coll = debt THEN repay ELSE 0)
                                                     - (IF coll = coll THEN liq ELSE 0)
        <5>1. \A r \in Reserves :
                 token'[r][Vault] = token[r][Vault] + (IF r = debt THEN repay ELSE 0)
                                                    - (IF r = coll THEN liq ELSE 0)
          <6>1. /\ Live(reserve[debt]) /\ Live(reserve[coll]) /\ token[debt][u] >= repay
                /\ repay \in Nat /\ liq \in Nat
                /\ liq =< reserve[coll].available_amount + (IF coll = debt THEN repay ELSE 0)
            BY <1>14, <1>16, <3>1
          <6> QED BY <6>1, <4>1, <4>2, PaymentFacts
        <5> QED BY <5>1
      <4> QED BY <4>3
    <3>7. Ceil(SettledDebt(coll)) = IF coll = debt THEN repay ELSE 0
      <4>1. SettledDebt(coll) = IF coll = debt THEN settle ELSE 0
        BY <1>1, <1>2, <1>14, <1>16, LiquidationSettles
      <4> QED BY <1>17, <4>1, CeilZero
    <3>8. token[coll][Vault] - token'[coll][Vault] + Ceil(SettledDebt(coll)) = liq
      <4>1. token[coll][Vault] \in Nat
        BY HoldersApart DEF Cash, TokensTyped
      <4>2. PICK back \in Nat : back = IF coll = debt THEN repay ELSE 0
        BY <1>16
      <4> QED BY <3>1, <3>6, <3>7, <4>1, <4>2
    <3>9. SuppliesWithin => TotalSupply(res) < FromInt(WAD)
      <4>1. reserve[debt].last_update.slot = slot /\ reserve[coll].last_update.slot = slot
        <5>1. slot \in Nat /\ Sound(reserve[debt], slot) /\ Sound(reserve[coll], slot)
          BY <1>16, LiveSound
        <5> QED BY <1>14, <5>1 DEF CanLiquidate, Fresh, IsStale, Sound, ReserveType, UpdateType
      <4>2. repay =< token[coll][u] \/ coll # debt
        BY <1>14
      <4> QED BY <1>7, <1>8, <1>16, <1>17, <1>18, <4>1, <4>2, RepaidWithin
    <3> QED BY <1>10, <1>16, <1>18, <3>1, <3>2, <3>4, <3>5, <3>8, <3>9, BurntKeeps
  <2> QED BY <1>15, <2>1, <2>2
<1>20. ASSUME NEW q \in Reserves \ {coll}  PROVE KeepsShares(q)
  <2>1. reserve'[q] = repaid[q]
    BY <1>15, <1>18
  <2>2. CASE q = debt
    BY <1>16, <1>18, <2>1, <2>2, RisesKeeps
  <2>3. CASE q # debt
    BY <1>18, <2>1, <2>3, UntouchedKeeps
  <2> QED BY <2>2, <2>3
<1> QED BY <1>19, <1>20

\* A reserve opened had no tokens.
LEMMA InitReserveShares ==
    ASSUME Accounts, NEW r \in Reserves, NEW u, InitReserve(r, u)
    PROVE  \A q \in Reserves : KeepsShares(q)
<1>1. PICK X : ~Live(reserve[r]) /\ reserve' = [reserve EXCEPT ![r] = X]
  BY InitReserveDoes
<1>2. \A q \in Reserves \ {r} : reserve'[q] = reserve[q]
  BY <1>1 DEF Accounts
<1>3. KeepsShareValue(r)
  BY <1>1 DEF KeepsShareValue
<1>4. PICK new : new = NewReserve(slot, FirstConfig[r], MintScale[r])
  OBVIOUS
<1>5. new \in ReserveType /\ TotalSupply(new) = 0 /\ FirstDeposit \in Nat
  <2>1. slot \in Nat /\ FirstDeposit \in Nat
    BY AmountsAssumption DEF Accounts
  <2>2. PICK config \in ConfigType, scale \in Nat \ {0} :
           config = FirstConfig[r] /\ scale = MintScale[r]
    BY ConfigsAssumption, AmountsAssumption
  <2> QED BY <1>4, <2>1, <2>2, NewReserveFacts
<1>6. Backed(new)
  BY <1>4 DEF Backed, NewReserve
<1>7. reserve'[r] = DepositLiquidity(new, FirstDeposit, LiquidityToCollateral(new, FirstDeposit))
  BY <1>4 DEF InitReserve, Accounts
<1>8. StaysBacked(r)
  BY <1>5, <1>6, <1>7, DepositBacked DEF StaysBacked
<1> QED BY <1>2, <1>3, <1>8, UntouchedKeeps DEF KeepsShares

\* The instructions that leave the reserves alone.
LEMMA OtherShares ==
    ASSUME Accounts, reserve' = reserve
    PROVE  \A q \in Reserves : KeepsShares(q)
BY UntouchedKeeps

\* Every step keeps what a collateral token is worth, and that it is worth something.
LEMMA ShareStep ==
    ASSUME Accounts, Cash, [Next]_vars
    PROVE  \A q \in Reserves : KeepsShares(q)
<1>1. CASE UNCHANGED vars \/ Tick
  BY <1>1, OtherShares DEF vars, Tick
<1>2. CASE OpenAccounts
  BY <1>2, InitReserveShares, OtherShares DEF OpenAccounts, InitObligation
<1>3. CASE Upkeep
  BY <1>3, RefreshReserveShares, RedeemProtocolFeesShares, OtherShares
  DEF Upkeep, RefreshAnObligation
<1>4. CASE Pool
  BY <1>4, AmountsAssumption, DepositShares, RedeemShares DEF Pool
<1>5. CASE Collateral
  BY <1>5, AmountsAssumption, DepositObligationShares, DepositAndPledgeShares,
     WithdrawAndRedeemShares, OtherShares DEF Collateral, WithdrawObligation
<1>6. CASE Debt
  BY <1>6, AmountsAssumption, BorrowShares, RepayShares, ForgiveDebtShares DEF Debt
<1>7. CASE Liquidations
  BY <1>7, AmountsAssumption, LiquidateShares DEF Liquidations
<1>8. CASE Administration
  BY <1>8, UpdateReserveConfigShares, OtherShares
  DEF Administration, SetOwnerAndConfig, SetRiskAuthority
<1> QED BY <1>1, <1>2, <1>3, <1>4, <1>5, <1>6, <1>7, <1>8 DEF Next

\* No instruction but forgive_debt makes a collateral token worth less, and a
\* redemption takes from those who stay at most what the truncation of the
\* exchange rate can.
THEOREM ShareValueKept == Spec => ShareValueNeverFalls
<1>1. Accounts /\ Cash /\ [Next]_vars => [\A r \in Reserves : KeepsShareValue(r)]_vars
  BY ShareStep DEF KeepsShares
<1> QED BY <1>1, AccountsInvariant, CashInvariant, PTL DEF Spec, ShareValueNeverFalls

\* Collateral tokens that are outstanding are worth something, as long as the
\* supplies are such that truncating an exchange rate takes less than a token.
THEOREM SuppliesStayBacked == Spec /\ []SuppliesWithin => []SuppliesBacked
<1>1. Init => SuppliesBacked
  BY DEF Init, SuppliesBacked, LiveReserves, Live, Blank
<1>2. Accounts /\ Cash /\ SuppliesWithin /\ SuppliesBacked /\ [Next]_vars => SuppliesBacked'
  BY ShareStep DEF KeepsShares, StaysBacked, SuppliesBacked, LiveReserves
<1> QED BY <1>1, <1>2, AccountsInvariant, CashInvariant, PTL DEF Spec

\* No reserve with collateral tokens outstanding is stuck: its total_supply is
\* never negative, accrue_interest succeeds in every slot and so does the
\* accrual of every debt to it.
THEOREM NeverStuck == Spec /\ []SuppliesWithin => []NoReserveStuck
<1>1. ASSUME Accounts, SuppliesBacked  PROVE NoReserveStuck
  <2> SUFFICES ASSUME NEW r \in LiveReserves, reserve[r].mint_total_supply > 0
               PROVE  /\ TotalSupply(reserve[r]) >= 0
                      /\ CanRefresh(reserve[r], slot)
                      /\ \A o \in LiveObligations : \A i \in DOMAIN obligation[o].borrows :
                            obligation[o].borrows[i].borrow_reserve = r =>
                              CanAccrue(obligation[o].borrows[i],
                                        reserve[r].cumulative_borrow_rate_wads)
    BY DEF NoReserveStuck
  <2>1. r \in Reserves /\ Live(reserve[r])
    BY DEF LiveReserves
  <2>2. Sound(reserve[r], slot) /\ slot \in Nat /\ reserve[r] \in ReserveType
    BY <1>1, <2>1, LiveSound DEF Sound
  <2>3. TotalSupply(reserve[r]) >= 0
    BY <1>1, <2>2, SupplyInt DEF SuppliesBacked, Backed
  <2>4. CanRefresh(reserve[r], slot)
    BY <2>2, <2>3, CanAlwaysRefresh DEF Sound, ReserveType, UpdateType
  <2>5. ASSUME NEW o \in LiveObligations, NEW i \in DOMAIN obligation[o].borrows,
               obligation[o].borrows[i].borrow_reserve = r
        PROVE  CanAccrue(obligation[o].borrows[i], reserve[r].cumulative_borrow_rate_wads)
    <3>1. ObligationSound(obligation[o], reserve, slot)
      BY <1>1, LiveSound DEF LiveObligations
    <3>2. DebtSound(obligation[o].borrows[i], reserve)
      BY <3>1 DEF ObligationSound, DebtsSound
    <3>3. obligation[o].borrows[i].cumulative_borrow_rate_wads
            =< reserve[r].cumulative_borrow_rate_wads
      BY <2>5, <3>2 DEF DebtSound
    <3>4. /\ obligation[o].borrows[i].cumulative_borrow_rate_wads \in Nat
          /\ reserve[r].cumulative_borrow_rate_wads \in Nat
      <4>1. obligation[o].borrows[i] \in BorrowType
        BY <3>1 DEF ObligationSound, DebtsSound
      <4> QED BY <2>2, <4>1 DEF BorrowType, ReserveType
    <3> QED BY <3>3, <3>4 DEF CanAccrue
  <2> QED BY <2>3, <2>4, <2>5
<1> QED BY <1>1, SuppliesStayBacked, AccountsInvariant, PTL

-----------------------------------------------------------------------------
\* What a fresh obligation may be relied on for while nobody changes the tier
\* or the weight of a reserve: a change marks the reserve stale, but not the
\* obligations that were refreshed with it.

\* The reserves owed are among those owed before, and no more of them.
Fewer(bs, cs) ==
    /\ Len(cs) \in Nat /\ Len(cs) =< Len(bs)
    /\ \A i \in 1..Len(cs) : \E j \in 1..Len(bs) : cs[i].borrow_reserve = bs[j].borrow_reserve

Isolated(R, r) == R[r].config.reserve_type = "Isolated"
OwesIsolated(bs, R) == \E i \in 1..Len(bs) : Isolated(R, bs[i].borrow_reserve)

\* A refresh owes the same reserves, and sees the isolated one if there is one.
LEMMA RefreshKeepsTiers ==
    ASSUME NEW ob, NEW R, NEW s \in Nat, ObligationSound(ob, R, s), AllSound(R, s),
           CanRefreshObligation(ob, R, s)
    PROVE  LET b == RefreshObligation(ob, R, s)
           IN  /\ Fewer(ob.borrows, b.borrows)
               /\ OwesIsolated(b.borrows, R) => b.borrowing_isolated_asset
<1>1. PICK b : b = RefreshObligation(ob, R, s)
  OBVIOUS
<1>2. PICK bs : bs = ob.borrows
  OBVIOUS
<1>3. bs \in Seq(BorrowType) /\ DebtsSound(bs, R) /\ DOMAIN bs = 1..Len(bs) /\ Len(bs) \in Nat
  BY <1>2 DEF ObligationSound, DebtsSound
<1>4. PICK owed : owed = OwedNow(ob, R)
  OBVIOUS
<1>5. DebtsSound(owed, R) /\ Len(owed) = Len(bs) /\ DOMAIN owed = 1..Len(bs)
  <2>1. DebtsSound(owed, R)
    BY <1>4, OwedNowSound
  <2>2. DOMAIN owed = 1..Len(bs)
    BY <1>2, <1>3, <1>4 DEF OwedNow
  <2>3. Len(owed) = Len(bs)
    BY <1>3, <2>1, <2>2 DEF DebtsSound
  <2> QED BY <2>1, <2>2, <2>3
<1>6. ASSUME NEW j \in 1..Len(bs)  PROVE owed[j].borrow_reserve = bs[j].borrow_reserve
  <2>1. PICK r : r = bs[j].borrow_reserve
    OBVIOUS
  <2>2. bs[j] \in BorrowType /\ DebtSound(bs[j], R) /\ r \in Reserves /\ Live(R[r])
    <3>1. bs[j] \in BorrowType
      BY <1>3
    <3>2. DebtSound(bs[j], R)
      BY <1>3 DEF DebtsSound
    <3> QED BY <2>1, <3>1, <3>2 DEF DebtSound, BorrowType
  <2>3. R[r] \in ReserveType
    BY <2>2 DEF AllSound, Sound
  <2>4. CanAccrue(bs[j], R[r].cumulative_borrow_rate_wads)
    BY <1>2, <1>3, <2>1 DEF CanRefreshObligation
  <2>5. owed[j] = Valued(bs[j], R[r])
    BY <1>2, <1>3, <1>4, <2>1 DEF OwedNow
  <2>6. One =< bs[j].cumulative_borrow_rate_wads /\ R[r].cumulative_borrow_rate_wads \in Nat
    BY <2>2, <2>3 DEF DebtSound, ReserveType
  <2>7. PICK a : a = Accrue(bs[j], R[r].cumulative_borrow_rate_wads)
    OBVIOUS
  <2>8. a \in BorrowType /\ a.borrow_reserve = r
    BY <2>1, <2>2, <2>4, <2>6, <2>7, AccrueFacts
  <2>9. owed[j] = [a EXCEPT !.market_value = MarketValue(R[r], a.borrowed_amount_wads)]
    BY <2>5, <2>7 DEF Valued
  <2> QED BY <2>1, <2>8, <2>9 DEF BorrowType
<1>7. PICK led : led = HeaviestToFront(owed, R)
  OBVIOUS
<1>8. \A r \in Reserves : Live(R[r]) => R[r] \in ReserveType
  BY DEF AllSound, Sound
<1>9. /\ DebtsSound(led, R) /\ Len(led) = Len(bs)
      /\ \A i \in 1..Len(led) : \E j \in 1..Len(bs) : led[i] = owed[j]
  <2>1. LET all == HeaviestToFront(owed, R)
        IN  /\ DebtsSound(all, R) /\ Len(all) = Len(owed)
            /\ \A i \in 1..Len(all) : \E j \in 1..Len(owed) : all[i] = owed[j]
            /\ \A j \in 1..Len(owed) : \E i \in 1..Len(all) : all[i] = owed[j]
            /\ \A i \in 2..Len(all) : Heavier(all[1], all[i], R)
    BY ONLY <1>5, <1>8, HeaviestToFrontSound
  <2> QED BY <1>5, <1>7, <2>1
<1>10. ob \in ObligationType(DOMAIN ob.deposits)
  BY DEF ObligationSound
<1>11. b.borrows = led
  BY <1>1, <1>4, <1>7, <1>10, RefreshFields DEF ObligationType
<1>12. b.borrowing_isolated_asset = \E i \in DOMAIN owed : Isolated(R, owed[i].borrow_reserve)
  BY <1>1, <1>4, <1>10, RefreshFields DEF ObligationType, Isolated
<1>13. Fewer(bs, led)
  <2>1. \A i \in 1..Len(led) : \E j \in 1..Len(bs) : led[i].borrow_reserve = bs[j].borrow_reserve
    BY <1>6, <1>9
  <2> QED BY <1>3, <1>9, <2>1 DEF Fewer
<1>14. OwesIsolated(led, R) => b.borrowing_isolated_asset
  BY <1>5, <1>9, <1>12 DEF OwesIsolated
<1> QED BY <1>1, <1>2, <1>11, <1>13, <1>14

\* Marked stale, an obligation owes what it owed.
LEMMA MarkedStale ==
    ASSUME NEW D, NEW b \in ObligationType(D)
    PROVE  LET Y == MarkStale(b)
           IN  Y.borrows = b.borrows /\ Y.last_update.stale /\ Live(Y)
BY DEF MarkStale, ObligationType, UpdateType, Live

\* Owing as much as before is owing no more.
LEMMA FewerSame ==
    ASSUME NEW bs \in Seq(BorrowType)
    PROVE  Fewer(bs, bs)
BY DEF Fewer

\* Paying a debt off adds none.
LEMMA PayOffFewer ==
    ASSUME NEW D, NEW ob \in ObligationType(D), NEW i \in 1..Len(ob.borrows), NEW n,
           NEW Y, Y = MarkStale(PayOff(ob, i, n))
    PROVE  Fewer(ob.borrows, Y.borrows) /\ Y.last_update.stale /\ Live(Y)
<1>1. PICK bs : bs = ob.borrows
  OBVIOUS
<1>2. bs \in Seq(BorrowType) /\ i \in 1..Len(bs) /\ Len(bs) \in Nat
  BY <1>1 DEF ObligationType
<1>3. ASSUME NEW cs, PayOff(ob, i, n) = [ob EXCEPT !.borrows = cs], Fewer(bs, cs)
      PROVE  Fewer(bs, Y.borrows) /\ Y.last_update.stale /\ Live(Y)
  <2>1. Y.borrows = cs /\ Y.last_update.stale /\ Y.version = 1
    BY <1>3 DEF MarkStale, ObligationType, UpdateType
  <2> QED BY <1>3, <2>1 DEF Live
<1>4. CASE n = bs[i].borrowed_amount_wads
  <2>1. PICK cs : cs = RemoveAt(bs, i)
    OBVIOUS
  <2>2. /\ Len(cs) = Len(bs) - 1
        /\ \A j \in 1..(Len(bs) - 1) : /\ cs[j] = bs[IF j < i THEN j ELSE j + 1]
                                       /\ (IF j < i THEN j ELSE j + 1) \in 1..Len(bs)
    BY <1>2, <2>1, RemoveEntries
  <2>3. \A j \in 1..Len(cs) : \E k \in 1..Len(bs) : cs[j].borrow_reserve = bs[k].borrow_reserve
    BY <2>2
  <2>4. Len(cs) \in Nat /\ Len(cs) =< Len(bs)
    BY <1>2, <2>2
  <2>5. PayOff(ob, i, n) = [ob EXCEPT !.borrows = cs]
    BY <1>1, <1>4, <2>1 DEF PayOff
  <2>6. Fewer(bs, cs)
    BY <2>3, <2>4 DEF Fewer
  <2> QED BY <1>1, <1>3, <2>5, <2>6
<1>5. CASE n # bs[i].borrowed_amount_wads
  <2>1. PICK m : m = [bs[i] EXCEPT !.borrowed_amount_wads = @ - n]
    OBVIOUS
  <2>2. PICK cs : cs = [bs EXCEPT ![i] = m]
    OBVIOUS
  <2>3. m.borrow_reserve = bs[i].borrow_reserve
    BY <1>2, <2>1 DEF BorrowType
  <2>4. Len(cs) = Len(bs) /\ \A j \in 1..Len(bs) : cs[j].borrow_reserve = bs[j].borrow_reserve
    BY <1>2, <2>2, <2>3
  <2>5. PayOff(ob, i, n) = [ob EXCEPT !.borrows = cs]
    BY <1>1, <1>5, <2>1, <2>2 DEF PayOff
  <2>6. Fewer(bs, cs)
    BY <1>2, <2>4 DEF Fewer
  <2> QED BY <1>1, <1>3, <2>5, <2>6
<1> QED BY <1>4, <1>5

\* What a step may make of an obligation.
Moved(o) ==
    \/ obligation'[o] = obligation[o] /\ slot' >= slot
    \/ obligation'[o].borrows = <<>> /\ obligation'[o].last_update.stale
    \/ /\ Live(obligation[o]) /\ obligation'[o].last_update.stale
       /\ Fewer(obligation[o].borrows, obligation'[o].borrows)
    \/ \E r \in Reserves, asked \in Nat, hosted \in BOOLEAN : Borrow(o, r, asked, hosted)
    \/ RefreshAnObligation(o)

\* The others stay as they are.
LEMMA OneMoved ==
    ASSUME Accounts, slot' = slot, NEW o \in Obligations, NEW Y,
           obligation' = [obligation EXCEPT ![o] = Y], obligation'[o] = Y => Moved(o)
    PROVE  \A p \in Obligations : Moved(p)
<1>1. obligation'[o] = Y /\ \A p \in Obligations \ {o} : obligation'[p] = obligation[p]
  BY DEF Accounts
<1>2. slot' >= slot
  BY LiveSound
<1> QED BY <1>1, <1>2 DEF Moved

\* Nothing was asked of any.
LEMMA NoneMoved ==
    ASSUME Accounts, obligation' = obligation, slot' >= slot
    PROVE  \A p \in Obligations : Moved(p)
BY DEF Moved

\* An obligation that is left owing no more, and stale.
LEMMA StaleMoved ==
    ASSUME Accounts, slot' = slot, NEW o \in Obligations, NEW Y, Live(obligation[o]),
           obligation' = [obligation EXCEPT ![o] = Y],
           Fewer(obligation[o].borrows, Y.borrows), Y.last_update.stale
    PROVE  \A p \in Obligations : Moved(p)
<1>1. obligation'[o] = Y => Moved(o)
  BY DEF Moved
<1> QED BY <1>1, OneMoved

\* Pledges leave the debts alone.
LEMMA PledgeMoved ==
    ASSUME Accounts, slot' = slot, NEW o \in Obligations, Live(obligation[o]), NEW r, NEW n,
           obligation' = [obligation EXCEPT ![o] = MarkStale(Pledge(@, r, n))]
    PROVE  \A p \in Obligations : Moved(p)
<1>1. PICK ob : ob = obligation[o]
  OBVIOUS
<1>2. PICK D : D = DOMAIN ob.deposits
  OBVIOUS
<1>3. PICK ds : Pledge(ob, r, n) = [ob EXCEPT !.deposits = ds]
  BY DEF Pledge
<1>4. PICK Y : Y = MarkStale([ob EXCEPT !.deposits = ds])
  OBVIOUS
<1>5. ob \in ObligationType(D)
  BY <1>1, <1>2, LiveSound DEF ObligationSound
<1>6. Y.borrows = ob.borrows /\ Y.last_update.stale /\ ob.borrows \in Seq(BorrowType)
  BY <1>4, <1>5 DEF MarkStale, ObligationType, UpdateType
<1>7. Fewer(ob.borrows, Y.borrows)
  BY <1>6, FewerSame
<1>8. obligation' = [obligation EXCEPT ![o] = Y]
  BY <1>1, <1>3, <1>4
<1> QED BY <1>1, <1>6, <1>7, <1>8, StaleMoved

\* And so do releases.
LEMMA ReleaseMoved ==
    ASSUME Accounts, slot' = slot, NEW o \in Obligations, NEW r \in Reserves, NEW asked \in Nat,
           NEW limited \in BOOLEAN, CanWithdraw(o, r), NEW n,
           n = Withdrawable(obligation[o], r, asked, limited),
           obligation' = [obligation EXCEPT ![o] = MarkStale(Release(@, r, n))]
    PROVE  \A p \in Obligations : Moved(p)
<1>1. PICK ob : ob = obligation[o]
  OBVIOUS
<1>2. Live(ob) /\ r \in DOMAIN ob.deposits /\ n \in 0..ob.deposits[r].deposited_amount
  BY <1>1, WithdrawFacts
<1>3. ObligationSound(ob, reserve, slot)
  BY <1>1, <1>2, LiveSound
<1>4. PICK b : b = Release(ob, r, n)
  OBVIOUS
<1>5. ObligationSound(b, reserve, slot) /\ b.borrows = ob.borrows
  BY <1>2, <1>3, <1>4, ReleaseSound
<1>6. PICK Y : Y = MarkStale(b)
  OBVIOUS
<1>7. Y.borrows = ob.borrows /\ Y.last_update.stale
  BY <1>5, <1>6, MarkedStale DEF ObligationSound
<1>8. Fewer(ob.borrows, Y.borrows)
  BY <1>3, <1>7, FewerSame DEF ObligationSound, DebtsSound
<1>9. obligation' = [obligation EXCEPT ![o] = Y]
  BY <1>1, <1>4, <1>6
<1> QED BY <1>1, <1>2, <1>7, <1>8, <1>9, StaleMoved

\* A repayment owes the same or one debt fewer.
LEMMA RepayMoved ==
    ASSUME Accounts, NEW u, NEW o \in Obligations, NEW r \in Reserves, NEW asked \in Nat,
           Repay(u, o, r, asked)
    PROVE  \A p \in Obligations : Moved(p)
<1>1. PICK ob : ob = obligation[o]
  OBVIOUS
<1>2. PICK i : i = BorrowIndex(ob, r)
  OBVIOUS
<1>3. PICK res : res = RefreshInterest(reserve[r], slot)
  OBVIOUS
<1>4. PICK debt : debt = Accrue(ob.borrows[i], res.cumulative_borrow_rate_wads)
  OBVIOUS
<1>5. PICK settle : settle = IF asked = U64_MAX THEN debt.borrowed_amount_wads
                             ELSE Smaller(FromInt(asked), debt.borrowed_amount_wads)
  OBVIOUS
<1>6. PICK new : new = [ob EXCEPT !.borrows[i] = debt]
  OBVIOUS
<1>7. PICK Y : Y = MarkStale(PayOff(new, i, settle))
  OBVIOUS
<1>8. /\ Live(ob) /\ slot' = slot
      /\ obligation' = [obligation EXCEPT ![o] = Y]
  BY <1>1, <1>2, <1>3, <1>4, <1>5, <1>6, <1>7 DEF Repay
<1>9. /\ i \in 1..Len(ob.borrows) /\ ob.borrows[i].borrow_reserve = r
      /\ debt \in BorrowType /\ debt.borrow_reserve = r
  BY <1>1, <1>2, <1>3, <1>4, <1>5, RepayFacts
<1>10. PICK D : ob \in ObligationType(D)
  BY <1>1, <1>8, LiveSound DEF ObligationSound
<1>11. PICK bs : bs = [ob.borrows EXCEPT ![i] = debt]
  OBVIOUS
<1>12. ob.borrows \in Seq(BorrowType)
  BY <1>10 DEF ObligationType
<1>13. /\ bs \in Seq(BorrowType) /\ Len(bs) = Len(ob.borrows)
       /\ \A j \in 1..Len(bs) : bs[j].borrow_reserve = ob.borrows[j].borrow_reserve
  BY <1>9, <1>11, <1>12
<1>14. new = [ob EXCEPT !.borrows = bs]
  BY <1>6, <1>11
<1>15. new \in ObligationType(D) /\ new.borrows = bs
  BY <1>10, <1>13, <1>14 DEF ObligationType
<1>16. Fewer(bs, Y.borrows) /\ Y.last_update.stale
  BY <1>7, <1>9, <1>13, <1>15, PayOffFewer
<1>17. Fewer(ob.borrows, Y.borrows)
  BY <1>13, <1>16 DEF Fewer
<1> QED BY <1>1, <1>8, <1>16, <1>17, StaleMoved

\* So does what is forgiven.
LEMMA ForgiveMoved ==
    ASSUME Accounts, NEW o \in Obligations, NEW r \in Reserves, NEW asked \in Nat,
           ForgiveDebt(o, r, asked)
    PROVE  \A p \in Obligations : Moved(p)
<1>1. PICK ob : ob = obligation[o]
  OBVIOUS
<1>2. PICK i : i = BorrowIndex(ob, r)
  OBVIOUS
<1>3. PICK amount : amount = Smaller(FromInt(asked),
                                Smaller(ob.borrows[i].borrowed_amount_wads, Forgivable(reserve[r])))
  OBVIOUS
<1>4. PICK Y : Y = MarkStale(PayOff(ob, i, amount))
  OBVIOUS
<1>5. /\ Live(ob) /\ i # 0 /\ slot' = slot
      /\ obligation' = [obligation EXCEPT ![o] = Y]
  BY <1>1, <1>2, <1>3, <1>4 DEF ForgiveDebt, Fresh
<1>6. ObligationSound(ob, reserve, slot)
  BY <1>1, <1>5, LiveSound
<1>7. i \in 1..Len(ob.borrows)
  BY <1>2, <1>5, <1>6, BorrowIndexFacts DEF ObligationSound, DebtsSound
<1>8. Fewer(ob.borrows, Y.borrows) /\ Y.last_update.stale
  BY <1>4, <1>6, <1>7, PayOffFewer DEF ObligationSound
<1> QED BY <1>1, <1>5, <1>8, StaleMoved

\* And what a liquidator repays.
LEMMA LiquidateMoved ==
    ASSUME Accounts, NEW u, NEW o \in Obligations, NEW debt \in Reserves, NEW coll \in Reserves,
           NEW asked \in Nat, Liquidate(u, o, debt, coll, asked)
    PROVE  \A p \in Obligations : Moved(p)
<1>1. PICK ob : ob = obligation[o]
  OBVIOUS
<1>2. PICK i : i = BorrowIndex(ob, debt)
  OBVIOUS
<1>3. PICK part : part = LiquidationOf(ob, i, coll, asked)
  OBVIOUS
<1>4. PICK paid : paid = PayOff(ob, i, part.settle)
  OBVIOUS
<1>5. PICK b : b = Release(paid, coll, part.withdraw)
  OBVIOUS
<1>6. PICK Y : Y = MarkStale(b)
  OBVIOUS
<1>7. /\ CanLiquidate(o, debt, coll) /\ slot' = slot
      /\ obligation' = [obligation EXCEPT ![o] = Y]
  BY <1>1, <1>2, <1>3, <1>4, <1>5, <1>6 DEF Liquidate
<1>8. /\ Live(ob) /\ i \in 1..Len(ob.borrows) /\ coll \in DOMAIN ob.deposits
      /\ part.settle \in 0..ob.borrows[i].borrowed_amount_wads
      /\ part.withdraw \in 0..ob.deposits[coll].deposited_amount
  BY <1>1, <1>2, <1>3, <1>7, LiquidateFacts
<1>9. ObligationSound(ob, reserve, slot)
  BY <1>1, <1>8, LiveSound
<1>10. ObligationSound(paid, reserve, slot) /\ paid.deposits = ob.deposits
  BY <1>4, <1>8, <1>9, PayOffSound
<1>11. ObligationSound(b, reserve, slot) /\ b.borrows = paid.borrows
  BY <1>5, <1>8, <1>10, ReleaseSound
<1>12. Y.borrows = paid.borrows /\ Y.last_update.stale
  BY <1>6, <1>11, MarkedStale DEF ObligationSound
<1>13. MarkStale(paid).borrows = paid.borrows
  BY <1>10, MarkedStale DEF ObligationSound
<1>14. Fewer(ob.borrows, paid.borrows)
  BY <1>4, <1>8, <1>9, <1>13, PayOffFewer DEF ObligationSound
<1> QED BY <1>1, <1>7, <1>8, <1>12, <1>14, StaleMoved

\* A new obligation owes nothing.
LEMMA InitObligationMoved ==
    ASSUME Accounts, NEW o \in Obligations, InitObligation(o)
    PROVE  \A p \in Obligations : Moved(p)
<1>1. PICK Y : Y = NewObligation(slot, OwnerOf[o])
  OBVIOUS
<1>2. obligation' = [obligation EXCEPT ![o] = Y] /\ slot' = slot
  BY <1>1 DEF InitObligation
<1>3. Y.borrows = <<>> /\ Y.last_update.stale
  BY <1>1 DEF NewObligation, NewUpdate
<1>4. obligation'[o] = Y => Moved(o)
  BY <1>3 DEF Moved
<1> QED BY <1>2, <1>4, OneMoved

\* A borrow moves its obligation alone.
LEMMA BorrowMoved ==
    ASSUME Accounts, NEW o \in Obligations, NEW r \in Reserves, NEW asked \in Nat,
           NEW hosted \in BOOLEAN, Borrow(o, r, asked, hosted)
    PROVE  \A p \in Obligations : Moved(p)
<1>1. Moved(o)
  BY DEF Moved
<1>2. PICK Y : obligation' = [obligation EXCEPT ![o] = Y]
  BY DEF Borrow
<1>3. slot' = slot
  BY DEF Borrow
<1> QED BY <1>1, <1>2, <1>3, OneMoved

\* So does a refresh.
LEMMA RefreshMoved ==
    ASSUME Accounts, NEW o \in Obligations, RefreshAnObligation(o)
    PROVE  \A p \in Obligations : Moved(p)
<1>1. Moved(o)
  BY DEF Moved
<1>2. PICK Y : obligation' = [obligation EXCEPT ![o] = Y]
  BY DEF RefreshAnObligation
<1>3. slot' = slot
  BY DEF RefreshAnObligation
<1> QED BY <1>1, <1>2, <1>3, OneMoved

\* Every step moves every obligation in one of these ways.
LEMMA StepMoves ==
    ASSUME Accounts, [Next]_vars
    PROVE  \A p \in Obligations : Moved(p)
<1>1. slot \in Nat
  BY LiveSound
<1>2. ASSUME obligation' = obligation, slot' = slot  PROVE \A p \in Obligations : Moved(p)
  BY <1>1, <1>2, NoneMoved
<1>3. CASE UNCHANGED vars
  BY <1>2, <1>3 DEF vars
<1>4. CASE Tick
  BY <1>1, <1>4, NoneMoved DEF Tick
<1>5. CASE OpenAccounts
  BY <1>2, <1>5, InitObligationMoved DEF OpenAccounts, InitReserve
<1>6. CASE Upkeep
  BY <1>2, <1>6, RefreshMoved DEF Upkeep, RefreshReserve, RedeemProtocolFees
<1>7. CASE Pool
  BY <1>2, <1>7 DEF Pool, Deposit, Redeem
<1>8. CASE Collateral
  <2>1. ASSUME NEW o \in Obligations, NEW r \in Reserves, NEW n \in PledgeAmounts,
               DepositObligation(o, r, n) \/ DepositAndPledge(o, r, n)
        PROVE  \A p \in Obligations : Moved(p)
    <3>1. CASE DepositObligation(o, r, n)
      BY <3>1, PledgeMoved DEF DepositObligation
    <3>2. CASE DepositAndPledge(o, r, n)
      BY <3>2, PledgeMoved DEF DepositAndPledge
    <3> QED BY <2>1, <3>1, <3>2
  <2>2. ASSUME NEW o \in Obligations, NEW r \in Reserves, NEW n \in WithdrawAmounts,
               WithdrawObligation(o, r, n) \/ WithdrawAndRedeem(o, r, n)
        PROVE  \A p \in Obligations : Moved(p)
    <3>1. n \in Nat
      BY AmountsAssumption
    <3>2. CASE WithdrawObligation(o, r, n)
      BY <3>1, <3>2, ReleaseMoved DEF WithdrawObligation
    <3>3. CASE WithdrawAndRedeem(o, r, n)
      BY <3>1, <3>3, ReleaseMoved DEF WithdrawAndRedeem
    <3> QED BY <2>2, <3>2, <3>3
  <2> QED BY <1>8, <2>1, <2>2 DEF Collateral
<1>9. CASE Debt
  BY <1>9, AmountsAssumption, BorrowMoved, RepayMoved, ForgiveMoved DEF Debt
<1>10. CASE Liquidations
  BY <1>10, AmountsAssumption, LiquidateMoved DEF Liquidations
<1>11. CASE Administration
  BY <1>2, <1>11 DEF Administration, UpdateReserveConfig, SetOwnerAndConfig, SetRiskAuthority
<1> QED BY <1>3, <1>4, <1>5, <1>6, <1>7, <1>8, <1>9, <1>10, <1>11 DEF Next

\* What a borrow makes of the list of debts: the debt to r grows, or is new.
LEMMA BorrowOwes ==
    ASSUME Accounts, NEW o \in Obligations, NEW r \in Reserves, NEW asked \in Nat,
           NEW hosted \in BOOLEAN, Borrow(o, r, asked, hosted)
    PROVE  LET bs == obligation[o].borrows
               cs == obligation'[o].borrows
           IN  /\ Live(obligation[o]) /\ obligation'[o].last_update.stale
               /\ \/ Fewer(bs, cs)
                  \/ /\ \A i \in 1..Len(bs) : bs[i].borrow_reserve # r
                     /\ Len(cs) = Len(bs) + 1 /\ cs[Len(bs) + 1].borrow_reserve = r
                     /\ \A i \in 1..Len(bs) : cs[i] = bs[i]
<1>1. PICK ob : ob = obligation[o]
  OBVIOUS
<1>2. PICK amount : amount = LoanOf(ob, reserve[r], asked).amount
  OBVIOUS
<1>3. PICK rate : rate = reserve[r].cumulative_borrow_rate_wads
  OBVIOUS
<1>4. PICK b : b = Owe(ob, r, rate, amount)
  OBVIOUS
<1>5. PICK Y : Y = MarkStale(b)
  OBVIOUS
<1>6. Live(ob) /\ Live(reserve[r]) /\ amount \in Nat \ {0}
  BY <1>1, <1>2, LoanFacts
<1>7. obligation'[o] = Y
  BY <1>1, <1>2, <1>3, <1>4, <1>5 DEF Borrow, Accounts
<1>8. ObligationSound(ob, reserve, slot) /\ Sound(reserve[r], slot)
  BY <1>1, <1>6, LiveSound
<1>9. rate \in Nat /\ One =< rate /\ rate =< reserve[r].cumulative_borrow_rate_wads
  <2>1. rate \in Nat /\ rate >= One
    BY <1>3, <1>8 DEF Sound, ReserveType
  <2> QED BY <1>3, <2>1, WADAssumption DEF One
<1>10. ObligationSound(b, reserve, slot)
  BY <1>3, <1>4, <1>6, <1>8, <1>9, OweSound
<1>11. Y.borrows = b.borrows /\ Y.last_update.stale
  BY <1>5, <1>10, MarkedStale DEF ObligationSound
<1>12. PICK bs : bs = ob.borrows
  OBVIOUS
<1>13. /\ bs \in Seq(BorrowType) /\ Len(bs) \in Nat /\ DOMAIN bs = 1..Len(bs)
       /\ ob \in ObligationType(DOMAIN ob.deposits)
  BY <1>8, <1>12 DEF ObligationSound, DebtsSound
<1>14. CASE BorrowIndex(ob, r) # 0
  <2>1. PICK i \in 1..Len(bs) : i = BorrowIndex(ob, r)
    BY <1>12, <1>13, <1>14, BorrowIndexFacts
  <2>2. PICK m : m = [bs[i] EXCEPT !.borrowed_amount_wads = @ + amount]
    OBVIOUS
  <2>3. b = [ob EXCEPT !.borrows = [bs EXCEPT ![i] = m]]
    BY <1>4, <1>12, <1>14, <2>1, <2>2 DEF Owe
  <2>4. PICK cs : cs = [bs EXCEPT ![i] = m]
    OBVIOUS
  <2>5. b.borrows = cs
    BY <1>13, <2>3, <2>4 DEF ObligationType
  <2>6. m.borrow_reserve = bs[i].borrow_reserve
    BY <1>13, <2>2 DEF BorrowType
  <2>7. Len(cs) = Len(bs) /\ \A j \in 1..Len(bs) : cs[j].borrow_reserve = bs[j].borrow_reserve
    BY <1>13, <2>4, <2>6
  <2>8. Fewer(bs, cs)
    BY <1>13, <2>7 DEF Fewer
  <2> QED BY <1>1, <1>6, <1>7, <1>11, <1>12, <2>5, <2>8
<1>15. CASE BorrowIndex(ob, r) = 0
  <2>1. \A i \in 1..Len(bs) : bs[i].borrow_reserve # r
    BY <1>12, <1>13, <1>15, BorrowIndexFacts
  <2>2. PICK entry : entry = [borrow_reserve |-> r, cumulative_borrow_rate_wads |-> rate,
                              borrowed_amount_wads |-> amount, market_value |-> 0]
    OBVIOUS
  <2>3. PICK cs : cs = Append(bs, entry)
    OBVIOUS
  <2>4. b = [ob EXCEPT !.borrows = cs]
    BY <1>4, <1>12, <1>15, <2>2, <2>3 DEF Owe
  <2>5. b.borrows = cs
    BY <1>13, <2>4 DEF ObligationType
  <2>6. entry \in BorrowType /\ entry.borrow_reserve = r
    BY <1>6, <1>9, <2>2 DEF BorrowType
  <2>7. /\ Len(cs) = Len(bs) + 1 /\ cs[Len(bs) + 1] = entry
        /\ \A i \in 1..Len(bs) : cs[i] = bs[i]
    BY <1>13, <2>3, <2>6
  <2> QED BY <1>1, <1>6, <1>7, <1>11, <1>12, <2>1, <2>5, <2>6, <2>7
<1> QED BY <1>14, <1>15

\* An obligation that does not change was no staler before.
LEMMA FreshBefore ==
    ASSUME Accounts, NEW o \in Obligations, Live(obligation[o]), slot' \in Int, slot' >= slot,
           ~IsStale(obligation[o], slot')
    PROVE  Fresh(obligation[o])
<1>1. PICK s \in Nat, t \in Int, u \in Nat :
          s = slot /\ t = slot' /\ u = obligation[o].last_update.slot /\ u =< s /\ t >= s
  BY LiveSound DEF ObligationSound, ObligationType, UpdateType
<1>2. ~obligation[o].last_update.stale /\ ~(t - u >= 1)
  BY <1>1 DEF IsStale
<1>3. ~(s - u >= 1)
  BY <1>1, <1>2
<1> QED BY <1>1, <1>2, <1>3 DEF Fresh, IsStale

\* The weights, and the tiers, that the reserves had.
KeepsWeights ==
    \A r \in Reserves : Live(reserve[r]) =>
        reserve'[r].config.added_borrow_weight_bps = reserve[r].config.added_borrow_weight_bps
KeepsTiers ==
    \A r \in Reserves : Live(reserve[r]) =>
        reserve'[r].config.reserve_type = reserve[r].config.reserve_type

\* A step with the same weights leaves the heaviest debt first.
LEMMA HeadStep ==
    ASSUME Accounts, Accounts', HeadIsHeaviest, [Next]_vars, KeepsWeights
    PROVE  HeadIsHeaviest'
<1> DEFINE Led(bs, R) == \A i \in 2..Len(bs) : Heavier(bs[1], bs[i], R)
<1>1. SUFFICES ASSUME NEW o \in Obligations, Live(obligation'[o]),
                      ~IsStale(obligation'[o], slot')
               PROVE  Led(obligation'[o].borrows, reserve')
  BY DEF HeadIsHeaviest, LiveObligations, Fresh
<1>2. Moved(o)
  BY StepMoves
<1>3. CASE obligation'[o] = obligation[o] /\ slot' >= slot
  <2>1. slot' \in Int /\ Live(obligation[o])
    BY <1>1, <1>3, AmountsAssumption DEF Accounts
  <2>2. Fresh(obligation[o])
    BY <1>1, <1>3, <2>1, FreshBefore
  <2>3. PICK bs : bs = obligation[o].borrows
    OBVIOUS
  <2>4. Led(bs, reserve)
    BY <2>1, <2>2, <2>3 DEF HeadIsHeaviest, LiveObligations
  <2>5. bs \in Seq(BorrowType) /\ \A i \in 1..Len(bs) : DebtSound(bs[i], reserve)
    BY <2>1, <2>3, LiveSound DEF ObligationSound, DebtsSound
  <2>6. ASSUME NEW i \in 2..Len(bs)  PROVE Heavier(bs[1], bs[i], reserve')
    <3>1. 1 \in 1..Len(bs) /\ i \in 1..Len(bs)
      BY <2>5
    <3>2. /\ bs[1].borrow_reserve \in Reserves /\ Live(reserve[bs[1].borrow_reserve])
          /\ bs[i].borrow_reserve \in Reserves /\ Live(reserve[bs[i].borrow_reserve])
      <4>1. ASSUME NEW j \in 1..Len(bs)
            PROVE  bs[j].borrow_reserve \in Reserves /\ Live(reserve[bs[j].borrow_reserve])
        <5>1. bs[j] \in BorrowType /\ DebtSound(bs[j], reserve)
          BY <2>5
        <5> QED BY <5>1 DEF DebtSound, BorrowType
      <4> QED BY <3>1, <4>1
    <3>3. Heavier(bs[1], bs[i], reserve)
      BY <2>4
    <3> QED BY <3>2, <3>3 DEF Heavier, KeepsWeights
  <2> QED BY <1>3, <2>3, <2>6
<1>4. CASE obligation'[o].last_update.stale
  BY <1>1, <1>4 DEF IsStale
<1>5. CASE RefreshAnObligation(o)
  <2>1. PICK ob : ob = obligation[o]
    OBVIOUS
  <2>2. /\ Live(ob) /\ reserve' = reserve /\ CanRefreshObligation(ob, reserve, slot)
        /\ obligation'[o] = RefreshObligation(ob, reserve, slot)
    BY <1>5, <2>1 DEF RefreshAnObligation, Accounts
  <2>3. ObligationSound(ob, reserve, slot) /\ AllSound(reserve, slot) /\ slot \in Nat
    BY <2>1, <2>2, LiveSound DEF Accounts
  <2>4. LET b == RefreshObligation(ob, reserve, slot)
        IN  /\ ObligationSound(b, reserve, slot) /\ DebtsFresh(b, reserve, slot)
            /\ b.owner = ob.owner
            /\ \A q \in Reserves : PledgeOf(b, q) = PledgeOf(ob, q)
            /\ \A i \in 2..Len(b.borrows) : Heavier(b.borrows[1], b.borrows[i], reserve)
    BY <2>2, <2>3, RefreshObligationSound
  <2> QED BY <2>2, <2>4
<1>6. CASE \E r \in Reserves, asked \in Nat, hosted \in BOOLEAN : Borrow(o, r, asked, hosted)
  BY <1>4, <1>6, BorrowOwes
<1> QED BY <1>2, <1>3, <1>4, <1>5, <1>6 DEF Moved

\* An isolated debt is alone, and the last refresh saw it.
Tiered ==
    \A o \in Obligations : Live(obligation[o]) =>
        LET ob == obligation[o]
        IN  OwesIsolated(ob.borrows, reserve) =>
                /\ Len(ob.borrows) = 1
                /\ Fresh(ob) => ob.borrowing_isolated_asset

\* What was isolated still is, and what was not is not.
LEMMA TiersSame ==
    ASSUME Accounts, KeepsTiers, NEW o \in Obligations, Live(obligation[o]),
           NEW i \in 1..Len(obligation[o].borrows)
    PROVE  LET q == obligation[o].borrows[i].borrow_reserve
           IN  Isolated(reserve', q) <=> Isolated(reserve, q)
<1>1. PICK q : q = obligation[o].borrows[i].borrow_reserve
  OBVIOUS
<1>2. q \in Reserves /\ Live(reserve[q])
  <2>1. /\ obligation[o].borrows[i] \in BorrowType
        /\ DebtSound(obligation[o].borrows[i], reserve)
    BY LiveSound DEF ObligationSound, DebtsSound
  <2> QED BY <1>1, <2>1 DEF BorrowType, DebtSound
<1> QED BY <1>1, <1>2 DEF KeepsTiers, Isolated

\* A step with the same tiers leaves an isolated debt alone.
LEMMA TierStep ==
    ASSUME Accounts, Accounts', Tiered, [Next]_vars, KeepsTiers
    PROVE  Tiered'
<1>1. SUFFICES ASSUME NEW o \in Obligations, Live(obligation'[o]),
                      OwesIsolated(obligation'[o].borrows, reserve')
               PROVE  /\ Len(obligation'[o].borrows) = 1
                      /\ ~IsStale(obligation'[o], slot')
                            => obligation'[o].borrowing_isolated_asset
  BY DEF Tiered, Fresh
<1>2. PICK ob : ob = obligation[o]
  OBVIOUS
<1>3. PICK bs : bs = ob.borrows
  OBVIOUS
<1>4. PICK cs : cs = obligation'[o].borrows
  OBVIOUS
<1>5. PICK k \in 1..Len(cs) : Isolated(reserve', cs[k].borrow_reserve)
  BY <1>1, <1>4 DEF OwesIsolated
<1>6. Live(ob) => /\ bs \in Seq(BorrowType) /\ Len(bs) \in Nat
                  /\ \A i \in 1..Len(bs) : Isolated(reserve', bs[i].borrow_reserve)
                                              <=> Isolated(reserve, bs[i].borrow_reserve)
  BY <1>2, <1>3, TiersSame, LiveSound DEF ObligationSound, DebtsSound
<1>7. ASSUME Live(ob), OwesIsolated(bs, reserve)
      PROVE  Len(bs) = 1 /\ (Fresh(ob) => ob.borrowing_isolated_asset)
  BY <1>2, <1>3, <1>7 DEF Tiered
<1>8. ASSUME Live(ob), Fewer(bs, cs)  PROVE OwesIsolated(bs, reserve) /\ Len(cs) = 1
  <2>1. PICK j \in 1..Len(bs) : cs[k].borrow_reserve = bs[j].borrow_reserve
    BY <1>8 DEF Fewer
  <2>2. OwesIsolated(bs, reserve)
    BY <1>5, <1>6, <1>8, <2>1 DEF OwesIsolated
  <2>3. Len(bs) = 1 /\ Len(cs) \in Nat /\ Len(cs) =< Len(bs)
    BY <1>7, <1>8, <2>2 DEF Fewer
  <2>4. Len(cs) \in Nat \ {0}
    BY <1>5, <2>3
  <2> QED BY <2>2, <2>3, <2>4
<1>9. Moved(o)
  BY StepMoves
<1>10. CASE obligation'[o] = obligation[o] /\ slot' >= slot
  <2>1. Live(ob) /\ cs = bs /\ slot' \in Int
    BY <1>1, <1>2, <1>3, <1>4, <1>10, AmountsAssumption DEF Accounts
  <2>2. OwesIsolated(bs, reserve)
    BY <1>5, <1>6, <2>1 DEF OwesIsolated
  <2>3. ~IsStale(obligation'[o], slot') => Fresh(ob)
    BY <1>2, <1>10, <2>1, FreshBefore
  <2> QED BY <1>2, <1>4, <1>7, <1>10, <2>1, <2>2, <2>3
<1>11. CASE obligation'[o].borrows = <<>> /\ obligation'[o].last_update.stale
  BY <1>4, <1>5, <1>11
<1>12. CASE /\ Live(obligation[o]) /\ obligation'[o].last_update.stale
            /\ Fewer(obligation[o].borrows, obligation'[o].borrows)
  BY <1>2, <1>3, <1>4, <1>8, <1>12 DEF IsStale
<1>13. CASE RefreshAnObligation(o)
  <2>1. /\ Live(ob) /\ reserve' = reserve /\ CanRefreshObligation(ob, reserve, slot)
        /\ obligation'[o] = RefreshObligation(ob, reserve, slot)
    BY <1>2, <1>13 DEF RefreshAnObligation, Accounts
  <2>2. ObligationSound(ob, reserve, slot) /\ AllSound(reserve, slot) /\ slot \in Nat
    BY <1>2, <2>1, LiveSound DEF Accounts
  <2>3. LET b == RefreshObligation(ob, reserve, slot)
        IN  /\ Fewer(ob.borrows, b.borrows)
            /\ OwesIsolated(b.borrows, reserve) => b.borrowing_isolated_asset
    BY <2>1, <2>2, RefreshKeepsTiers
  <2>4. Fewer(bs, cs)
    BY <1>3, <1>4, <2>1, <2>3
  <2>5. obligation'[o].borrowing_isolated_asset
    BY <1>1, <2>1, <2>3
  <2> QED BY <1>4, <1>8, <2>1, <2>4, <2>5
<1>14. CASE \E r \in Reserves, asked \in Nat, hosted \in BOOLEAN : Borrow(o, r, asked, hosted)
  <2>1. PICK r \in Reserves, asked \in Nat, hosted \in BOOLEAN : Borrow(o, r, asked, hosted)
    BY <1>14
  <2>2. /\ Live(ob) /\ obligation'[o].last_update.stale
        /\ \/ Fewer(bs, cs)
           \/ /\ \A i \in 1..Len(bs) : bs[i].borrow_reserve # r
              /\ Len(cs) = Len(bs) + 1 /\ cs[Len(bs) + 1].borrow_reserve = r
              /\ \A i \in 1..Len(bs) : cs[i] = bs[i]
    BY <1>2, <1>3, <1>4, <2>1, BorrowOwes
  <2>3. IsStale(obligation'[o], slot')
    BY <2>2 DEF IsStale
  <2>4. CASE Fewer(bs, cs)
    BY <1>4, <1>8, <2>2, <2>3, <2>4
  <2>5. CASE /\ \A i \in 1..Len(bs) : bs[i].borrow_reserve # r
             /\ Len(cs) = Len(bs) + 1 /\ cs[Len(bs) + 1].borrow_reserve = r
             /\ \A i \in 1..Len(bs) : cs[i] = bs[i]
    <3>1. Fresh(ob) /\ TierAllows(ob, r) /\ Live(reserve[r])
      BY <1>2, <2>1 DEF Borrow, Fresh
    <3>2. Isolated(reserve', r) <=> Isolated(reserve, r)
      BY <3>1 DEF KeepsTiers, Isolated
    <3>3. ~OwesIsolated(bs, reserve)
      <4>1. SUFFICES ASSUME OwesIsolated(bs, reserve)  PROVE FALSE
        OBVIOUS
      <4>2. Len(bs) = 1 /\ ob.borrowing_isolated_asset
        BY <1>7, <2>2, <3>1, <4>1
      <4>3. bs # <<>> /\ bs[1].borrow_reserve # r
        BY <2>5, <4>2
      <4> QED BY <1>3, <3>1, <4>2, <4>3 DEF TierAllows
    <3>4. k = Len(bs) + 1 /\ Isolated(reserve, r)
      <4>1. k \notin 1..Len(bs)
        BY <1>5, <1>6, <2>2, <2>5, <3>3 DEF OwesIsolated
      <4>2. k = Len(bs) + 1
        BY <1>6, <2>2, <2>5, <4>1
      <4> QED BY <1>5, <2>5, <3>2, <4>2
    <3>5. bs = <<>>
      <4>1. \/ bs = <<>>
            \/ Len(bs) = 1 /\ bs[1].borrow_reserve = r
        BY <1>3, <3>1, <3>4 DEF TierAllows, Isolated
      <4> QED BY <2>5, <4>1
    <3>6. Len(cs) = 1
      BY <2>5, <3>5
    <3> QED BY <1>4, <2>3, <3>6
  <2> QED BY <2>2, <2>4, <2>5
<1> QED BY <1>9, <1>10, <1>11, <1>12, <1>13, <1>14 DEF Moved

\* While no reconfiguration changes the weight of a reserve, the debt a
\* liquidator must take is the heaviest one of every fresh obligation, in
\* whatever order debts were made and repaid.
THEOREM HeaviestHeads == Spec /\ [][KeepsWeights]_vars => []HeadIsHeaviest
<1>1. Init => HeadIsHeaviest
  BY DEF Init, HeadIsHeaviest, LiveObligations, Live, Blank
<1>2. Accounts /\ Accounts' /\ HeadIsHeaviest /\ [Next]_vars /\ [KeepsWeights]_vars
         => HeadIsHeaviest'
  <2>1. SUFFICES ASSUME Accounts, Accounts', HeadIsHeaviest, [Next]_vars, [KeepsWeights]_vars
                 PROVE  HeadIsHeaviest'
    OBVIOUS
  <2>2. KeepsWeights
    BY <2>1 DEF KeepsWeights, vars
  <2> QED BY <2>1, <2>2, HeadStep
<1> QED BY <1>1, <1>2, AccountsInvariant, PTL DEF Spec

\* While no reconfiguration changes the tier of a reserve, an isolated debt is
\* an obligation's only debt, although the flag that a borrow looks at is the
\* one of the last refresh.
THEOREM IsolatedAlone == Spec /\ [][KeepsTiers]_vars => []IsolatedDebtIsAlone
<1>1. Init => Tiered
  BY DEF Init, Tiered, Live, Blank
<1>2. Accounts /\ Accounts' /\ Tiered /\ [Next]_vars /\ [KeepsTiers]_vars => Tiered'
  <2>1. SUFFICES ASSUME Accounts, Accounts', Tiered, [Next]_vars, [KeepsTiers]_vars
                 PROVE  Tiered'
    OBVIOUS
  <2>2. KeepsTiers
    BY <2>1 DEF KeepsTiers, vars
  <2> QED BY <2>1, <2>2, TierStep
<1>3. Accounts /\ Tiered => IsolatedDebtIsAlone
  <2>1. SUFFICES ASSUME Accounts, Tiered, NEW o \in Obligations, Live(obligation[o]),
                        NEW i \in DOMAIN obligation[o].borrows,
                        Isolated(reserve, obligation[o].borrows[i].borrow_reserve)
                 PROVE  Len(obligation[o].borrows) = 1
    BY DEF IsolatedDebtIsAlone, LiveObligations, Isolated
  <2>2. DOMAIN obligation[o].borrows = 1..Len(obligation[o].borrows)
    BY <2>1, LiveSound DEF ObligationSound, DebtsSound
  <2> QED BY <2>1, <2>2 DEF Tiered, OwesIsolated
<1> QED BY <1>1, <1>2, <1>3, AccountsInvariant, PTL DEF Spec
=============================================================================
