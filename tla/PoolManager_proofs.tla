------------------------- MODULE PoolManager_proofs -------------------------
(***************************************************************************)
(* For all stakers, vault sets, rewarders, amounts, rates and lengths of   *)
(* the queue: every property of PoolManager that a run checks.  The        *)
(* inductive invariant comes in layers, each using the ones before: types  *)
(* and claims (IInv), balances and the supply (TypeInv), receipts          *)
(* (PendingInv), the queue (QueueInv), what was held at a drop (HeldInv)   *)
(* and what a reward has left (FundInv).                                   *)
(***************************************************************************)
EXTENDS PoolManager, SumLemmas

Balances == [vault : Int, staked : Int, pending : Int, pool_token : Int]
StakerRecord == [live : {TRUE}, staker_vault : Sets \cup {NoSet},
                 staker_vault_locked : Sets \cup {NoSet},
                 rewards_cursor : Nat, last_stake_ts : Int]
ReceiptRecord == [live : {TRUE}, burned : BOOLEAN, staker : Stakers, locked : BOOLEAN,
                  amount : Int, end_ts : Int]
RewarderRecord == [live : {TRUE}, expired : BOOLEAN, total : Nat, kind : Kinds,
                   pool_token_supply : Int, reward_event_q_cursor : Nat,
                   start_ts : Int, expiry_ts : Int]

StakerAccounts == [Stakers -> StakerRecord \cup {NoAccount}]
ReceiptAccounts == [Receipts -> ReceiptRecord \cup {NoAccount}]
RewarderAccounts == [Rewarders -> RewarderRecord \cup {NoAccount}]

\* The accounts' types, without their bounds.
Typed ==
    /\ now \in Int /\ withdrawal_timelock \in Int /\ supply \in Int
    /\ staker \in StakerAccounts
    /\ vaults \in [Sets -> Balances]
    /\ receipt \in ReceiptAccounts
    /\ queue.head \in Nat
    /\ rewarder \in RewarderAccounts
    /\ fund \in [Rewarders -> Int]
    /\ paid \in [Rewarders -> [Stakers -> Int]]

\* What was paid from a reward lies behind the staker's cursor.
PaidIsBehind ==
    \A r \in Rewarders, s \in Stakers :
        paid[r][s] # 0 =>
            /\ rewarder[r].live /\ staker[s].live
            /\ rewarder[r].reward_event_q_cursor < staker[s].rewards_cursor

\* The inductive invariant.
IInv == Typed /\ StakedBacksPoolTokens /\ PaidIsBehind

-----------------------------------------------------------------------------
\* Accounts that exist have their record's type.
LEMMA CreatedTyped ==
    ASSUME Typed
    PROVE  /\ \A s \in Stakers : staker[s].live => staker[s] \in StakerRecord
           /\ \A p \in Receipts : receipt[p].live => receipt[p] \in ReceiptRecord
           /\ \A r \in Rewarders : rewarder[r].live => rewarder[r] \in RewarderRecord
BY DEF Typed, NoAccount, StakerAccounts, ReceiptAccounts, RewarderAccounts

\* The amounts in a rewarder account, and what stake, start_unstake and
\* end_unstake make of a set's balances, are integers.
LEMMA RewarderFields ==
    ASSUME NEW a \in RewarderRecord
    PROVE  a.total \in Int /\ a.pool_token_supply \in Int /\ a.reward_event_q_cursor \in Nat
BY DEF RewarderRecord

LEMMA BalancesAfter ==
    ASSUME NEW b \in Balances, NEW m \in Int, NEW n \in Int
    PROVE  /\ [b EXCEPT !.vault = @ - m, !.staked = @ + m, !.pool_token = @ + n] \in Balances
           /\ [b EXCEPT !.staked = @ - m, !.pending = @ + m, !.pool_token = @ - n] \in Balances
           /\ [b EXCEPT !.pending = @ - m, !.vault = @ + m] \in Balances
<1>1. /\ b.vault - m \in Int /\ b.vault + m \in Int
      /\ b.staked + m \in Int /\ b.staked - m \in Int
      /\ b.pending + m \in Int /\ b.pending - m \in Int
      /\ b.pool_token + n \in Int /\ b.pool_token - n \in Int
  BY DEF Balances
<1> QED BY <1>1 DEF Balances

\* Both factors of a product are counted: the stake rate distributes.
LEMMA RateDistributes ==
    ASSUME NEW m \in Int, NEW n \in Int
    PROVE  /\ StakeRate * (m + n) = StakeRate * m + n * StakeRate
           /\ StakeRate * (m - n) = StakeRate * m - n * StakeRate
           /\ n * StakeRate \in Int
BY StakeRateAssumption, SMTT(30)

\* A pool starts typed, without a balance and with nothing paid.
LEMMA InitIInv == Init => IInv
<1> SUFFICES ASSUME Init PROVE IInv
  OBVIOUS
<1>1. Typed
  BY TimesAssumption DEF Init, Typed, Balances, EmptySet, NoAccount,
    StakerAccounts, ReceiptAccounts, RewarderAccounts
<1>2. StakedBacksPoolTokens
  BY StakeRateAssumption DEF Init, StakedBacksPoolTokens, EmptySet
<1>3. PaidIsBehind
  BY DEF Init, PaidIsBehind
<1> QED BY <1>1, <1>2, <1>3 DEF IInv

\* Writing one account of its type leaves all accounts of their types.
LEMMA WritesTyped ==
    ASSUME Typed
    PROVE  /\ \A s \in Stakers, a \in StakerRecord : [staker EXCEPT ![s] = a] \in StakerAccounts
           /\ \A p \in Receipts, a \in ReceiptRecord : [receipt EXCEPT ![p] = a] \in ReceiptAccounts
           /\ \A r \in Rewarders, a \in RewarderRecord :
                 [rewarder EXCEPT ![r] = a] \in RewarderAccounts
           /\ \A v \in Sets, b \in Balances : [vaults EXCEPT ![v] = b] \in [Sets -> Balances]
BY DEF Typed, StakerAccounts, ReceiptAccounts, RewarderAccounts

-----------------------------------------------------------------------------
\* The actions on one staker's account that leave balances and rewards alone.
LEMMA StakerSteps ==
    ASSUME IInv, NEW s \in Stakers,
           CreateStaker(s) \/ \E v \in Sets : UpdateStakerVault(s, v) \/ UpdateStakerVaultLocked(s, v)
    PROVE  IInv'
<1> USE DEF IInv
<1>1. CASE CreateStaker(s)
  <2>1. Typed'
    <3>1. [live |-> TRUE, staker_vault |-> NoSet, staker_vault_locked |-> NoSet,
           rewards_cursor |-> 0, last_stake_ts |-> 0] \in StakerRecord
      BY DEF StakerRecord
    <3>2. staker' \in StakerAccounts
      BY <1>1, <3>1, WritesTyped DEF CreateStaker
    <3> QED BY <1>1, <3>2 DEF CreateStaker, Typed
  <2>2. PaidIsBehind'
    BY <1>1 DEF CreateStaker, Typed, PaidIsBehind, StakerAccounts
  <2> QED BY <1>1, <2>1, <2>2 DEF CreateStaker, StakedBacksPoolTokens
<1>2. ASSUME NEW v \in Sets, UpdateStakerVault(s, v) PROVE IInv'
  <2>1. Typed'
    <3>1. [staker[s] EXCEPT !.staker_vault = v] \in StakerRecord
      <4>1. staker[s] \in StakerRecord
        BY <1>2, CreatedTyped DEF UpdateStakerVault
      <4> QED BY <1>2, <4>1 DEF StakerRecord
    <3>2. staker' = [staker EXCEPT ![s] = [staker[s] EXCEPT !.staker_vault = v]]
      BY <1>2 DEF UpdateStakerVault
    <3>3. staker' \in StakerAccounts
      BY <3>1, <3>2, WritesTyped
    <3> QED BY <1>2, <3>3 DEF UpdateStakerVault, Typed
  <2>2. PaidIsBehind'
    BY <1>2, CreatedTyped DEF UpdateStakerVault, Typed, PaidIsBehind, StakerRecord, StakerAccounts
  <2> QED BY <1>2, <2>1, <2>2 DEF UpdateStakerVault, StakedBacksPoolTokens
<1>3. ASSUME NEW v \in Sets, UpdateStakerVaultLocked(s, v) PROVE IInv'
  <2>1. Typed'
    <3>1. [staker[s] EXCEPT !.staker_vault_locked = v] \in StakerRecord
      <4>1. staker[s] \in StakerRecord
        BY <1>3, CreatedTyped DEF UpdateStakerVaultLocked
      <4> QED BY <1>3, <4>1 DEF StakerRecord
    <3>2. staker' = [staker EXCEPT ![s] = [staker[s] EXCEPT !.staker_vault_locked = v]]
      BY <1>3 DEF UpdateStakerVaultLocked
    <3>3. staker' \in StakerAccounts
      BY <3>1, <3>2, WritesTyped
    <3> QED BY <1>3, <3>3 DEF UpdateStakerVaultLocked, Typed
  <2>2. PaidIsBehind'
    BY <1>3, CreatedTyped DEF UpdateStakerVaultLocked, Typed, PaidIsBehind, StakerRecord, StakerAccounts
  <2> QED BY <1>3, <2>1, <2>2 DEF UpdateStakerVaultLocked, StakedBacksPoolTokens
<1> QED BY <1>1, <1>2, <1>3

\* Deposits and withdrawals move free balances only.
LEMMA TransferSteps ==
    ASSUME IInv, NEW s \in Stakers, NEW n \in DepositAmounts,
           \/ Deposit(s, n) \/ Withdraw(s, n)
           \/ DepositFromLocker(s, n) \/ WithdrawToLocker(s, n)
    PROVE  IInv'
<1> DEFINE v == staker[s].staker_vault
           l == staker[s].staker_vault_locked
<1>1. n \in Int
  BY AmountsAssumption
<1>2. /\ UNCHANGED <<now, withdrawal_timelock, staker, supply, receipt, queue, rewarder, fund, paid>>
      /\ \E w \in Sets, x \in Int : vaults' = [vaults EXCEPT ![w].vault = x]
  <2>1. \A w \in Sets : vaults[w].vault + n \in Int /\ vaults[w].vault - n \in Int
    BY <1>1 DEF IInv, Typed, Balances
  <2>2. CASE Deposit(s, n)
    BY <2>1, <2>2 DEF Deposit, HasVault
  <2>3. CASE Withdraw(s, n)
    BY <2>1, <2>3 DEF Withdraw, HasVault
  <2>4. CASE DepositFromLocker(s, n)
    BY <2>1, <2>4 DEF DepositFromLocker, HasLockedVault
  <2>5. CASE WithdrawToLocker(s, n)
    BY <2>1, <2>5 DEF WithdrawToLocker, HasLockedVault
  <2> QED BY <2>2, <2>3, <2>4, <2>5
<1> HIDE DEF v, l
<1>3. PICK w \in Sets, x \in Int : vaults' = [vaults EXCEPT ![w].vault = x]
  BY <1>2
<1>4. vaults' \in [Sets -> Balances]
  BY <1>3 DEF IInv, Typed, Balances
<1>5. StakedBacksPoolTokens'
  BY <1>3 DEF IInv, Typed, Balances, StakedBacksPoolTokens
<1> QED BY <1>2, <1>4, <1>5 DEF IInv, Typed, PaidIsBehind

\* stake moves n times the rate and mints n.
LEMMA StakeStep ==
    ASSUME IInv, NEW s \in Stakers, NEW n \in StakeAmounts, Stake(s, n)
    PROVE  IInv'
<1> DEFINE v == staker[s].staker_vault
<1>1. v \in Sets /\ n \in Int /\ n * StakeRate \in Int /\ staker[s] \in StakerRecord
  BY AmountsAssumption, RateDistributes, CreatedTyped DEF Stake, HasVault, IInv
<1>2. vaults' = [vaults EXCEPT ![v].vault = @ - n * StakeRate,
                               ![v].staked = @ + n * StakeRate,
                               ![v].pool_token = @ + n]
  BY DEF Stake
<1>3. staker' = [staker EXCEPT ![s].last_stake_ts = now]
  BY DEF Stake, StakeTime
<1>4. supply' = supply + n /\ UNCHANGED <<now, withdrawal_timelock, receipt, queue, rewarder, fund, paid>>
  BY DEF Stake
<1> DEFINE moved == n * StakeRate
<1>5. moved \in Int
  BY <1>1
<1>6. vaults' = [vaults EXCEPT ![v].vault = @ - moved, ![v].staked = @ + moved,
                               ![v].pool_token = @ + n]
  BY <1>2
<1>7. StakeRate * (vaults[v].pool_token + n) = StakeRate * vaults[v].pool_token + moved
  BY <1>1, RateDistributes DEF IInv, Typed, Balances
<1> HIDE DEF v, moved
<1>8. Typed'
  <2>1. [staker[s] EXCEPT !.last_stake_ts = now] \in StakerRecord
    BY <1>1 DEF IInv, Typed, StakerRecord, StakerAccounts
  <2>2. staker' \in StakerAccounts
    BY <1>3, <2>1, WritesTyped DEF IInv
  <2>3. vaults' \in [Sets -> Balances]
    <3> DEFINE b == [vaults[v] EXCEPT !.vault = @ - moved, !.staked = @ + moved, !.pool_token = @ + n]
    <3>1. vaults[v] \in Balances
      BY <1>1 DEF IInv, Typed
    <3>2. b \in Balances
      BY <1>1, <1>5, <3>1, BalancesAfter
    <3>3. vaults' = [vaults EXCEPT ![v] = b]
      BY <1>6, <1>1 DEF IInv, Typed
    <3> QED BY <1>1, <3>2, <3>3, WritesTyped DEF IInv
  <2> QED BY <1>1, <1>4, <2>2, <2>3 DEF IInv, Typed
<1>9. StakedBacksPoolTokens'
  <2>1. ASSUME NEW w \in Sets PROVE vaults'[w].staked = StakeRate * vaults'[w].pool_token
    <3>1. CASE w = v
      BY <1>1, <1>5, <1>6, <1>7, <3>1 DEF IInv, Typed, Balances, StakedBacksPoolTokens
    <3>2. CASE w # v
      BY <1>6, <3>2 DEF IInv, Typed, StakedBacksPoolTokens
    <3> QED BY <3>1, <3>2
  <2> QED BY <2>1 DEF StakedBacksPoolTokens
<1>10. PaidIsBehind'
  BY <1>1, <1>3, <1>4 DEF IInv, Typed, PaidIsBehind, StakerRecord, StakerAccounts
<1> QED BY <1>8, <1>9, <1>10 DEF IInv

\* start_unstake burns n and moves n times the rate to the pending tokens.
LEMMA StartUnstakeStep ==
    ASSUME IInv, NEW s \in Stakers, NEW p \in Receipts, NEW n \in StakeAmounts,
           NEW locked \in BOOLEAN, StartUnstake(s, p, n, locked)
    PROVE  IInv'
<1> DEFINE v == staker[s].staker_vault
           moved == n * StakeRate
<1>1. v \in Sets /\ n \in Int /\ moved \in Int
  BY AmountsAssumption, RateDistributes DEF StartUnstake, HasVault
<1>2. vaults' = [vaults EXCEPT ![v].staked = @ - moved, ![v].pending = @ + moved,
                               ![v].pool_token = @ - n]
  BY DEF StartUnstake, UnstakedTokens
<1>3. /\ receipt' = [receipt EXCEPT ![p] =
              [live |-> TRUE, burned |-> FALSE, staker |-> s, locked |-> locked,
               amount |-> moved, end_ts |-> now + withdrawal_timelock]]
      /\ supply' = supply - n
      /\ UNCHANGED <<now, withdrawal_timelock, staker, queue, rewarder, fund, paid>>
  BY DEF StartUnstake, UnstakedTokens, SupplyAfterBurn
<1>4. StakeRate * (vaults[v].pool_token - n) = StakeRate * vaults[v].pool_token - moved
  BY <1>1, RateDistributes DEF IInv, Typed, Balances
<1> HIDE DEF v, moved
<1>5. Typed'
  <2>1. [live |-> TRUE, burned |-> FALSE, staker |-> s, locked |-> locked,
         amount |-> moved, end_ts |-> now + withdrawal_timelock] \in ReceiptRecord
    BY <1>1 DEF IInv, Typed, ReceiptRecord
  <2>2. receipt' \in ReceiptAccounts
    BY <1>3, <2>1, WritesTyped DEF IInv
  <2>3. vaults' \in [Sets -> Balances]
    <3> DEFINE b == [vaults[v] EXCEPT !.staked = @ - moved, !.pending = @ + moved, !.pool_token = @ - n]
    <3>1. vaults[v] \in Balances
      BY <1>1 DEF IInv, Typed
    <3>2. b \in Balances
      BY <1>1, <3>1, BalancesAfter
    <3>3. vaults' = [vaults EXCEPT ![v] = b]
      BY <1>2, <1>1 DEF IInv, Typed
    <3> QED BY <1>1, <3>2, <3>3, WritesTyped DEF IInv
  <2> QED BY <1>1, <1>3, <2>2, <2>3 DEF IInv, Typed
<1>6. StakedBacksPoolTokens'
  <2>1. ASSUME NEW w \in Sets PROVE vaults'[w].staked = StakeRate * vaults'[w].pool_token
    <3>1. CASE w = v
      BY <1>1, <1>2, <1>4, <3>1 DEF IInv, Typed, Balances, StakedBacksPoolTokens
    <3>2. CASE w # v
      BY <1>2, <3>2 DEF IInv, Typed, StakedBacksPoolTokens
    <3> QED BY <3>1, <3>2
  <2> QED BY <2>1 DEF StakedBacksPoolTokens
<1>7. PaidIsBehind'
  BY <1>3 DEF IInv, PaidIsBehind
<1> QED BY <1>5, <1>6, <1>7 DEF IInv

\* end_unstake moves pending tokens back to the free ones.
LEMMA EndUnstakeStep ==
    ASSUME IInv, NEW p \in Receipts, EndUnstake(p)
    PROVE  IInv'
<1> DEFINE v == ReceiptSet(p)
<1>1. v \in Sets /\ receipt[p] \in ReceiptRecord
  BY CreatedTyped DEF EndUnstake, IInv
<1>2. vaults' = [vaults EXCEPT ![v].pending = @ - receipt[p].amount,
                               ![v].vault = @ + receipt[p].amount]
  BY DEF EndUnstake
<1>3. /\ receipt' = [receipt EXCEPT ![p].burned = TRUE]
      /\ UNCHANGED <<now, withdrawal_timelock, staker, supply, queue, rewarder, fund, paid>>
  BY DEF EndUnstake, Burned
<1> HIDE DEF v
<1>4. Typed'
  <2>1. [receipt[p] EXCEPT !.burned = TRUE] \in ReceiptRecord /\ receipt[p].amount \in Int
    BY <1>1 DEF ReceiptRecord
  <2>2. receipt' \in ReceiptAccounts
    BY <1>3, <2>1, WritesTyped DEF IInv
  <2>3. vaults' \in [Sets -> Balances]
    <3> DEFINE b == [vaults[v] EXCEPT !.pending = @ - receipt[p].amount, !.vault = @ + receipt[p].amount]
    <3>1. vaults[v] \in Balances
      BY <1>1 DEF IInv, Typed
    <3>2. b \in Balances
      BY <1>1, <2>1, <3>1, BalancesAfter
    <3>3. vaults' = [vaults EXCEPT ![v] = b]
      BY <1>2, <1>1 DEF IInv, Typed
    <3> QED BY <1>1, <3>2, <3>3, WritesTyped DEF IInv
  <2> QED BY <1>3, <2>2, <2>3 DEF IInv, Typed
<1>5. StakedBacksPoolTokens'
  BY <1>1, <1>2 DEF IInv, Typed, Balances, StakedBacksPoolTokens
<1>6. PaidIsBehind'
  BY <1>3 DEF IInv, PaidIsBehind
<1> QED BY <1>4, <1>5, <1>6 DEF IInv

\* drop_reward writes a rewarder account nothing was paid from.
LEMMA DropStep ==
    ASSUME IInv, NEW r \in Rewarders, NEW total \in Totals, NEW lifetime \in Lifetimes,
           NEW kind \in Kinds, DropReward(r, total, lifetime, kind)
    PROVE  IInv'
<1>1. total \in Nat /\ lifetime \in Int
  BY AmountsAssumption, TimesAssumption
<1>2. queue'.head = queue.head + 1
  BY DEF DropReward, Appended
<1>3. Typed'
  <2>1. [live |-> TRUE, expired |-> FALSE, total |-> total, kind |-> kind,
         pool_token_supply |-> supply, reward_event_q_cursor |-> queue.head,
         start_ts |-> now, expiry_ts |-> now + lifetime] \in RewarderRecord
    BY <1>1 DEF IInv, Typed, RewarderRecord
  <2>2. rewarder' \in RewarderAccounts
    BY <2>1, WritesTyped DEF DropReward, IInv
  <2>3. fund' \in [Rewarders -> Int]
    BY <1>1 DEF DropReward, IInv, Typed
  <2> QED BY <1>2, <2>2, <2>3 DEF DropReward, IInv, Typed
<1>4. PaidIsBehind'
  BY DEF DropReward, IInv, Typed, PaidIsBehind, RewarderAccounts
<1> QED BY <1>3, <1>4 DEF DropReward, IInv, StakedBacksPoolTokens

\* expire_reward only marks the rewarder.
LEMMA ExpireStep ==
    ASSUME IInv, NEW r \in Rewarders, ExpireReward(r)
    PROVE  IInv'
<1>1. rewarder[r] \in RewarderRecord
  BY CreatedTyped DEF ExpireReward, IInv
<1>2. Typed'
  <2>1. [rewarder[r] EXCEPT !.expired = TRUE] \in RewarderRecord
    BY <1>1 DEF RewarderRecord
  <2>2. rewarder' \in RewarderAccounts
    BY <2>1, WritesTyped DEF ExpireReward, IInv
  <2>3. fund' \in [Rewarders -> Int]
    BY DEF ExpireReward, IInv, Typed
  <2> QED BY <2>2, <2>3 DEF ExpireReward, IInv, Typed
<1>3. PaidIsBehind'
  BY <1>1 DEF ExpireReward, IInv, Typed, PaidIsBehind, RewarderRecord,
    RewarderAccounts
<1> QED BY <1>2, <1>3 DEF ExpireReward, IInv, StakedBacksPoolTokens

\* What a claim pays is an integer.
LEMMA ClaimAmount ==
    ASSUME IInv, NEW s \in Stakers, NEW r \in Rewarders, Claimable(s, r)
    PROVE  PoolTokenTotal(s) \in Int /\ RewardAmount(r, PoolTokenTotal(s)) \in Int
<1>1. PoolTokenTotal(s) \in Int
  <2>1. \A v \in Sets : vaults[v].pool_token \in Int
    BY DEF IInv, Typed, Balances
  <2>2. staker[s].staker_vault \in Sets /\ staker[s].staker_vault_locked \in Sets
    BY DEF Claimable, HasVault, HasLockedVault
  <2> QED BY <2>1, <2>2 DEF PoolTokenTotal
<1>2. rewarder[r].total \in Int /\ rewarder[r].pool_token_supply \in Int
  BY CreatedTyped, RewarderFields DEF Claimable, IInv
<1>3. rewarder[r].pool_token_supply > 0
  BY DEF Claimable
<1>4. PoolTokenTotal(s) * rewarder[r].total \in Int
  BY <1>1, <1>2
<1> QED BY <1>1, <1>2, <1>3, <1>4 DEF RewardAmount

\* A claim is of a reward at or after the cursor, from which nothing was paid,
\* and moves the cursor past it.
LEMMA ClaimStep ==
    ASSUME IInv, NEW s \in Stakers, NEW r \in Rewarders,
           ClaimReward(s, r) \/ ClaimRewardToLocker(s, r)
    PROVE  /\ IInv'
           /\ Payout!Pay(r, s)
<1> DEFINE amount == RewardAmount(r, PoolTokenTotal(s))
           cursor == rewarder[r].reward_event_q_cursor
<1>1. /\ Claimable(s, r) /\ Claimed(s, r)
      /\ UNCHANGED <<now, withdrawal_timelock, vaults, supply, receipt, queue, rewarder>>
  BY DEF ClaimReward, ClaimRewardToLocker
<1>2. staker[s] \in StakerRecord /\ rewarder[r] \in RewarderRecord
  BY <1>1, CreatedTyped DEF Claimable, HasVault, IInv
<1>3. amount \in Int
  BY <1>1, ClaimAmount
<1>4. staker' = [staker EXCEPT ![s].rewards_cursor = cursor + 1]
  BY <1>1 DEF Claimed, CursorPast
<1>5. paid' = [paid EXCEPT ![r][s] = @ + amount]
  BY <1>1 DEF Claimed
<1>6. staker[s].rewards_cursor =< cursor /\ cursor \in Nat /\ staker[s].rewards_cursor \in Nat
  BY <1>1, <1>2 DEF Claimable, Eligible, StakerRecord, RewarderRecord
<1>7. paid[r][s] = 0 /\ paid[r][s] + amount \in Int
  BY <1>3, <1>6 DEF IInv, PaidIsBehind, Typed
<1>11. /\ amount > 0 /\ fund[r] >= amount /\ fund[r] \in Int
       /\ fund' = [fund EXCEPT ![r] = @ - amount]
       /\ rewarder[r].live /\ ~rewarder[r].expired
  BY <1>1 DEF Claimable, Claimed, Eligible, IInv, Typed
<1> HIDE DEF amount, cursor
<1>8. Typed'
  <2>1. [staker[s] EXCEPT !.rewards_cursor = cursor + 1] \in StakerRecord
    <3>1. cursor + 1 \in Nat
      BY <1>6
    <3> QED BY <1>2, <3>1 DEF StakerRecord
  <2>2. staker' \in StakerAccounts
    BY <1>4, <2>1, WritesTyped DEF IInv
  <2>3. paid' \in [Rewarders -> [Stakers -> Int]]
    BY <1>5, <1>7 DEF IInv, Typed
  <2>4. fund' \in [Rewarders -> Int]
    BY <1>3, <1>11 DEF IInv, Typed
  <2> QED BY <1>1, <2>2, <2>3, <2>4 DEF IInv, Typed
<1>9. PaidIsBehind'
  <2> SUFFICES ASSUME NEW q \in Rewarders, NEW t \in Stakers, paid'[q][t] # 0
               PROVE  /\ rewarder'[q].live /\ staker'[t].live
                      /\ rewarder'[q].reward_event_q_cursor < staker'[t].rewards_cursor
    BY DEF PaidIsBehind
  <2>1. rewarder' = rewarder /\ rewarder[r].live /\ staker[s].live
    BY <1>1 DEF Claimable, HasVault
  <2>2. staker'[t].live = staker[t].live
    BY <1>2, <1>4 DEF IInv, Typed, StakerRecord, StakerAccounts
  <2>3. CASE q = r /\ t = s
    <3>1. staker'[s].rewards_cursor = cursor + 1
      BY <1>2, <1>4 DEF IInv, Typed, StakerRecord, StakerAccounts
    <3> QED BY <1>6, <2>1, <2>2, <2>3, <3>1 DEF cursor
  <2>4. CASE ~(q = r /\ t = s)
    <3>1. paid[q][t] # 0
      BY <1>5, <2>4 DEF IInv, Typed
    <3>2. /\ rewarder[q].live /\ staker[t].live
          /\ rewarder[q].reward_event_q_cursor < staker[t].rewards_cursor
      BY <3>1 DEF IInv, PaidIsBehind
    <3>3. CASE t = s
      <4>1. staker'[s].rewards_cursor = cursor + 1
        BY <1>2, <1>4 DEF IInv, Typed, StakerRecord, StakerAccounts
      <4>2. rewarder[q].reward_event_q_cursor \in Nat
        BY <3>2, CreatedTyped DEF IInv, RewarderRecord
      <4> QED BY <1>6, <2>1, <2>2, <3>2, <3>3, <4>1, <4>2
    <3>4. CASE t # s
      BY <1>4, <2>1, <3>2, <3>4 DEF IInv, Typed, StakerAccounts
    <3> QED BY <3>3, <3>4
  <2> QED BY <2>3, <2>4
<1>10. StakedBacksPoolTokens'
  BY <1>1 DEF IInv, StakedBacksPoolTokens
<1>12. Payout!Pay(r, s)
  <2>1. amount \in 1..fund[r]
    BY <1>3, <1>11
  <2>2. paid' = [paid EXCEPT ![r][s] = amount]
    BY <1>3, <1>5, <1>7 DEF IInv, Typed
  <2> QED BY <1>1, <1>7, <1>11, <2>1, <2>2 DEF Payout!Pay
<1> QED BY <1>8, <1>9, <1>10, <1>12 DEF IInv

-----------------------------------------------------------------------------
\* Dropping and expiring a reward open and close its payout.
LEMMA DropPayout ==
    ASSUME IInv, NEW r \in Rewarders, NEW total \in Totals, NEW lifetime \in Lifetimes,
           NEW kind \in Kinds, DropReward(r, total, lifetime, kind)
    PROVE  Payout!Drop(r, total)
<1> DEFINE state(x) == IF ~x.live THEN "none" ELSE IF x.expired THEN "closed" ELSE "open"
<1>1. rewarder'[r].live /\ ~rewarder'[r].expired /\ \A q \in Rewarders \ {r} : rewarder'[q] = rewarder[q]
  BY DEF DropReward, IInv, Typed, RewarderAccounts
<1>2. [q \in Rewarders |-> state(rewarder'[q])]
        = [[q \in Rewarders |-> state(rewarder[q])] EXCEPT ![r] = "open"]
  BY <1>1
<1> QED BY <1>2 DEF DropReward, Payout!Drop

LEMMA ExpirePayout ==
    ASSUME IInv, NEW r \in Rewarders, ExpireReward(r)
    PROVE  Payout!Close(r)
<1> DEFINE state(x) == IF ~x.live THEN "none" ELSE IF x.expired THEN "closed" ELSE "open"
<1>1. rewarder[r] \in RewarderRecord
  BY CreatedTyped DEF ExpireReward, IInv
<1>2. rewarder'[r].live /\ rewarder'[r].expired /\ \A q \in Rewarders \ {r} : rewarder'[q] = rewarder[q]
  BY <1>1 DEF ExpireReward, IInv, Typed, RewarderAccounts, RewarderRecord
<1>3. [q \in Rewarders |-> state(rewarder'[q])]
        = [[q \in Rewarders |-> state(rewarder[q])] EXCEPT ![r] = "closed"]
  BY <1>2
<1> QED BY <1>3 DEF ExpireReward, Payout!Close

\* Every step keeps the invariant, and is a step of the payouts or none of theirs.
LEMMA NextIInv ==
    ASSUME IInv, [Next]_poolVars
    PROVE  /\ IInv'
           /\ [Payout!Next]_(Payout!vars)
<1> DEFINE Unpaid == UNCHANGED <<rewarder, fund, paid>>
<1>0. ASSUME Unpaid PROVE UNCHANGED Payout!vars
  BY <1>0 DEF Payout!vars
<1>1. CASE UNCHANGED poolVars
  BY <1>1, <1>0 DEF poolVars, IInv, Typed, StakedBacksPoolTokens, PaidIsBehind
<1>2. CASE Tick
  BY <1>2, <1>0 DEF Tick, IInv, Typed, StakedBacksPoolTokens, PaidIsBehind
<1>3. ASSUME NEW t \in Timelocks, UpdatePool(t)
      PROVE  IInv' /\ Unpaid
  BY <1>3, TimesAssumption DEF UpdatePool, IInv, Typed, StakedBacksPoolTokens, PaidIsBehind
<1>4. ASSUME NEW s \in Stakers,
             CreateStaker(s) \/ \E v \in Sets : UpdateStakerVault(s, v) \/ UpdateStakerVaultLocked(s, v)
      PROVE  IInv' /\ Unpaid
  BY <1>4, StakerSteps DEF CreateStaker, UpdateStakerVault, UpdateStakerVaultLocked
<1>5. ASSUME NEW s \in Stakers, NEW n \in DepositAmounts,
             \/ Deposit(s, n) \/ Withdraw(s, n)
             \/ DepositFromLocker(s, n) \/ WithdrawToLocker(s, n)
      PROVE  IInv' /\ Unpaid
  BY <1>5, TransferSteps DEF Deposit, Withdraw, DepositFromLocker, WithdrawToLocker
<1>6. ASSUME NEW s \in Stakers, NEW n \in StakeAmounts, Stake(s, n)
      PROVE  IInv' /\ Unpaid
  BY <1>6, StakeStep DEF Stake
<1>7. ASSUME NEW s \in Stakers, NEW n \in StakeAmounts, NEW p \in Receipts, NEW locked \in BOOLEAN,
             StartUnstake(s, p, n, locked)
      PROVE  IInv' /\ Unpaid
  BY <1>7, StartUnstakeStep DEF StartUnstake
<1>8. ASSUME NEW p \in Receipts, EndUnstake(p)
      PROVE  IInv' /\ Unpaid
  BY <1>8, EndUnstakeStep DEF EndUnstake
<1>9. ASSUME NEW r \in Rewarders, NEW total \in Totals, NEW lifetime \in Lifetimes,
             NEW kind \in Kinds, DropReward(r, total, lifetime, kind)
      PROVE  IInv' /\ Payout!Next
  BY <1>9, DropStep, DropPayout DEF Payout!Next
<1>10. ASSUME NEW r \in Rewarders, ExpireReward(r)
       PROVE  IInv' /\ Payout!Next
  BY <1>10, ExpireStep, ExpirePayout DEF Payout!Next
<1>11. ASSUME NEW s \in Stakers, NEW r \in Rewarders,
              ClaimReward(s, r) \/ ClaimRewardToLocker(s, r)
       PROVE  IInv' /\ Payout!Next
  BY <1>11, ClaimStep DEF Payout!Next
<1> HIDE DEF Unpaid
<1> QED BY <1>0, <1>1, <1>2, <1>3, <1>4, <1>5, <1>6, <1>7, <1>8, <1>9, <1>10, <1>11
        DEF Next

\* Pool tokens are always backed by staked tokens at the stake rate.
THEOREM StakedBacked == PoolSpec => []StakedBacksPoolTokens
<1>1. Init => IInv
  BY InitIInv
<1>2. IInv /\ [Next]_poolVars => IInv'
  BY NextIInv
<1>3. IInv => StakedBacksPoolTokens
  BY DEF IInv
<1> QED BY <1>1, <1>2, <1>3, PTL DEF PoolSpec

\* The pool pays rewards as the abstract payouts do: its initial states are
\* theirs and its steps are theirs or leave them alone. What makes it so is that
\* whatever was paid lies behind the staker's cursor.
THEOREM PaysOut == PoolSpec => RewardsArePayouts
<1>1. Init => Payout!Init
  BY DEF Init, NoAccount, Payout!Init
<1> QED BY <1>1, InitIInv, NextIInv, PTL DEF PoolSpec, RewardsArePayouts, Payout!Spec

-----------------------------------------------------------------------------
\* Balances and bounds.

NatBalances == [vault : Nat, staked : Nat, pending : Nat, pool_token : Nat]
VaultsOK == vaults \in [Sets -> NatBalances]
StakersOK ==
    \A s \in Stakers : staker[s].live =>
        /\ staker[s].staker_vault \in SetsOf[s] \cup {NoSet}
        /\ staker[s].staker_vault_locked \in LockedSetsOf[s] \cup {NoSet}
        /\ staker[s].rewards_cursor \in 0..queue.head
        /\ staker[s].last_stake_ts \in 0..now
ReceiptsOK ==
    \A p \in Receipts : receipt[p].live =>
        receipt[p].staker \in Stakers /\ receipt[p].amount \in Nat
CursorsOK ==
    \A r \in Rewarders : rewarder[r].live => rewarder[r].reward_event_q_cursor \in 0..queue.head - 1
FundsOK == fund \in [Rewarders -> Nat] /\ wallet \in [Stakers -> Nat] /\ locker \in [Stakers -> Nat]

\* The sets a staker points at are its own; a receipt's staker exists.
LEMMA OwnSets ==
    ASSUME StakersOK, NEW s \in Stakers
    PROVE  /\ HasVault(s) => staker[s].staker_vault \in AllSets(s)
           /\ HasLockedVault(s) => staker[s].staker_vault_locked \in AllSets(s)
BY AccountsAssumption DEF StakersOK, HasVault, HasLockedVault, AllSets

LEMMA SetsFinite ==
    /\ IsFiniteSet(Sets)
    /\ \A s \in Stakers : AllSets(s) \subseteq Sets /\ IsFiniteSet(AllSets(s))
BY AccountsAssumption, SetsAssumption, FS_Subset

\* What the instructions make of a set's balances, given what they check.
LEMMA NatBalancesAfter ==
    ASSUME NEW b \in NatBalances, NEW m \in Nat, NEW n \in Nat
    PROVE  /\ [b EXCEPT !.vault = @ + n] \in NatBalances
           /\ b.vault >= n => [b EXCEPT !.vault = @ - n] \in NatBalances
           /\ b.vault >= m =>
                [b EXCEPT !.vault = @ - m, !.staked = @ + m, !.pool_token = @ + n] \in NatBalances
           /\ b.staked >= m /\ b.pool_token >= n =>
                [b EXCEPT !.staked = @ - m, !.pending = @ + m, !.pool_token = @ - n] \in NatBalances
           /\ b.pending >= m => [b EXCEPT !.pending = @ - m, !.vault = @ + m] \in NatBalances
<1>1. /\ b.vault + m \in Nat /\ b.vault + n \in Nat /\ b.staked + m \in Nat /\ b.pending + m \in Nat
      /\ b.pool_token + n \in Nat
      /\ b.vault >= n => b.vault - n \in Nat
      /\ b.vault >= m => b.vault - m \in Nat
      /\ b.staked >= m => b.staked - m \in Nat
      /\ b.pool_token >= n => b.pool_token - n \in Nat
      /\ b.pending >= m => b.pending - m \in Nat
  BY DEF NatBalances
<1> QED BY <1>1 DEF NatBalances

\* Writing one set's balances changes the totals over the sets it is among.
LEMMA SetWrite ==
    ASSUME VaultsOK, NEW v \in Sets, NEW b \in NatBalances, vaults' = [vaults EXCEPT ![v] = b],
           NEW A, A \subseteq Sets
    PROVE  /\ VaultsOK'
           /\ v \in A =>
                /\ SumFunctionOnSet(PoolTokens', A)
                     = SumFunctionOnSet(PoolTokens, A) - vaults[v].pool_token + b.pool_token
                /\ SumFunctionOnSet(Pending', A)
                     = SumFunctionOnSet(Pending, A) - vaults[v].pending + b.pending
           /\ v \notin A =>
                /\ SumFunctionOnSet(PoolTokens', A) = SumFunctionOnSet(PoolTokens, A)
                /\ SumFunctionOnSet(Pending', A) = SumFunctionOnSet(Pending, A)
<1>1. VaultsOK'
  BY DEF VaultsOK
<1>2. IsFiniteSet(A)
  BY SetsFinite, FS_Subset
<1>3. \A w \in Sets : PoolTokens[w] \in Int /\ Pending[w] \in Int
  BY DEF VaultsOK, NatBalances, PoolTokens, Pending
<1>4. /\ PoolTokens[v] = vaults[v].pool_token /\ Pending[v] = vaults[v].pending
      /\ PoolTokens'[v] = b.pool_token /\ Pending'[v] = b.pending
      /\ b.pool_token \in Int /\ b.pending \in Int
  BY DEF VaultsOK, NatBalances, PoolTokens, Pending
<1>5. \A w \in Sets \ {v} : PoolTokens'[w] = PoolTokens[w] /\ Pending'[w] = Pending[w]
  BY DEF VaultsOK, PoolTokens, Pending
<1> DEFINE pools == PoolTokens
           pools2 == PoolTokens'
           pends == Pending
           pends2 == Pending'
<1> HIDE DEF pools, pools2, pends, pends2
<1>6. CASE v \in A
  <2>1. SumFunctionOnSet(PoolTokens', A)
          = SumFunctionOnSet(PoolTokens, A) - PoolTokens[v] + PoolTokens'[v]
    <3>1. \A w \in A : pools[w] \in Int
      BY <1>3 DEF pools
    <3>2. pools2[v] \in Int /\ \A w \in A \ {v} : pools2[w] = pools[w]
      BY <1>4, <1>5 DEF pools, pools2
    <3>3. SumFunctionOnSet(pools2, A) = SumFunctionOnSet(pools, A) - pools[v] + pools2[v]
      BY <1>2, <1>6, <3>1, <3>2, SumUpdate
    <3> QED BY <3>3 DEF pools, pools2
  <2>2. SumFunctionOnSet(Pending', A) = SumFunctionOnSet(Pending, A) - Pending[v] + Pending'[v]
    <3>1. \A w \in A : pends[w] \in Int
      BY <1>3 DEF pends
    <3>2. pends2[v] \in Int /\ \A w \in A \ {v} : pends2[w] = pends[w]
      BY <1>4, <1>5 DEF pends, pends2
    <3>3. SumFunctionOnSet(pends2, A) = SumFunctionOnSet(pends, A) - pends[v] + pends2[v]
      BY <1>2, <1>6, <3>1, <3>2, SumUpdate
    <3> QED BY <3>3 DEF pends, pends2
  <2> QED BY <1>1, <1>4, <1>6, <2>1, <2>2
<1>7. CASE v \notin A
  <2>1. \A w \in A : pools2[w] = pools[w] /\ pends2[w] = pends[w]
    BY <1>5, <1>7 DEF pools, pools2, pends, pends2
  <2>2. SumFunctionOnSet(pools2, A) = SumFunctionOnSet(pools, A)
    BY <1>2, <2>1, SumEqual
  <2>3. SumFunctionOnSet(pends2, A) = SumFunctionOnSet(pends, A)
    BY <1>2, <2>1, SumEqual
  <2> QED BY <1>1, <1>7, <2>2, <2>3 DEF pools, pools2, pends, pends2
<1> QED BY <1>6, <1>7

\* One deposit or withdrawal changes the free balance of one set.
LEMMA TransferEffect ==
    ASSUME VaultsOK, NEW s \in Stakers, NEW n \in DepositAmounts,
           \/ Deposit(s, n) \/ Withdraw(s, n)
           \/ DepositFromLocker(s, n) \/ WithdrawToLocker(s, n)
    PROVE  \E v \in Sets, b \in NatBalances :
              /\ vaults' = [vaults EXCEPT ![v] = b]
              /\ b.pool_token = vaults[v].pool_token /\ b.pending = vaults[v].pending
<1>1. n \in Nat
  BY AmountsAssumption
<1>2. ASSUME NEW v \in Sets, vaults' = [vaults EXCEPT ![v].vault = @ + n]
      PROVE  \E b \in NatBalances :
                /\ vaults' = [vaults EXCEPT ![v] = b]
                /\ b.pool_token = vaults[v].pool_token /\ b.pending = vaults[v].pending
  <2> DEFINE b == [vaults[v] EXCEPT !.vault = @ + n]
  <2>1. vaults[v] \in NatBalances
    BY DEF VaultsOK
  <2>2. b \in NatBalances
    BY <1>1, <2>1, NatBalancesAfter
  <2>3. vaults' = [vaults EXCEPT ![v] = b]
    BY <1>2 DEF VaultsOK
  <2>4. b.pool_token = vaults[v].pool_token /\ b.pending = vaults[v].pending
    BY <2>1 DEF NatBalances
  <2> HIDE DEF b
  <2> QED BY <2>2, <2>3, <2>4
<1>3. ASSUME NEW v \in Sets, vaults[v].vault >= n, vaults' = [vaults EXCEPT ![v].vault = @ - n]
      PROVE  \E b \in NatBalances :
                /\ vaults' = [vaults EXCEPT ![v] = b]
                /\ b.pool_token = vaults[v].pool_token /\ b.pending = vaults[v].pending
  <2> DEFINE b == [vaults[v] EXCEPT !.vault = @ - n]
  <2>1. vaults[v] \in NatBalances
    BY DEF VaultsOK
  <2>2. b \in NatBalances
    BY <1>1, <1>3, <2>1, NatBalancesAfter
  <2>3. vaults' = [vaults EXCEPT ![v] = b]
    BY <1>3 DEF VaultsOK
  <2>4. b.pool_token = vaults[v].pool_token /\ b.pending = vaults[v].pending
    BY <2>1 DEF NatBalances
  <2> HIDE DEF b
  <2> QED BY <2>2, <2>3, <2>4
<1>4. CASE Deposit(s, n)
  BY <1>2, <1>4 DEF Deposit, HasVault
<1>5. CASE Withdraw(s, n)
  BY <1>3, <1>5 DEF Withdraw, HasVault
<1>6. CASE DepositFromLocker(s, n)
  BY <1>2, <1>6 DEF DepositFromLocker, HasLockedVault
<1>7. CASE WithdrawToLocker(s, n)
  BY <1>3, <1>7 DEF WithdrawToLocker, HasLockedVault
<1> QED BY <1>4, <1>5, <1>6, <1>7

\* stake writes the free set of its staker, start_unstake too.
LEMMA StakeEffect ==
    ASSUME VaultsOK, NEW s \in Stakers, NEW n \in StakeAmounts, Stake(s, n)
    PROVE  \E b \in NatBalances :
              LET v == staker[s].staker_vault
              IN  /\ v \in Sets /\ vaults' = [vaults EXCEPT ![v] = b]
                  /\ b.pool_token = vaults[v].pool_token + n /\ b.pending = vaults[v].pending
<1> DEFINE v == staker[s].staker_vault
           m == n * StakeRate
           b == [vaults[v] EXCEPT !.vault = @ - m, !.staked = @ + m, !.pool_token = @ + n]
<1>1. n \in Nat /\ m \in Nat /\ v \in Sets /\ vaults[v].vault >= m
  BY AmountsAssumption, StakeRateAssumption DEF Stake, HasVault
<1>2. vaults' = [vaults EXCEPT ![v].vault = @ - m, ![v].staked = @ + m, ![v].pool_token = @ + n]
  BY DEF Stake
<1> HIDE DEF v, m
<1>3. vaults[v] \in NatBalances
  BY <1>1 DEF VaultsOK
<1>4. b \in NatBalances
  BY <1>1, <1>3, NatBalancesAfter
<1>5. vaults' = [vaults EXCEPT ![v] = b]
  BY <1>1, <1>2 DEF VaultsOK
<1>6. b.pool_token = vaults[v].pool_token + n /\ b.pending = vaults[v].pending
  BY <1>3 DEF NatBalances
<1> HIDE DEF b
<1> QED BY <1>1, <1>4, <1>5, <1>6 DEF v

LEMMA StartUnstakeEffect ==
    ASSUME VaultsOK, NEW s \in Stakers, NEW p \in Receipts, NEW n \in StakeAmounts,
           NEW locked \in BOOLEAN, StartUnstake(s, p, n, locked)
    PROVE  \E b \in NatBalances :
              LET v == staker[s].staker_vault
              IN  /\ v \in Sets /\ vaults' = [vaults EXCEPT ![v] = b]
                  /\ b.pool_token = vaults[v].pool_token - n
                  /\ b.pending = vaults[v].pending + UnstakedTokens(n)
<1> DEFINE v == staker[s].staker_vault
           m == UnstakedTokens(n)
           b == [vaults[v] EXCEPT !.staked = @ - m, !.pending = @ + m, !.pool_token = @ - n]
<1>1. /\ n \in Nat /\ m \in Nat /\ v \in Sets
      /\ vaults[v].staked >= m /\ vaults[v].pool_token >= n
  BY AmountsAssumption, StakeRateAssumption DEF StartUnstake, HasVault, UnstakedTokens
<1>2. vaults' = [vaults EXCEPT ![v].staked = @ - m, ![v].pending = @ + m, ![v].pool_token = @ - n]
  BY DEF StartUnstake
<1> HIDE DEF v, m
<1>3. vaults[v] \in NatBalances
  BY <1>1 DEF VaultsOK
<1>4. b \in NatBalances
  BY <1>1, <1>3, NatBalancesAfter
<1>5. vaults' = [vaults EXCEPT ![v] = b]
  BY <1>1, <1>2 DEF VaultsOK
<1>6. b.pool_token = vaults[v].pool_token - n /\ b.pending = vaults[v].pending + m
  BY <1>3 DEF NatBalances
<1> HIDE DEF b
<1> QED BY <1>1, <1>4, <1>5, <1>6 DEF v, m

\* end_unstake writes the set that its receipt draws on.
LEMMA EndUnstakeEffect ==
    ASSUME VaultsOK, ReceiptsOK, NEW p \in Receipts, EndUnstake(p)
    PROVE  \E b \in NatBalances :
              /\ ReceiptSet(p) \in Sets /\ vaults' = [vaults EXCEPT ![ReceiptSet(p)] = b]
              /\ b.pool_token = vaults[ReceiptSet(p)].pool_token
              /\ b.pending = vaults[ReceiptSet(p)].pending - receipt[p].amount
<1> DEFINE v == ReceiptSet(p)
           m == receipt[p].amount
           b == [vaults[v] EXCEPT !.pending = @ - m, !.vault = @ + m]
<1>1. m \in Nat /\ v \in Sets /\ vaults[v].pending >= m
  BY DEF EndUnstake, ReceiptsOK
<1>2. vaults' = [vaults EXCEPT ![v].pending = @ - m, ![v].vault = @ + m]
  BY DEF EndUnstake
<1> HIDE DEF v, m
<1>3. vaults[v] \in NatBalances
  BY <1>1 DEF VaultsOK
<1>4. b \in NatBalances
  BY <1>1, <1>3, NatBalancesAfter
<1>5. vaults' = [vaults EXCEPT ![v] = b]
  BY <1>1, <1>2 DEF VaultsOK
<1>6. b.pool_token = vaults[v].pool_token /\ b.pending = vaults[v].pending - m
  BY <1>3 DEF NatBalances
<1> HIDE DEF b
<1> QED BY <1>1, <1>4, <1>5, <1>6 DEF v, m

-----------------------------------------------------------------------------
\* Type correctness and the supply.

TypeInv ==
    /\ now \in 1..MaxTime
    /\ StakersOK /\ VaultsOK /\ ReceiptsOK /\ CursorsOK /\ FundsOK
    /\ SupplyIsHeld

\* The supply, being what is held, is not negative.
LEMMA TypeInvTypes ==
    ASSUME IInv, TypeInv
    PROVE  TypeOK
<1>1. supply \in Nat
  <2> DEFINE pools == PoolTokens
  <2>1. \A v \in Sets : pools[v] \in Nat
    BY DEF TypeInv, VaultsOK, NatBalances, PoolTokens
  <2>2. SumFunctionOnSet(pools, Sets) \in Nat
    <3> HIDE DEF pools
    <3> QED BY <2>1, SetsFinite, SumNat
  <2> QED BY <2>2 DEF TypeInv, SupplyIsHeld
<1>2. Created(receipt) = {p \in Receipts : receipt[p].live}
  BY DEF Created, IInv, Typed, ReceiptAccounts
<1>3. Created(rewarder) = {r \in Rewarders : rewarder[r].live}
  BY DEF Created, IInv, Typed, RewarderAccounts
<1> QED
  BY <1>1, <1>2, <1>3
  DEF TypeInv, TypeOK, StakersOK, VaultsOK, ReceiptsOK, CursorsOK, FundsOK, NatBalances

LEMMA InitTypeInv == Init => TypeInv
<1> SUFFICES ASSUME Init PROVE TypeInv
  OBVIOUS
<1>1. SupplyIsHeld
  <2> DEFINE pools == PoolTokens
  <2>1. \A v \in Sets : pools[v] = 0
    BY DEF Init, PoolTokens, EmptySet
  <2>2. SumFunctionOnSet(pools, Sets) = 0
    <3> HIDE DEF pools
    <3> QED BY <2>1, SetsFinite, SumZero
  <2> QED BY <2>2 DEF Init, SupplyIsHeld
<1>2. now \in 1..MaxTime /\ FundsOK
  BY BoundsAssumption DEF Init, FundsOK
<1>3. VaultsOK
  BY DEF Init, VaultsOK, NatBalances, EmptySet
<1>4. StakersOK /\ ReceiptsOK /\ CursorsOK
  BY DEF Init, StakersOK, ReceiptsOK, CursorsOK, NoAccount
<1> QED BY <1>1, <1>2, <1>3, <1>4 DEF TypeInv

\* Where the balances stay, so do their totals.
LEMMA TotalsKept ==
    ASSUME UNCHANGED vaults
    PROVE  /\ UNCHANGED <<PoolTokens, Pending>>
           /\ VaultsOK => VaultsOK'
           /\ UNCHANGED supply /\ SupplyIsHeld => SupplyIsHeld'
BY DEF PoolTokens, Pending, VaultsOK, SupplyIsHeld

LEMMA StakerTypes ==
    ASSUME IInv, TypeInv, NEW s \in Stakers,
           CreateStaker(s) \/ \E v \in Sets : UpdateStakerVault(s, v) \/ UpdateStakerVaultLocked(s, v)
    PROVE  TypeInv'
<1> USE DEF TypeInv
<1>1. /\ UNCHANGED <<now, vaults, supply, receipt, queue, rewarder, fund, wallet, locker>>
      /\ staker \in StakerAccounts
  BY DEF CreateStaker, UpdateStakerVault, UpdateStakerVaultLocked, IInv, Typed
<1>2. StakersOK'
  <2>1. queue.head \in Nat /\ now \in Int /\ now >= 1
    BY DEF IInv, Typed
  <2>2. CASE CreateStaker(s)
    BY <2>1, <2>2, <1>1 DEF CreateStaker, StakersOK, StakerAccounts
  <2>3. ASSUME NEW v \in Sets, UpdateStakerVault(s, v) PROVE StakersOK'
    <3>1. staker[s] \in StakerRecord
      BY <2>3, CreatedTyped DEF UpdateStakerVault, IInv
    <3>2. staker' = [staker EXCEPT ![s] = [staker[s] EXCEPT !.staker_vault = v]] /\ v \in SetsOf[s]
      BY <2>3 DEF UpdateStakerVault
    <3> QED BY <1>1, <3>1, <3>2 DEF StakersOK, StakerAccounts, StakerRecord
  <2>4. ASSUME NEW v \in Sets, UpdateStakerVaultLocked(s, v) PROVE StakersOK'
    <3>1. staker[s] \in StakerRecord
      BY <2>4, CreatedTyped DEF UpdateStakerVaultLocked, IInv
    <3>2. /\ staker' = [staker EXCEPT ![s] = [staker[s] EXCEPT !.staker_vault_locked = v]]
          /\ v \in LockedSetsOf[s]
      BY <2>4 DEF UpdateStakerVaultLocked
    <3> QED BY <1>1, <3>1, <3>2 DEF StakersOK, StakerAccounts, StakerRecord
  <2> QED BY <2>2, <2>3, <2>4
<1>3. ReceiptsOK' /\ CursorsOK' /\ FundsOK'
  BY <1>1 DEF ReceiptsOK, CursorsOK, FundsOK
<1> QED BY <1>1, <1>2, <1>3, TotalsKept

LEMMA TransferTypes ==
    ASSUME IInv, TypeInv, NEW s \in Stakers, NEW n \in DepositAmounts,
           \/ Deposit(s, n) \/ Withdraw(s, n)
           \/ DepositFromLocker(s, n) \/ WithdrawToLocker(s, n)
    PROVE  TypeInv'
<1> USE DEF TypeInv
<1>1. UNCHANGED <<now, staker, supply, receipt, queue, rewarder, fund>>
  BY DEF Deposit, Withdraw, DepositFromLocker, WithdrawToLocker
<1>2. PICK v \in Sets, b \in NatBalances :
          vaults' = [vaults EXCEPT ![v] = b] /\ b.pool_token = vaults[v].pool_token
  BY TransferEffect
<1>3. VaultsOK' /\ SumFunctionOnSet(PoolTokens', Sets)
                     = SumFunctionOnSet(PoolTokens, Sets) - vaults[v].pool_token + b.pool_token
  BY <1>2, SetWrite
<1>4. SupplyIsHeld'
  <2>1. SumFunctionOnSet(PoolTokens, Sets) \in Int /\ vaults[v].pool_token \in Int
    BY DEF SupplyIsHeld, IInv, Typed, Balances
  <2> QED BY <1>1, <1>2, <1>3, <2>1 DEF SupplyIsHeld
<1>5. FundsOK'
  BY AmountsAssumption DEF FundsOK, Deposit, Withdraw, DepositFromLocker, WithdrawToLocker
<1>6. StakersOK' /\ ReceiptsOK' /\ CursorsOK'
  BY <1>1 DEF StakersOK, ReceiptsOK, CursorsOK
<1> QED BY <1>1, <1>3, <1>4, <1>5, <1>6

LEMMA StakeTypes ==
    ASSUME IInv, TypeInv, NEW s \in Stakers, NEW n \in StakeAmounts, Stake(s, n)
    PROVE  TypeInv'
<1> USE DEF TypeInv
<1> DEFINE v == staker[s].staker_vault
<1>1. /\ UNCHANGED <<now, receipt, queue, rewarder, fund, wallet, locker>>
      /\ supply' = supply + n /\ staker' = [staker EXCEPT ![s].last_stake_ts = now]
      /\ n \in Int /\ staker[s] \in StakerRecord
  BY AmountsAssumption, CreatedTyped DEF Stake, StakeTime, HasVault, IInv
<1>2. PICK b \in NatBalances :
          v \in Sets /\ vaults' = [vaults EXCEPT ![v] = b] /\ b.pool_token = vaults[v].pool_token + n
  BY StakeEffect
<1> HIDE DEF v
<1>3. VaultsOK' /\ SumFunctionOnSet(PoolTokens', Sets)
                     = SumFunctionOnSet(PoolTokens, Sets) - vaults[v].pool_token + b.pool_token
  BY <1>2, SetWrite
<1>4. SupplyIsHeld'
  <2>1. SumFunctionOnSet(PoolTokens, Sets) \in Int /\ vaults[v].pool_token \in Int
    BY <1>2 DEF SupplyIsHeld, IInv, Typed, Balances
  <2> QED BY <1>1, <1>2, <1>3, <2>1 DEF SupplyIsHeld
<1>5. StakersOK'
  <2>1. staker' = [staker EXCEPT ![s] = [staker[s] EXCEPT !.last_stake_ts = now]]
    BY <1>1
  <2> QED BY <1>1, <2>1 DEF StakersOK, IInv, Typed, StakerAccounts, StakerRecord
<1>6. ReceiptsOK' /\ CursorsOK' /\ FundsOK'
  BY <1>1 DEF ReceiptsOK, CursorsOK, FundsOK
<1> QED BY <1>1, <1>3, <1>4, <1>5, <1>6

LEMMA StartUnstakeTypes ==
    ASSUME IInv, TypeInv, NEW s \in Stakers, NEW p \in Receipts, NEW n \in StakeAmounts,
           NEW locked \in BOOLEAN, StartUnstake(s, p, n, locked)
    PROVE  TypeInv'
<1> USE DEF TypeInv
<1> DEFINE v == staker[s].staker_vault
<1>1. /\ UNCHANGED <<now, staker, queue, rewarder, fund, wallet, locker>>
      /\ supply' = supply - n /\ n \in Int
      /\ receipt' = [receipt EXCEPT ![p] =
              [live |-> TRUE, burned |-> FALSE, staker |-> s, locked |-> locked,
               amount |-> UnstakedTokens(n), end_ts |-> now + withdrawal_timelock]]
      /\ UnstakedTokens(n) \in Nat
  BY AmountsAssumption, StakeRateAssumption DEF StartUnstake, SupplyAfterBurn, UnstakedTokens
<1>2. PICK b \in NatBalances :
          v \in Sets /\ vaults' = [vaults EXCEPT ![v] = b] /\ b.pool_token = vaults[v].pool_token - n
  BY StartUnstakeEffect
<1> HIDE DEF v
<1>3. VaultsOK' /\ SumFunctionOnSet(PoolTokens', Sets)
                     = SumFunctionOnSet(PoolTokens, Sets) - vaults[v].pool_token + b.pool_token
  BY <1>2, SetWrite
<1>4. SupplyIsHeld'
  <2>1. SumFunctionOnSet(PoolTokens, Sets) \in Int /\ vaults[v].pool_token \in Int
    BY <1>2 DEF SupplyIsHeld, IInv, Typed, Balances
  <2> QED BY <1>1, <1>2, <1>3, <2>1 DEF SupplyIsHeld
<1>5. ReceiptsOK'
  BY <1>1 DEF ReceiptsOK, IInv, Typed, ReceiptAccounts
<1>6. StakersOK' /\ CursorsOK' /\ FundsOK'
  BY <1>1 DEF StakersOK, CursorsOK, FundsOK
<1> QED BY <1>1, <1>3, <1>4, <1>5, <1>6

LEMMA EndUnstakeTypes ==
    ASSUME IInv, TypeInv, NEW p \in Receipts, EndUnstake(p)
    PROVE  TypeInv'
<1> USE DEF TypeInv
<1> DEFINE v == ReceiptSet(p)
<1>1. /\ UNCHANGED <<now, staker, supply, queue, rewarder, fund, wallet, locker>>
      /\ receipt' = [receipt EXCEPT ![p].burned = TRUE] /\ receipt[p] \in ReceiptRecord
  BY CreatedTyped DEF EndUnstake, Burned, IInv
<1>2. PICK b \in NatBalances :
          v \in Sets /\ vaults' = [vaults EXCEPT ![v] = b] /\ b.pool_token = vaults[v].pool_token
  BY EndUnstakeEffect
<1> HIDE DEF v
<1>3. VaultsOK' /\ SumFunctionOnSet(PoolTokens', Sets)
                     = SumFunctionOnSet(PoolTokens, Sets) - vaults[v].pool_token + b.pool_token
  BY <1>2, SetWrite
<1>4. SupplyIsHeld'
  <2>1. SumFunctionOnSet(PoolTokens, Sets) \in Int /\ vaults[v].pool_token \in Int
    BY <1>2 DEF SupplyIsHeld, IInv, Typed, Balances
  <2> QED BY <1>1, <1>2, <1>3, <2>1 DEF SupplyIsHeld
<1>5. ReceiptsOK'
  BY <1>1 DEF ReceiptsOK, IInv, Typed, ReceiptAccounts, ReceiptRecord
<1>6. StakersOK' /\ CursorsOK' /\ FundsOK'
  BY <1>1 DEF StakersOK, CursorsOK, FundsOK
<1> QED BY <1>1, <1>3, <1>4, <1>5, <1>6

LEMMA RewardTypes ==
    ASSUME IInv, TypeInv, NEW r \in Rewarders,
           \/ \E total \in Totals, lifetime \in Lifetimes, kind \in Kinds :
                 DropReward(r, total, lifetime, kind)
           \/ \E s \in Stakers : ClaimReward(s, r) \/ ClaimRewardToLocker(s, r)
           \/ ExpireReward(r)
    PROVE  TypeInv'
<1> USE DEF TypeInv
<1>1. UNCHANGED <<now, vaults, supply, receipt, wallet, locker>> /\ queue.head \in Nat
  BY DEF DropReward, ClaimReward, ClaimRewardToLocker, ExpireReward, IInv, Typed
<1>2. VaultsOK' /\ SupplyIsHeld' /\ ReceiptsOK'
  BY <1>1, TotalsKept DEF ReceiptsOK
<1>3. ASSUME NEW total \in Totals, NEW lifetime \in Lifetimes, NEW kind \in Kinds,
             DropReward(r, total, lifetime, kind)
      PROVE  StakersOK' /\ CursorsOK' /\ FundsOK'
  <2>1. UNCHANGED staker /\ queue'.head = queue.head + 1 /\ total \in Nat
    BY <1>3, AmountsAssumption DEF DropReward, Appended
  <2>2. StakersOK'
    BY <1>1, <2>1 DEF StakersOK, IInv, Typed, StakerAccounts, StakerRecord
  <2>3. CursorsOK'
    <3>1. /\ \A q \in Rewarders \ {r} : rewarder'[q] = rewarder[q]
          /\ rewarder'[r].reward_event_q_cursor = queue.head
      BY <1>3 DEF DropReward, IInv, Typed, RewarderAccounts
    <3>2. ASSUME NEW q \in Rewarders, rewarder'[q].live
          PROVE  rewarder'[q].reward_event_q_cursor \in 0..queue'.head - 1
      <4>1. CASE q = r
        BY <1>1, <2>1, <3>1, <4>1
      <4>2. CASE q # r
        <5>1. rewarder[q].reward_event_q_cursor \in 0..queue.head - 1
          BY <3>1, <3>2, <4>2 DEF CursorsOK
        <5> QED BY <1>1, <2>1, <3>1, <4>2, <5>1
      <4> QED BY <4>1, <4>2
    <3> QED BY <3>2 DEF CursorsOK
  <2>4. FundsOK'
    BY <1>1, <1>3, <2>1 DEF DropReward, FundsOK
  <2> QED BY <2>2, <2>3, <2>4
<1>4. ASSUME NEW s \in Stakers, ClaimReward(s, r) \/ ClaimRewardToLocker(s, r)
      PROVE  StakersOK' /\ CursorsOK' /\ FundsOK'
  <2> DEFINE cursor == rewarder[r].reward_event_q_cursor
             amount == RewardAmount(r, PoolTokenTotal(s))
  <2>1. /\ Claimable(s, r) /\ UNCHANGED <<queue, rewarder>>
        /\ staker' = [staker EXCEPT ![s].rewards_cursor = cursor + 1]
        /\ fund' = [fund EXCEPT ![r] = @ - amount]
    BY <1>4 DEF ClaimReward, ClaimRewardToLocker, Claimed, CursorPast
  <2>2. staker[s] \in StakerRecord /\ cursor \in 0..queue.head - 1
    BY <2>1, CreatedTyped DEF IInv, Claimable, HasVault, CursorsOK
  <2>3. StakersOK'
    <3> HIDE DEF cursor
    <3>1. staker' = [staker EXCEPT ![s] = [staker[s] EXCEPT !.rewards_cursor = cursor + 1]]
      BY <2>1
    <3>2. cursor + 1 \in 0..queue.head
      BY <1>1, <2>2
    <3>3. [staker[s] EXCEPT !.rewards_cursor = cursor + 1].rewards_cursor = cursor + 1
      BY <2>2 DEF StakerRecord
    <3> QED BY <1>1, <2>1, <2>2, <3>1, <3>2, <3>3 DEF StakersOK, IInv, Typed, StakerAccounts, StakerRecord
  <2>4. CursorsOK'
    BY <2>1 DEF CursorsOK
  <2>5. FundsOK'
    <3>1. amount > 0 /\ fund[r] >= amount
      BY <2>1 DEF Claimable
    <3>2. amount \in Int
      BY <2>1, ClaimAmount
    <3> HIDE DEF amount
    <3> QED BY <1>1, <2>1, <3>1, <3>2 DEF FundsOK
  <2> QED BY <2>3, <2>4, <2>5
<1>5. CASE ExpireReward(r)
  <2>1. UNCHANGED <<staker, queue>> /\ rewarder[r] \in RewarderRecord
    BY <1>5, CreatedTyped DEF ExpireReward, IInv
  <2>2. CursorsOK'
    BY <1>5, <2>1 DEF ExpireReward, CursorsOK, IInv, Typed, RewarderAccounts, RewarderRecord
  <2>3. StakersOK' /\ FundsOK'
    BY <1>1, <1>5, <2>1 DEF ExpireReward, StakersOK, FundsOK
  <2> QED BY <1>1, <1>2, <2>2, <2>3
<1> QED BY <1>1, <1>2, <1>3, <1>4, <1>5

LEMMA NextTypeInv ==
    ASSUME IInv, TypeInv, [Next]_poolVars
    PROVE  TypeInv'
<1>1. CASE UNCHANGED poolVars
  BY <1>1, TotalsKept DEF poolVars, TypeInv, StakersOK, ReceiptsOK, CursorsOK, FundsOK
<1>2. CASE Tick
  BY <1>2, TotalsKept, BoundsAssumption
  DEF Tick, TypeInv, StakersOK, ReceiptsOK, CursorsOK, FundsOK
<1>3. ASSUME NEW t \in Timelocks, UpdatePool(t) PROVE TypeInv'
  BY <1>3, TotalsKept DEF UpdatePool, TypeInv, StakersOK, ReceiptsOK, CursorsOK, FundsOK
<1> QED
  BY <1>1, <1>2, <1>3, StakerTypes, TransferTypes, StakeTypes, StartUnstakeTypes,
     EndUnstakeTypes, RewardTypes
  DEF Next

-----------------------------------------------------------------------------
\* What is pending and what is receipted.

PendingInv ==
    /\ \A p \in Receipts : receipt[p].live => staker[receipt[p].staker].live
    /\ PendingIsReceipted

LEMMA InitPending == Init => PendingInv
<1> SUFFICES ASSUME Init, NEW s \in Stakers
             PROVE  SumFunctionOnSet(Pending, AllSets(s)) = SumFunctionOnSet(Receivable(s), Receipts)
  BY DEF Init, PendingInv, PendingIsReceipted, NoAccount
<1> DEFINE pends == Pending
           owed == Receivable(s)
<1>1. (\A v \in AllSets(s) : pends[v] = 0) /\ \A p \in Receipts : owed[p] = 0
  BY SetsFinite DEF Init, Pending, Receivable, OpenTo, NoAccount, EmptySet
<1>2. SumFunctionOnSet(pends, AllSets(s)) = 0 /\ SumFunctionOnSet(owed, Receipts) = 0
  <2> HIDE DEF pends, owed
  <2> QED BY <1>1, SetsFinite, AccountsAssumption, SumZero
<1> QED BY <1>2

\* Where no receipt changes and no set's pending tokens do, nothing changes here.
LEMMA PendingKept ==
    ASSUME IInv, TypeInv, PendingInv, UNCHANGED receipt,
           \A s \in Stakers : staker[s].live => staker'[s].live,
           \A s \in Stakers :
               SumFunctionOnSet(Pending', AllSets(s)) = SumFunctionOnSet(Pending, AllSets(s))
    PROVE  PendingInv'
<1>1. \A s \in Stakers : Receivable(s)' = Receivable(s)
  BY DEF Receivable, OpenTo
<1>2. PendingIsReceipted'
  BY <1>1 DEF PendingInv, PendingIsReceipted
<1>3. \A p \in Receipts : receipt[p].live => receipt[p].staker \in Stakers
  BY DEF TypeInv, ReceiptsOK
<1> QED BY <1>2, <1>3 DEF PendingInv

\* A set is among those of one staker only.
LEMMA OneOwner ==
    ASSUME NEW s \in Stakers, NEW v \in AllSets(s), NEW t \in Stakers, t # s
    PROVE  v \notin AllSets(t)
BY SetsAssumption

\* The write of one receipt changes what its staker has to receive.
LEMMA ReceiptWrite ==
    ASSUME IInv, TypeInv, NEW p \in Receipts, NEW a \in ReceiptRecord,
           a.amount \in Nat, receipt' = [receipt EXCEPT ![p] = a], NEW s \in Stakers
    PROVE  SumFunctionOnSet(Receivable(s)', Receipts)
             = SumFunctionOnSet(Receivable(s), Receipts)
                 - (IF OpenTo(s, receipt[p]) THEN receipt[p].amount ELSE 0)
                 + (IF OpenTo(s, a) THEN a.amount ELSE 0)
<1> DEFINE owed == Receivable(s)
           owed2 == Receivable(s)'
<1>1. \A q \in Receipts : owed[q] \in Int
  BY DEF Receivable, OpenTo, TypeInv, ReceiptsOK
<1>2. /\ owed[p] = (IF OpenTo(s, receipt[p]) THEN receipt[p].amount ELSE 0)
      /\ owed2[p] = (IF OpenTo(s, a) THEN a.amount ELSE 0)
      /\ owed2[p] \in Int
  BY DEF Receivable, IInv, Typed, ReceiptAccounts, OpenTo
<1>3. \A q \in Receipts \ {p} : owed2[q] = owed[q]
  BY DEF Receivable, IInv, Typed, ReceiptAccounts, OpenTo
<1> HIDE DEF owed, owed2
<1>4. SumFunctionOnSet(owed2, Receipts) = SumFunctionOnSet(owed, Receipts) - owed[p] + owed2[p]
  BY <1>1, <1>2, <1>3, AccountsAssumption, SumUpdate
<1> QED BY <1>2, <1>4 DEF owed, owed2

LEMMA SumsTyped ==
    ASSUME IInv, TypeInv, NEW s \in Stakers
    PROVE  /\ SumFunctionOnSet(Pending, AllSets(s)) \in Nat
           /\ SumFunctionOnSet(PoolTokens, AllSets(s)) \in Nat
           /\ SumFunctionOnSet(Receivable(s), Receipts) \in Nat
<1> DEFINE pends == Pending
           pools == PoolTokens
           owed == Receivable(s)
<1>1. (\A v \in AllSets(s) : pends[v] \in Nat /\ pools[v] \in Nat) /\ \A p \in Receipts : owed[p] \in Nat
  BY SetsFinite DEF TypeInv, VaultsOK, NatBalances, Pending, PoolTokens, Receivable, OpenTo, ReceiptsOK
<1> HIDE DEF pends, pools, owed
<1>2. /\ SumFunctionOnSet(pends, AllSets(s)) \in Nat /\ SumFunctionOnSet(owed, Receipts) \in Nat
      /\ SumFunctionOnSet(pools, AllSets(s)) \in Nat
  BY <1>1, SetsFinite, AccountsAssumption, SumNat
<1> QED BY <1>2 DEF pends, pools, owed

LEMMA StartUnstakePending ==
    ASSUME IInv, TypeInv, PendingInv, NEW s \in Stakers, NEW p \in Receipts, NEW n \in StakeAmounts,
           NEW locked \in BOOLEAN, StartUnstake(s, p, n, locked)
    PROVE  PendingInv'
<1> DEFINE v == staker[s].staker_vault
           m == UnstakedTokens(n)
           a == [live |-> TRUE, burned |-> FALSE, staker |-> s, locked |-> locked,
                 amount |-> m, end_ts |-> now + withdrawal_timelock]
<1>1. /\ UNCHANGED staker /\ staker[s].live /\ ~receipt[p].live /\ m \in Nat
      /\ receipt' = [receipt EXCEPT ![p] = a] /\ v \in AllSets(s)
  BY AmountsAssumption, StakeRateAssumption, OwnSets
  DEF StartUnstake, HasVault, UnstakedTokens, TypeInv
<1>2. PICK b \in NatBalances :
          /\ v \in Sets /\ vaults' = [vaults EXCEPT ![v] = b]
          /\ b.pending = vaults[v].pending + m
  BY StartUnstakeEffect DEF TypeInv
<1>3. vaults[v].pending \in Nat
  BY <1>2 DEF TypeInv, VaultsOK, NatBalances
<1> HIDE DEF v, m
<1>4. a \in ReceiptRecord /\ a.amount = m /\ a.staker = s /\ \A t \in Stakers : OpenTo(t, a) <=> t = s
  BY <1>1 DEF ReceiptRecord, OpenTo, IInv, Typed
<1> HIDE DEF a
<1>5. ASSUME NEW t \in Stakers
      PROVE  SumFunctionOnSet(Pending', AllSets(t)) = SumFunctionOnSet(Receivable(t)', Receipts)
  <2>1. SumFunctionOnSet(Pending, AllSets(t)) = SumFunctionOnSet(Receivable(t), Receipts)
    BY DEF PendingInv, PendingIsReceipted
  <2>2. SumFunctionOnSet(Pending, AllSets(t)) \in Nat
    BY SumsTyped
  <2>3. SumFunctionOnSet(Receivable(t)', Receipts)
          = SumFunctionOnSet(Receivable(t), Receipts) + (IF t = s THEN m ELSE 0)
    <3>1. SumFunctionOnSet(Receivable(t)', Receipts)
            = SumFunctionOnSet(Receivable(t), Receipts)
                - (IF OpenTo(t, receipt[p]) THEN receipt[p].amount ELSE 0)
                + (IF OpenTo(t, a) THEN a.amount ELSE 0)
      BY <1>1, <1>4, ReceiptWrite
    <3>2. ~OpenTo(t, receipt[p])
      BY <1>1 DEF OpenTo
    <3> QED BY <1>1, <1>4, <2>1, <2>2, <3>1, <3>2
  <2>4. CASE t = s
    <3>1. SumFunctionOnSet(Pending', AllSets(t))
            = SumFunctionOnSet(Pending, AllSets(t)) - vaults[v].pending + b.pending
      BY <1>1, <1>2, <2>4, SetsFinite, SetWrite DEF TypeInv
    <3> QED BY <1>1, <1>2, <1>3, <2>1, <2>2, <2>3, <2>4, <3>1
  <2>5. CASE t # s
    <3>1. v \notin AllSets(t)
      BY <1>1, <2>5, OneOwner
    <3>2. SumFunctionOnSet(Pending', AllSets(t)) = SumFunctionOnSet(Pending, AllSets(t))
      BY <1>2, <3>1, SetsFinite, SetWrite DEF TypeInv
    <3> QED BY <1>1, <2>1, <2>2, <2>3, <2>5, <3>2
  <2> QED BY <2>4, <2>5
<1>6. \A q \in Receipts : receipt'[q].live => staker'[receipt'[q].staker].live
  BY <1>1, <1>4 DEF PendingInv, IInv, Typed, ReceiptAccounts
<1> QED BY <1>5, <1>6 DEF PendingInv, PendingIsReceipted

LEMMA EndUnstakePending ==
    ASSUME IInv, TypeInv, PendingInv, NEW p \in Receipts, EndUnstake(p)
    PROVE  PendingInv'
<1> DEFINE v == ReceiptSet(p)
           m == receipt[p].amount
           s == receipt[p].staker
           a == [receipt[p] EXCEPT !.burned = TRUE]
<1>1. /\ UNCHANGED staker /\ receipt[p].live /\ ~receipt[p].burned /\ receipt[p] \in ReceiptRecord
      /\ receipt' = [receipt EXCEPT ![p] = a] /\ m \in Nat /\ s \in Stakers /\ staker[s].live
      /\ v \in Sets
  BY CreatedTyped DEF EndUnstake, Burned, IInv, TypeInv, ReceiptsOK, PendingInv
<1>2. PICK b \in NatBalances :
          /\ vaults' = [vaults EXCEPT ![v] = b] /\ b.pending = vaults[v].pending - m
  BY EndUnstakeEffect DEF TypeInv
<1>3. vaults[v].pending \in Nat
  BY <1>1 DEF TypeInv, VaultsOK, NatBalances
<1>4. v \in AllSets(s)
  BY <1>1, OwnSets DEF ReceiptSet, HasVault, HasLockedVault, TypeInv
<1>5. /\ a \in ReceiptRecord /\ a.amount = m /\ a.staker = s /\ a.live
      /\ \A t \in Stakers : ~OpenTo(t, a) /\ (OpenTo(t, receipt[p]) <=> t = s)
  BY <1>1 DEF ReceiptRecord, OpenTo
<1> HIDE DEF a, v, m, s
<1>6. ASSUME NEW t \in Stakers
      PROVE  SumFunctionOnSet(Pending', AllSets(t)) = SumFunctionOnSet(Receivable(t)', Receipts)
  <2>1. SumFunctionOnSet(Pending, AllSets(t)) = SumFunctionOnSet(Receivable(t), Receipts)
    BY DEF PendingInv, PendingIsReceipted
  <2>2. SumFunctionOnSet(Pending, AllSets(t)) \in Nat
    BY SumsTyped
  <2>3. SumFunctionOnSet(Receivable(t)', Receipts)
          = SumFunctionOnSet(Receivable(t), Receipts) - (IF t = s THEN m ELSE 0)
    <3>1. SumFunctionOnSet(Receivable(t)', Receipts)
            = SumFunctionOnSet(Receivable(t), Receipts)
                - (IF OpenTo(t, receipt[p]) THEN receipt[p].amount ELSE 0)
                + (IF OpenTo(t, a) THEN a.amount ELSE 0)
      BY <1>1, <1>5, ReceiptWrite
    <3> QED BY <1>1, <1>5, <2>1, <2>2, <3>1 DEF m
  <2>4. CASE t = s
    <3>1. SumFunctionOnSet(Pending', AllSets(t))
            = SumFunctionOnSet(Pending, AllSets(t)) - vaults[v].pending + b.pending
      BY <1>1, <1>2, <1>4, <2>4, SetsFinite, SetWrite DEF TypeInv
    <3> QED BY <1>1, <1>2, <1>3, <2>1, <2>2, <2>3, <2>4, <3>1
  <2>5. CASE t # s
    <3>1. v \notin AllSets(t)
      BY <1>1, <1>4, <2>5, OneOwner
    <3>2. SumFunctionOnSet(Pending', AllSets(t)) = SumFunctionOnSet(Pending, AllSets(t))
      BY <1>1, <1>2, <3>1, SetsFinite, SetWrite DEF TypeInv
    <3> QED BY <1>1, <2>1, <2>2, <2>3, <2>5, <3>2
  <2> QED BY <2>4, <2>5
<1>7. \A q \in Receipts : receipt'[q].live => staker'[receipt'[q].staker].live
  BY <1>1, <1>5 DEF PendingInv, IInv, Typed, ReceiptAccounts, s
<1> QED BY <1>6, <1>7 DEF PendingInv, PendingIsReceipted

\* A step writes one staker account at most, and only stake moves the time of
\* the last stake.
LEMMA StakerWritten ==
    ASSUME IInv, [Next]_poolVars
    PROVE  \/ UNCHANGED staker
           \/ \E t \in Stakers, x \in StakerRecord :
                 /\ staker' = [staker EXCEPT ![t] = x]
                 /\ \/ ~staker[t].live
                    \/ x.last_stake_ts = staker[t].last_stake_ts
                    \/ \E n \in StakeAmounts : Stake(t, n)
<1> DEFINE Written ==
       \/ UNCHANGED staker
       \/ \E t \in Stakers, x \in StakerRecord :
             /\ staker' = [staker EXCEPT ![t] = x]
             /\ \/ ~staker[t].live
                \/ x.last_stake_ts = staker[t].last_stake_ts
                \/ \E n \in StakeAmounts : Stake(t, n)
<1>0. SUFFICES Written
  OBVIOUS
<1>1. ASSUME NEW t \in Stakers, CreateStaker(t) PROVE Written
  <2> DEFINE x == [live |-> TRUE, staker_vault |-> NoSet, staker_vault_locked |-> NoSet,
                   rewards_cursor |-> 0, last_stake_ts |-> 0]
  <2>1. x \in StakerRecord
    BY DEF StakerRecord
  <2>2. staker' = [staker EXCEPT ![t] = x] /\ ~staker[t].live
    BY <1>1 DEF CreateStaker
  <2> HIDE DEF x
  <2> QED BY <2>1, <2>2
<1>2. ASSUME NEW t \in Stakers, NEW x, staker[t].live,
             \/ staker' = [staker EXCEPT ![t].staker_vault = x] /\ x \in Sets
             \/ staker' = [staker EXCEPT ![t].staker_vault_locked = x] /\ x \in Sets
             \/ /\ staker' = [staker EXCEPT ![t].last_stake_ts = x] /\ x \in Int
                /\ \E n \in StakeAmounts : Stake(t, n)
             \/ staker' = [staker EXCEPT ![t].rewards_cursor = x] /\ x \in Nat
      PROVE  Written
  <2>1. staker[t] \in StakerRecord
    BY <1>2, CreatedTyped DEF IInv
  <2>2. /\ x \in Sets => [staker[t] EXCEPT !.staker_vault = x] \in StakerRecord
        /\ x \in Sets => [staker[t] EXCEPT !.staker_vault_locked = x] \in StakerRecord
        /\ x \in Int => [staker[t] EXCEPT !.last_stake_ts = x] \in StakerRecord
        /\ x \in Nat => [staker[t] EXCEPT !.rewards_cursor = x] \in StakerRecord
        /\ [staker[t] EXCEPT !.staker_vault = x].last_stake_ts = staker[t].last_stake_ts
        /\ [staker[t] EXCEPT !.staker_vault_locked = x].last_stake_ts = staker[t].last_stake_ts
        /\ [staker[t] EXCEPT !.rewards_cursor = x].last_stake_ts = staker[t].last_stake_ts
    BY <2>1 DEF StakerRecord
  <2> QED BY <1>2, <2>2
<1>3. ASSUME NEW t \in Stakers, NEW v \in Sets, UpdateStakerVault(t, v) \/ UpdateStakerVaultLocked(t, v)
      PROVE  Written
  BY <1>2, <1>3 DEF UpdateStakerVault, UpdateStakerVaultLocked
<1>4. ASSUME NEW t \in Stakers, NEW n \in StakeAmounts, Stake(t, n) PROVE Written
  BY <1>2, <1>4 DEF Stake, HasVault, StakeTime, IInv, Typed
<1>5. ASSUME NEW t \in Stakers, NEW r \in Rewarders, ClaimReward(t, r) \/ ClaimRewardToLocker(t, r)
      PROVE  Written
  <2>1. Claimable(t, r) /\ staker' = [staker EXCEPT ![t].rewards_cursor = CursorPast(t, r)]
    BY <1>5 DEF ClaimReward, ClaimRewardToLocker, Claimed
  <2>2. CursorPast(t, r) \in Nat
    BY <2>1, CreatedTyped, RewarderFields DEF CursorPast, IInv, Claimable
  <2> QED BY <1>2, <2>1, <2>2 DEF Claimable, HasVault
<1>6. ASSUME NEW t \in Stakers, NEW n \in DepositAmounts,
             \/ Deposit(t, n) \/ Withdraw(t, n)
             \/ DepositFromLocker(t, n) \/ WithdrawToLocker(t, n)
      PROVE  UNCHANGED staker
  BY <1>6 DEF Deposit, Withdraw, DepositFromLocker, WithdrawToLocker
<1>7. ASSUME NEW t \in Stakers, NEW n \in StakeAmounts, NEW p \in Receipts, NEW locked \in BOOLEAN,
             StartUnstake(t, p, n, locked)
      PROVE  UNCHANGED staker
  BY <1>7 DEF StartUnstake
<1>8. ASSUME NEW p \in Receipts, EndUnstake(p) PROVE UNCHANGED staker
  BY <1>8 DEF EndUnstake
<1>9. ASSUME NEW r \in Rewarders,
             \/ \E total \in Totals, lifetime \in Lifetimes, kind \in Kinds :
                   DropReward(r, total, lifetime, kind)
             \/ ExpireReward(r)
      PROVE  UNCHANGED staker
  BY <1>9 DEF DropReward, ExpireReward
<1>10. CASE Tick \/ (\E t \in Timelocks : UpdatePool(t)) \/ UNCHANGED poolVars
  BY <1>10 DEF Tick, UpdatePool, poolVars
<1>11. UNCHANGED staker => Written
  OBVIOUS
<1> HIDE DEF Written
<1> QED BY <1>1, <1>3, <1>4, <1>5, <1>6, <1>7, <1>8, <1>9, <1>10, <1>11 DEF Next

\* A staker account, once created, stays.
LEMMA StakersStay ==
    ASSUME IInv, [Next]_poolVars, NEW s \in Stakers, staker[s].live
    PROVE  /\ staker'[s].live
           /\ (\A n \in StakeAmounts : ~Stake(s, n)) =>
                 staker'[s].last_stake_ts = staker[s].last_stake_ts
<1>1. CASE UNCHANGED staker
  BY <1>1
<1>2. ASSUME NEW t \in Stakers, NEW x \in StakerRecord, staker' = [staker EXCEPT ![t] = x]
      PROVE  staker'[t] = x /\ (s # t => staker'[s] = staker[s]) /\ x.live
  BY <1>2 DEF StakerRecord, IInv, Typed, StakerAccounts
<1> QED BY <1>1, <1>2, StakerWritten

LEMMA NextPending ==
    ASSUME IInv, TypeInv, PendingInv, [Next]_poolVars
    PROVE  PendingInv'
<1>1. \A s \in Stakers : staker[s].live => staker'[s].live
  BY StakersStay
<1>2. CASE UNCHANGED <<vaults, receipt>>
  <2>1. \A s \in Stakers :
            SumFunctionOnSet(Pending', AllSets(s)) = SumFunctionOnSet(Pending, AllSets(s))
    BY <1>2, TotalsKept
  <2> QED BY <1>1, <1>2, <2>1, PendingKept
<1>3. ASSUME UNCHANGED receipt, NEW v \in Sets, NEW b \in NatBalances,
             vaults' = [vaults EXCEPT ![v] = b], b.pending = vaults[v].pending
      PROVE  PendingInv'
  <2>1. ASSUME NEW s \in Stakers
        PROVE  SumFunctionOnSet(Pending', AllSets(s)) = SumFunctionOnSet(Pending, AllSets(s))
    <3>1. SumFunctionOnSet(Pending, AllSets(s)) \in Nat /\ vaults[v].pending \in Nat
      BY SumsTyped DEF TypeInv, VaultsOK, NatBalances
    <3>2. AllSets(s) \subseteq Sets /\ VaultsOK
      BY SetsFinite DEF TypeInv
    <3>3. CASE v \in AllSets(s)
      <4>1. SumFunctionOnSet(Pending', AllSets(s))
              = SumFunctionOnSet(Pending, AllSets(s)) - vaults[v].pending + b.pending
        BY <1>3, <3>2, <3>3, SetWrite
      <4> QED BY <1>3, <3>1, <4>1
    <3>4. CASE v \notin AllSets(s)
      BY <1>3, <3>2, <3>4, SetWrite
    <3> QED BY <3>3, <3>4
  <2> QED BY <1>1, <1>3, <2>1, PendingKept
<1>4. ASSUME NEW s \in Stakers, NEW n \in DepositAmounts,
             \/ Deposit(s, n) \/ Withdraw(s, n)
             \/ DepositFromLocker(s, n) \/ WithdrawToLocker(s, n)
      PROVE  PendingInv'
  <2>1. UNCHANGED receipt
    BY <1>4 DEF Deposit, Withdraw, DepositFromLocker, WithdrawToLocker
  <2> QED BY <1>3, <1>4, <2>1, TransferEffect DEF TypeInv
<1>5. ASSUME NEW s \in Stakers, NEW n \in StakeAmounts, Stake(s, n) PROVE PendingInv'
  <2>1. UNCHANGED receipt
    BY <1>5 DEF Stake
  <2> QED BY <1>3, <1>5, <2>1, StakeEffect DEF TypeInv
<1> QED
  BY <1>2, <1>4, <1>5, StartUnstakePending, EndUnstakePending
  DEF Next, Tick, UpdatePool, CreateStaker, UpdateStakerVault, UpdateStakerVaultLocked,
    DropReward, ClaimReward, ClaimRewardToLocker, ExpireReward, poolVars

-----------------------------------------------------------------------------
\* The queue of reward events.

QueueInv ==
    /\ queue.tail \in Nat /\ DOMAIN queue.events = 0..QueueLength - 1
    /\ \A r, q \in Rewarders :
          r # q /\ rewarder[r].live /\ rewarder[q].live =>
              rewarder[r].reward_event_q_cursor # rewarder[q].reward_event_q_cursor
    /\ QueueMatchesHistory

\* Counters less than a queue apart have slots of their own; a queue apart, one.
LEMMA Slots ==
    ASSUME NEW a \in Nat, NEW b \in Nat
    PROVE  /\ IndexOf(a) \in 0..QueueLength - 1
           /\ b < a /\ a - b < QueueLength => IndexOf(a) # IndexOf(b)
           /\ a - b = QueueLength => IndexOf(a) = IndexOf(b)
<1> DEFINE N == QueueLength
           qa == a \div N
           qb == b \div N
           ra == a % N
           rb == b % N
<1>1. N \in Nat /\ N > 0
  BY QueueLengthAssumption
<1>2. /\ qa \in Int /\ qb \in Int /\ ra \in 0..N - 1 /\ rb \in 0..N - 1
      /\ a = N * qa + ra /\ b = N * qb + rb
  BY <1>1
<1>3. IndexOf(a) = ra /\ IndexOf(b) = rb
  BY DEF IndexOf
<1> HIDE DEF N, qa, qb, ra, rb
<1>4. ASSUME b < a, a - b < N PROVE ra # rb
  <2>1. SUFFICES ASSUME ra = rb PROVE FALSE
    OBVIOUS
  <2>2. a - b = N * (qa - qb)
    BY <1>1, <1>2, <2>1
  <2>3. CASE qa - qb >= 1
    BY <1>1, <1>2, <1>4, <2>2, <2>3
  <2>4. CASE qa - qb =< 0
    BY <1>1, <1>2, <1>4, <2>2, <2>4
  <2> QED BY <1>2, <2>3, <2>4
<1>5. ASSUME a - b = N PROVE ra = rb
  <2> DEFINE d == qa - qb - 1
  <2>1. d \in Int /\ ra - rb = - (N * d)
    BY <1>1, <1>2, <1>5
  <2> HIDE DEF d
  <2>2. CASE d >= 1
    BY <1>1, <1>2, <2>1, <2>2
  <2>3. CASE d =< -1
    BY <1>1, <1>2, <2>1, <2>3
  <2>4. CASE d = 0
    BY <1>1, <1>2, <2>1, <2>4
  <2> QED BY <2>1, <2>2, <2>3, <2>4
<1> QED BY <1>2, <1>3, <1>4, <1>5 DEF N

LEMMA MinOfTwo ==
    ASSUME NEW a \in Int, NEW b \in Int
    PROVE  Min({a, b}) = IF a =< b THEN a ELSE b
<1>1. \E x \in {a, b} : \A y \in {a, b} : x =< y
  OBVIOUS
<1>2. Min({a, b}) \in {a, b} /\ \A y \in {a, b} : Min({a, b}) =< y
  BY <1>1 DEF Min
<1> QED BY <1>2

LEMMA InitQueue == Init => QueueInv
<1> SUFFICES ASSUME Init PROVE QueueInv
  OBVIOUS
<1>1. queue.head = 0 /\ queue.tail = 0 /\ DOMAIN queue.events = 0..QueueLength - 1
  BY DEF Init
<1>2. queue.head - queue.tail = Min({queue.head, QueueLength - 1})
  <2>1. QueueLength - 1 \in Int /\ 0 =< QueueLength - 1
    BY QueueLengthAssumption
  <2> QED BY <1>1, <2>1, MinOfTwo
<1>3. Queued(queue) = {}
  BY <1>1 DEF Queued
<1> QED BY <1>1, <1>2, <1>3 DEF Init, QueueInv, QueueMatchesHistory, NoAccount

LEMMA DropQueue ==
    ASSUME IInv, TypeInv, QueueInv, NEW r \in Rewarders, NEW total \in Totals,
           NEW lifetime \in Lifetimes, NEW kind \in Kinds, DropReward(r, total, lifetime, kind)
    PROVE  QueueInv'
<1> DEFINE h == queue.head
           t == queue.tail
           N == QueueLength
           e == [rewarder |-> r, ts |-> now]
<1>1. /\ h \in Nat /\ t \in Nat /\ N \in Nat /\ N > 0 /\ ~rewarder[r].live
      /\ h - t = (IF h =< N - 1 THEN h ELSE N - 1)
  <2>1. h \in Nat /\ t \in Nat /\ N \in Nat /\ N > 0 /\ ~rewarder[r].live
    BY QueueLengthAssumption DEF IInv, Typed, QueueInv, DropReward
  <2>2. N - 1 \in Int /\ h \in Int
    BY <2>1
  <2>3. Min({h, N - 1}) = IF h =< N - 1 THEN h ELSE N - 1
    BY <2>2, MinOfTwo
  <2>4. h - t = Min({h, N - 1})
    BY DEF QueueInv, QueueMatchesHistory
  <2> QED BY <2>1, <2>3, <2>4
<1>2. /\ queue'.head = h + 1
      /\ queue'.tail = (IF IndexOf(h + 1) = IndexOf(t) THEN t + 1 ELSE t)
      /\ queue'.events = [queue.events EXCEPT ![IndexOf(h)] = e]
  BY DEF DropReward, Appended
<1>3. /\ rewarder'[r].live /\ rewarder'[r].reward_event_q_cursor = h /\ rewarder'[r].start_ts = now
      /\ \A q \in Rewarders \ {r} : rewarder'[q] = rewarder[q]
      /\ DOMAIN rewarder' = Rewarders
  BY DEF DropReward, IInv, Typed, RewarderAccounts
<1> HIDE DEF h, t, N, e
<1> DEFINE t2 == queue'.tail
<1>5. /\ t2 \in Nat /\ t =< t2 /\ h + 1 - t2 = (IF h + 1 =< N - 1 THEN h + 1 ELSE N - 1)
      /\ h - t2 < N
  <2>1. CASE h < N - 1
    <3>1. t = 0 /\ h + 1 \in Nat /\ h + 1 - t < N /\ t < h + 1
      BY <1>1, <2>1
    <3>2. IndexOf(h + 1) # IndexOf(t)
      BY <1>1, <3>1, Slots DEF N
    <3> QED BY <1>1, <1>2, <2>1, <3>1, <3>2
  <2>2. CASE h >= N - 1
    <3>1. h + 1 \in Nat /\ h + 1 - t = N
      BY <1>1, <2>2
    <3>2. IndexOf(h + 1) = IndexOf(t)
      BY <1>1, <3>1, Slots DEF N
    <3> QED BY <1>1, <1>2, <2>2, <3>1, <3>2
  <2> QED BY <1>1, <2>1, <2>2
<1>6. queue'.head - queue'.tail = Min({queue'.head, QueueLength - 1})
  <2> DEFINE least == Min({h + 1, N - 1})
  <2>1. h + 1 \in Int /\ N - 1 \in Int
    BY <1>1
  <2>2. least = IF h + 1 =< N - 1 THEN h + 1 ELSE N - 1
    BY <2>1, MinOfTwo
  <2> HIDE DEF least
  <2>3. queue'.head - queue'.tail = least
    BY <1>1, <1>2, <1>5, <2>2
  <2>4. least = Min({queue'.head, N - 1})
    BY <1>2, Zenon DEF least
  <2>5. least = Min({queue'.head, QueueLength - 1})
    BY <2>4, Zenon DEF N
  <2> QED BY <2>3, <2>5, Zenon
<1>7. DOMAIN queue'.events = 0..QueueLength - 1
  BY <1>2 DEF QueueInv
<1>8. ASSUME NEW c \in t2..h
      PROVE  \E q \in Created(rewarder') :
                /\ rewarder'[q].reward_event_q_cursor = c
                /\ Event(queue', c) = [rewarder |-> q, ts |-> rewarder'[q].start_ts]
  <2>0. c \in Nat /\ IndexOf(c) \in 0..QueueLength - 1 /\ IndexOf(h) \in 0..QueueLength - 1
    BY <1>1, <1>5, Slots
  <2>1. CASE c = h
    <3>1. Event(queue', c) = e
      BY <1>2, <2>0, <2>1 DEF Event, QueueInv
    <3> QED BY <1>3, <2>1, <3>1 DEF Created, e
  <2>2. CASE c < h
    <3>1. h - c < N
      BY <1>1, <1>5, <2>0, <2>2
    <3>2. IndexOf(c) # IndexOf(h)
      BY <1>1, <2>0, <2>2, <3>1, Slots DEF N
    <3>3. Event(queue', c) = Event(queue, c)
      BY <1>2, <2>0, <3>2 DEF Event, QueueInv
    <3>4. c \in Queued(queue)
      BY <1>1, <1>5, <2>0, <2>2 DEF Queued, h, t
    <3>5. PICK q \in Created(rewarder) :
              /\ rewarder[q].reward_event_q_cursor = c
              /\ Event(queue, c) = [rewarder |-> q, ts |-> rewarder[q].start_ts]
      BY <3>4 DEF QueueInv, QueueMatchesHistory
    <3>6. q \in Rewarders /\ rewarder[q].live /\ q # r
      BY <1>1, <3>5 DEF Created, IInv, Typed, RewarderAccounts
    <3>7. rewarder'[q] = rewarder[q] /\ q \in Created(rewarder')
      BY <1>3, <3>6 DEF Created
    <3> QED BY <3>3, <3>5, <3>7
  <2> QED BY <1>1, <1>5, <2>0, <2>1, <2>2
<1>9. QueueMatchesHistory'
  <2>1. Queued(queue') = t2..h
    BY <1>1, <1>2 DEF Queued
  <2> QED BY <1>6, <1>8, <2>1 DEF QueueMatchesHistory
<1>10. ASSUME NEW q \in Rewarders, q # r, rewarder'[q].live
       PROVE  rewarder'[q].reward_event_q_cursor # rewarder'[r].reward_event_q_cursor
  BY <1>1, <1>3, <1>10 DEF TypeInv, CursorsOK, h
<1>11. \A q, p \in Rewarders :
          q # p /\ rewarder'[q].live /\ rewarder'[p].live =>
              rewarder'[q].reward_event_q_cursor # rewarder'[p].reward_event_q_cursor
  BY <1>3, <1>10 DEF QueueInv
<1> QED BY <1>5, <1>7, <1>9, <1>11 DEF QueueInv

\* An expiry leaves cursor and time of the drop.
LEMMA ExpireQueue ==
    ASSUME IInv, QueueInv, NEW r \in Rewarders, ExpireReward(r)
    PROVE  QueueInv'
<1>1. UNCHANGED queue /\ rewarder[r] \in RewarderRecord
  BY CreatedTyped DEF ExpireReward, IInv
<1>2. /\ DOMAIN rewarder' = Rewarders /\ DOMAIN rewarder = Rewarders
      /\ \A q \in Rewarders : /\ rewarder'[q].live = rewarder[q].live
                              /\ rewarder[q].live =>
                                   /\ rewarder'[q].reward_event_q_cursor = rewarder[q].reward_event_q_cursor
                                   /\ rewarder'[q].start_ts = rewarder[q].start_ts
  BY <1>1 DEF ExpireReward, IInv, Typed, RewarderAccounts, RewarderRecord
<1>3. Created(rewarder') = Created(rewarder) /\ Created(rewarder) \subseteq Rewarders
  BY <1>2 DEF Created
<1>4. \A q \in Created(rewarder) :
          /\ rewarder'[q].reward_event_q_cursor = rewarder[q].reward_event_q_cursor
          /\ rewarder'[q].start_ts = rewarder[q].start_ts
  BY <1>2, <1>3 DEF Created
<1>5. QueueMatchesHistory'
  BY <1>1, <1>3, <1>4 DEF QueueInv, QueueMatchesHistory
<1> QED BY <1>1, <1>2, <1>5 DEF QueueInv

\* Only drops and expiries change the queue, a rewarder or what was held at a
\* drop; only they and claims move what a reward has left.
LEMMA RewardsKept ==
    ASSUME [Next]_poolVars,
           \A r \in Rewarders, total \in Totals, lifetime \in Lifetimes, kind \in Kinds :
              ~DropReward(r, total, lifetime, kind),
           \A r \in Rewarders : ~ExpireReward(r)
    PROVE  /\ UNCHANGED <<queue, rewarder, held>>
           /\ \/ UNCHANGED <<fund, paid>>
              \/ \E r \in Rewarders, s \in Stakers : ClaimReward(s, r) \/ ClaimRewardToLocker(s, r)
<1> DEFINE Kept == UNCHANGED <<queue, rewarder, held, fund, paid>>
           Claims == \E r \in Rewarders, s \in Stakers : ClaimReward(s, r) \/ ClaimRewardToLocker(s, r)
<1>0. SUFFICES Kept \/ (UNCHANGED <<queue, rewarder, held>> /\ Claims)
  OBVIOUS
<1>1. CASE Tick \/ (\E t \in Timelocks : UpdatePool(t)) \/ UNCHANGED poolVars
  <2>1. Kept
    BY <1>1 DEF Tick, UpdatePool, poolVars
  <2> QED BY <2>1
<1>2. ASSUME NEW s \in Stakers,
             \/ CreateStaker(s)
             \/ \E v \in Sets : UpdateStakerVault(s, v) \/ UpdateStakerVaultLocked(s, v)
      PROVE  Kept
  BY <1>2 DEF CreateStaker, UpdateStakerVault, UpdateStakerVaultLocked
<1>3. ASSUME NEW s \in Stakers, NEW n \in DepositAmounts,
             \/ Deposit(s, n) \/ Withdraw(s, n)
             \/ DepositFromLocker(s, n) \/ WithdrawToLocker(s, n)
      PROVE  Kept
  BY <1>3 DEF Deposit, Withdraw, DepositFromLocker, WithdrawToLocker
<1>4. ASSUME NEW s \in Stakers, NEW n \in StakeAmounts,
             Stake(s, n) \/ \E p \in Receipts, locked \in BOOLEAN : StartUnstake(s, p, n, locked)
      PROVE  Kept
  BY <1>4 DEF Stake, StartUnstake
<1>5. ASSUME NEW p \in Receipts, EndUnstake(p) PROVE Kept
  BY <1>5 DEF EndUnstake
<1>6. ASSUME NEW s \in Stakers, NEW r \in Rewarders, ClaimReward(s, r) \/ ClaimRewardToLocker(s, r)
      PROVE  UNCHANGED <<queue, rewarder, held>> /\ Claims
  BY <1>6 DEF ClaimReward, ClaimRewardToLocker
<1> HIDE DEF Kept, Claims
<1>7. CASE Next
  <2>1. CASE \E s \in Stakers :
                \/ CreateStaker(s)
                \/ \E v \in Sets : UpdateStakerVault(s, v) \/ UpdateStakerVaultLocked(s, v)
    BY <1>2, <2>1
  <2>2. CASE \E s \in Stakers, n \in DepositAmounts :
                \/ Deposit(s, n) \/ Withdraw(s, n)
                \/ DepositFromLocker(s, n) \/ WithdrawToLocker(s, n)
    BY <1>3, <2>2
  <2>3. CASE \E s \in Stakers, n \in StakeAmounts :
                Stake(s, n) \/ \E p \in Receipts, locked \in BOOLEAN : StartUnstake(s, p, n, locked)
    BY <1>4, <2>3
  <2>4. CASE \E s \in Stakers, r \in Rewarders : ClaimReward(s, r) \/ ClaimRewardToLocker(s, r)
    BY <1>6, <2>4
  <2> QED BY <1>1, <1>5, <1>7, <2>1, <2>2, <2>3, <2>4 DEF Next
<1> QED BY <1>1, <1>7

LEMMA NextQueue ==
    ASSUME IInv, TypeInv, QueueInv, [Next]_poolVars
    PROVE  QueueInv'
<1>1. CASE UNCHANGED <<queue, rewarder>>
  BY <1>1 DEF QueueInv, QueueMatchesHistory
<1>2. CASE /\ \A r \in Rewarders, total \in Totals, lifetime \in Lifetimes, kind \in Kinds :
                 ~DropReward(r, total, lifetime, kind)
           /\ \A r \in Rewarders : ~ExpireReward(r)
  BY <1>1, <1>2, RewardsKept
<1> QED BY <1>2, DropQueue, ExpireQueue

-----------------------------------------------------------------------------
\* What stakers held when a reward was dropped.

HeldInv ==
    /\ held \in [Rewarders -> [Stakers -> Nat]]
    /\ \A r \in Rewarders : rewarder[r].live => rewarder[r].start_ts \in 1..now
    /\ \A r \in Rewarders, s \in Stakers :
          /\ rewarder[r].live
          /\ staker[s].live => staker[s].last_stake_ts < rewarder[r].start_ts
          => AllPoolTokens(s) =< held[r][s]

\* Pool tokens of a staker come from its own stake instructions.
LEMMA TokensFromStake ==
    ASSUME IInv, TypeInv, [Next]_poolVars, NEW s \in Stakers,
           \A n \in StakeAmounts : ~Stake(s, n)
    PROVE  AllPoolTokens(s)' =< AllPoolTokens(s)
<1> DEFINE all == AllPoolTokens(s)
           all2 == AllPoolTokens(s)'
<1>0. SUFFICES all2 =< all
  OBVIOUS
<1>1. all \in Nat /\ VaultsOK /\ AllSets(s) \subseteq Sets
  BY SumsTyped, SetsFinite DEF AllPoolTokens, TypeInv
<1>2. CASE UNCHANGED vaults
  <2>1. all2 = all
    BY <1>2, TotalsKept DEF AllPoolTokens
  <2> QED BY <1>1, <2>1
<1>3. ASSUME NEW v \in Sets, NEW b \in NatBalances, vaults' = [vaults EXCEPT ![v] = b],
             b.pool_token =< vaults[v].pool_token \/ v \notin AllSets(s)
      PROVE  all2 =< all
  <2>1. vaults[v].pool_token \in Int /\ b.pool_token \in Int
    BY <1>1 DEF VaultsOK, NatBalances
  <2>2. CASE v \in AllSets(s)
    <3>1. all2 = all - vaults[v].pool_token + b.pool_token
      BY <1>1, <1>3, <2>2, SetWrite DEF AllPoolTokens
    <3> HIDE DEF all, all2
    <3> QED BY <1>1, <1>3, <2>1, <2>2, <3>1
  <2>3. CASE v \notin AllSets(s)
    <3>1. all2 = all
      BY <1>1, <1>3, <2>3, SetWrite DEF AllPoolTokens
    <3> HIDE DEF all, all2
    <3> QED BY <1>1, <3>1
  <2> QED BY <2>2, <2>3
<1> HIDE DEF all, all2
<1>4. ASSUME NEW t \in Stakers, NEW n \in DepositAmounts,
             \/ Deposit(t, n) \/ Withdraw(t, n)
             \/ DepositFromLocker(t, n) \/ WithdrawToLocker(t, n)
      PROVE  all2 =< all
  <2>1. PICK v \in Sets, b \in NatBalances :
            /\ vaults' = [vaults EXCEPT ![v] = b]
            /\ b.pool_token = vaults[v].pool_token
    BY <1>1, <1>4, TransferEffect
  <2>2. b.pool_token \in Int
    BY DEF NatBalances
  <2>3. b.pool_token =< vaults[v].pool_token
    BY <2>1, <2>2
  <2> QED BY <1>3, <2>1, <2>3
<1>5. ASSUME NEW t \in Stakers, NEW n \in StakeAmounts, Stake(t, n) PROVE all2 =< all
  <2>1. t # s
    BY <1>5
  <2>2. staker[t].staker_vault \in AllSets(t)
    BY <1>5, OwnSets DEF Stake, TypeInv
  <2>3. staker[t].staker_vault \notin AllSets(s)
    BY <2>1, <2>2, OneOwner
  <2> QED BY <1>1, <1>3, <1>5, <2>3, StakeEffect
<1>6. ASSUME NEW t \in Stakers, NEW p \in Receipts, NEW n \in StakeAmounts, NEW locked \in BOOLEAN,
             StartUnstake(t, p, n, locked)
      PROVE  all2 =< all
  <2> DEFINE v == staker[t].staker_vault
  <2>1. PICK b \in NatBalances : /\ v \in Sets /\ vaults' = [vaults EXCEPT ![v] = b]
                                 /\ b.pool_token = vaults[v].pool_token - n
    BY <1>1, <1>6, StartUnstakeEffect
  <2>2. n \in Nat /\ vaults[v].pool_token \in Int
    BY <1>1, <2>1, AmountsAssumption DEF VaultsOK, NatBalances
  <2> HIDE DEF v
  <2>3. b.pool_token =< vaults[v].pool_token
    BY <2>1, <2>2
  <2> QED BY <1>3, <2>1, <2>3
<1>7. ASSUME NEW p \in Receipts, EndUnstake(p) PROVE all2 =< all
  <2>1. PICK b \in NatBalances :
            /\ ReceiptSet(p) \in Sets /\ vaults' = [vaults EXCEPT ![ReceiptSet(p)] = b]
            /\ b.pool_token = vaults[ReceiptSet(p)].pool_token
    BY <1>1, <1>7, EndUnstakeEffect DEF TypeInv
  <2>2. b.pool_token \in Int
    BY DEF NatBalances
  <2>3. b.pool_token =< vaults[ReceiptSet(p)].pool_token
    BY <2>1, <2>2
  <2> QED BY <1>3, <2>1, <2>3
<1>8. ASSUME NEW t \in Stakers,
             \/ CreateStaker(t)
             \/ \E v \in Sets : UpdateStakerVault(t, v) \/ UpdateStakerVaultLocked(t, v)
             \/ \E r \in Rewarders : ClaimReward(t, r) \/ ClaimRewardToLocker(t, r)
      PROVE  UNCHANGED vaults
  BY <1>8 DEF CreateStaker, UpdateStakerVault, UpdateStakerVaultLocked, ClaimReward,
    ClaimRewardToLocker
<1>9. ASSUME NEW r \in Rewarders,
             \/ \E total \in Totals, lifetime \in Lifetimes, kind \in Kinds :
                   DropReward(r, total, lifetime, kind)
             \/ ExpireReward(r)
      PROVE  UNCHANGED vaults
  BY <1>9 DEF DropReward, ExpireReward
<1>10. CASE Tick \/ (\E t \in Timelocks : UpdatePool(t)) \/ UNCHANGED poolVars
  BY <1>2, <1>10 DEF Tick, UpdatePool, poolVars
<1>11. CASE Next
  <2>1. CASE \E t \in Stakers, n \in DepositAmounts :
                \/ Deposit(t, n) \/ Withdraw(t, n)
                \/ DepositFromLocker(t, n) \/ WithdrawToLocker(t, n)
    BY <1>4, <2>1
  <2>2. CASE \E t \in Stakers, n \in StakeAmounts :
                Stake(t, n) \/ \E p \in Receipts, locked \in BOOLEAN : StartUnstake(t, p, n, locked)
    BY <1>5, <1>6, <2>2
  <2>3. CASE \E t \in Stakers :
                \/ CreateStaker(t)
                \/ \E v \in Sets : UpdateStakerVault(t, v) \/ UpdateStakerVaultLocked(t, v)
                \/ \E r \in Rewarders : ClaimReward(t, r) \/ ClaimRewardToLocker(t, r)
    BY <1>2, <1>8, <2>3
  <2>4. CASE \E r \in Rewarders :
                \/ \E total \in Totals, lifetime \in Lifetimes, kind \in Kinds :
                      DropReward(r, total, lifetime, kind)
                \/ ExpireReward(r)
    BY <1>2, <1>9, <2>4
  <2> QED BY <1>7, <1>10, <1>11, <2>1, <2>2, <2>3, <2>4 DEF Next
<1> QED BY <1>10, <1>11

LEMMA TokensTyped ==
    ASSUME IInv, TypeInv, [Next]_poolVars, NEW s \in Stakers
    PROVE  AllPoolTokens(s) \in Nat /\ AllPoolTokens(s)' \in Nat
<1> DEFINE pools2 == PoolTokens'
<1>1. \A v \in AllSets(s) : pools2[v] \in Nat
  BY SetsFinite, NextTypeInv DEF TypeInv, VaultsOK, NatBalances, PoolTokens
<1> HIDE DEF pools2
<1>2. SumFunctionOnSet(pools2, AllSets(s)) \in Nat
  BY <1>1, SetsFinite, SumNat
<1>3. AllPoolTokens(s)' \in Nat
  BY <1>2 DEF pools2, AllPoolTokens
<1> QED BY <1>3, SumsTyped DEF AllPoolTokens

\* The clock does not go back.
LEMMA ClockForward ==
    ASSUME IInv, [Next]_poolVars
    PROVE  now' \in Int /\ now =< now'
<1>1. now \in Int
  BY DEF IInv, Typed
<1>2. CASE Tick
  BY <1>1, <1>2 DEF Tick
<1>3. CASE UNCHANGED now
  BY <1>1, <1>3
<1>4. ASSUME NEW s \in Stakers, NEW n \in DepositAmounts,
             \/ Deposit(s, n) \/ Withdraw(s, n)
             \/ DepositFromLocker(s, n) \/ WithdrawToLocker(s, n)
      PROVE  UNCHANGED now
  BY <1>4 DEF Deposit, Withdraw, DepositFromLocker, WithdrawToLocker
<1>5. ASSUME NEW s \in Stakers,
             \/ CreateStaker(s)
             \/ \E v \in Sets : UpdateStakerVault(s, v) \/ UpdateStakerVaultLocked(s, v)
             \/ \E r \in Rewarders : ClaimReward(s, r) \/ ClaimRewardToLocker(s, r)
      PROVE  UNCHANGED now
  BY <1>5 DEF CreateStaker, UpdateStakerVault, UpdateStakerVaultLocked, ClaimReward,
    ClaimRewardToLocker
<1>6. ASSUME NEW s \in Stakers, NEW n \in StakeAmounts,
             Stake(s, n) \/ \E p \in Receipts, locked \in BOOLEAN : StartUnstake(s, p, n, locked)
      PROVE  UNCHANGED now
  BY <1>6 DEF Stake, StartUnstake
<1>7. ASSUME NEW p \in Receipts, EndUnstake(p) PROVE UNCHANGED now
  BY <1>7 DEF EndUnstake
<1>8. ASSUME NEW r \in Rewarders,
             \/ \E total \in Totals, lifetime \in Lifetimes, kind \in Kinds :
                   DropReward(r, total, lifetime, kind)
             \/ ExpireReward(r)
      PROVE  UNCHANGED now
  BY <1>8 DEF DropReward, ExpireReward
<1>9. CASE (\E t \in Timelocks : UpdatePool(t)) \/ UNCHANGED poolVars
  BY <1>3, <1>9 DEF UpdatePool, poolVars
<1>10. CASE Next
  <2>1. CASE \E s \in Stakers :
                \/ CreateStaker(s)
                \/ \E v \in Sets : UpdateStakerVault(s, v) \/ UpdateStakerVaultLocked(s, v)
                \/ \E r \in Rewarders : ClaimReward(s, r) \/ ClaimRewardToLocker(s, r)
    BY <1>3, <1>5, <2>1
  <2>2. CASE \E s \in Stakers, n \in DepositAmounts :
                \/ Deposit(s, n) \/ Withdraw(s, n)
                \/ DepositFromLocker(s, n) \/ WithdrawToLocker(s, n)
    BY <1>3, <1>4, <2>2
  <2>3. CASE \E s \in Stakers, n \in StakeAmounts :
                Stake(s, n) \/ \E p \in Receipts, locked \in BOOLEAN : StartUnstake(s, p, n, locked)
    BY <1>3, <1>6, <2>3
  <2>4. CASE \E r \in Rewarders :
                \/ \E total \in Totals, lifetime \in Lifetimes, kind \in Kinds :
                      DropReward(r, total, lifetime, kind)
                \/ ExpireReward(r)
    BY <1>3, <1>8, <2>4
  <2> QED BY <1>2, <1>3, <1>7, <1>9, <1>10, <2>1, <2>2, <2>3, <2>4 DEF Next
<1> QED BY <1>9, <1>10

LEMMA InitHeld == Init => HeldInv
BY DEF Init, HeldInv, NoAccount

\* A drop records what each staker holds.
LEMMA DropHeld ==
    ASSUME IInv, TypeInv, HeldInv, NEW r \in Rewarders, NEW total \in Totals,
           NEW lifetime \in Lifetimes, NEW kind \in Kinds, DropReward(r, total, lifetime, kind)
    PROVE  HeldInv'
<1>1. /\ UNCHANGED <<now, staker, vaults>>
      /\ held' = [held EXCEPT ![r] = [s \in Stakers |-> AllPoolTokens(s)]]
      /\ \A q \in Rewarders \ {r} : rewarder'[q] = rewarder[q]
      /\ rewarder'[r].start_ts = now
  BY DEF DropReward, IInv, Typed, RewarderAccounts
<1>2. \A s \in Stakers : AllPoolTokens(s)' = AllPoolTokens(s) /\ AllPoolTokens(s) \in Nat
  BY <1>1, SumsTyped, TotalsKept DEF AllPoolTokens
<1>3. held' \in [Rewarders -> [Stakers -> Nat]]
  BY <1>1, <1>2 DEF HeldInv
<1>4. now \in 1..now
  BY DEF TypeInv
<1>5. \A s \in Stakers : AllPoolTokens(s)' =< held'[r][s]
  BY <1>1, <1>2 DEF HeldInv
<1>6. ASSUME NEW q \in Rewarders, NEW s \in Stakers, rewarder'[q].live,
             staker'[s].live => staker'[s].last_stake_ts < rewarder'[q].start_ts
      PROVE  AllPoolTokens(s)' =< held'[q][s]
  <2>1. CASE q = r
    BY <1>5, <2>1
  <2>2. CASE q # r
    <3>1. held'[q] = held[q] /\ rewarder'[q] = rewarder[q]
      BY <1>1, <2>2 DEF HeldInv
    <3> QED BY <1>1, <1>2, <1>6, <3>1 DEF HeldInv
  <2> QED BY <2>1, <2>2
<1>7. \A q \in Rewarders : rewarder'[q].live => rewarder'[q].start_ts \in 1..now'
  BY <1>1, <1>4 DEF HeldInv
<1> QED BY <1>3, <1>6, <1>7 DEF HeldInv

\* A staker eligible for a reward by its last stake was so before the step, and
\* has not staked in it.
LEMMA LastStakeBefore ==
    ASSUME IInv, TypeInv, [Next]_poolVars, NEW s \in Stakers, NEW x \in 1..now,
           staker'[s].live => staker'[s].last_stake_ts < x
    PROVE  /\ staker[s].live => staker[s].last_stake_ts < x
           /\ AllPoolTokens(s)' =< AllPoolTokens(s)
<1>1. ASSUME NEW n \in StakeAmounts, Stake(s, n) PROVE FALSE
  <2>1. staker[s] \in StakerRecord
    BY <1>1, CreatedTyped DEF Stake, HasVault, IInv
  <2>2. staker'[s].live /\ staker'[s].last_stake_ts = now
    BY <1>1, <2>1 DEF Stake, StakeTime, IInv, Typed, StakerAccounts, StakerRecord
  <2> QED BY <2>2 DEF TypeInv
<1>2. AllPoolTokens(s)' =< AllPoolTokens(s)
  BY <1>1, TokensFromStake
<1>3. staker[s].live => staker'[s].live /\ staker'[s].last_stake_ts = staker[s].last_stake_ts
  BY <1>1, StakersStay
<1> QED BY <1>2, <1>3

LEMMA NextHeld ==
    ASSUME IInv, TypeInv, HeldInv, [Next]_poolVars
    PROVE  HeldInv'
<1>1. ASSUME UNCHANGED held, DOMAIN rewarder' = Rewarders,
             \A r \in Rewarders : /\ rewarder'[r].live = rewarder[r].live
                                  /\ rewarder[r].live => rewarder'[r].start_ts = rewarder[r].start_ts
      PROVE  HeldInv'
  <2>1. now =< now' /\ now' \in Int /\ now \in Int
    BY ClockForward DEF IInv, Typed
  <2>2. \A r \in Rewarders : rewarder'[r].live => rewarder'[r].start_ts \in 1..now'
    BY <1>1, <2>1 DEF HeldInv
  <2>3. ASSUME NEW r \in Rewarders, NEW s \in Stakers, rewarder'[r].live,
               staker'[s].live => staker'[s].last_stake_ts < rewarder'[r].start_ts
        PROVE  AllPoolTokens(s)' =< held'[r][s]
    <3>1. rewarder[r].live /\ rewarder'[r].start_ts = rewarder[r].start_ts
      BY <1>1, <2>3
    <3>2. rewarder[r].start_ts \in 1..now
      BY <3>1 DEF HeldInv
    <3>3. /\ staker[s].live => staker[s].last_stake_ts < rewarder[r].start_ts
          /\ AllPoolTokens(s)' =< AllPoolTokens(s)
      BY <2>3, <3>1, <3>2, LastStakeBefore
    <3>4. AllPoolTokens(s) =< held[r][s] /\ held'[r][s] = held[r][s]
      BY <1>1, <3>1, <3>3 DEF HeldInv
    <3>5. AllPoolTokens(s) \in Nat /\ AllPoolTokens(s)' \in Nat /\ held[r][s] \in Nat
      BY TokensTyped DEF HeldInv
    <3> QED BY <3>3, <3>4, <3>5
  <2> QED BY <1>1, <2>2, <2>3 DEF HeldInv
<1>2. CASE UNCHANGED <<rewarder, held>>
  BY <1>1, <1>2 DEF IInv, Typed, RewarderAccounts
<1>3. ASSUME NEW r \in Rewarders, ExpireReward(r) PROVE HeldInv'
  <2>1. rewarder[r] \in RewarderRecord
    BY <1>3, CreatedTyped DEF ExpireReward, IInv
  <2> QED BY <1>1, <1>3, <2>1 DEF ExpireReward, IInv, Typed, RewarderAccounts, RewarderRecord
<1>4. CASE /\ \A r \in Rewarders, total \in Totals, lifetime \in Lifetimes, kind \in Kinds :
                 ~DropReward(r, total, lifetime, kind)
           /\ \A r \in Rewarders : ~ExpireReward(r)
  BY <1>2, <1>4, RewardsKept
<1> QED BY <1>3, <1>4, DropHeld

\* The two sets a claim counts are two terms of the staker's total.
LEMMA TwoVaults ==
    ASSUME IInv, TypeInv, NEW s \in Stakers, HasTwoVaults(s)
    PROVE  PoolTokenTotal(s) \in Nat /\ PoolTokenTotal(s) =< AllPoolTokens(s)
<1> DEFINE a == staker[s].staker_vault
           b == staker[s].staker_vault_locked
           pools == PoolTokens
           A == AllSets(s)
<1>1. a \in A /\ b \in A /\ a # b
  BY OwnSets DEF TypeInv, HasTwoVaults
<1>2. \A v \in A : pools[v] \in Nat
  BY SetsFinite DEF TypeInv, VaultsOK, NatBalances, PoolTokens
<1>3. PoolTokenTotal(s) = pools[a] + pools[b]
  BY <1>1, SetsFinite DEF PoolTokenTotal, PoolTokens
<1>4. IsFiniteSet(A) /\ IsFiniteSet(A \ {a})
  BY SetsFinite, FS_Subset
<1> HIDE DEF a, b, pools, A
<1> DEFINE all == SumFunctionOnSet(pools, A)
           rest == SumFunctionOnSet(pools, A \ {a})
<1>5. all = pools[a] + rest
  BY <1>1, <1>2, <1>4, SumRemove
<1>6. pools[b] =< rest
  BY <1>1, <1>2, <1>4, SumTerm
<1>7. rest \in Nat
  BY <1>2, <1>4, SumNat
<1>8. AllPoolTokens(s) = all
  BY DEF AllPoolTokens, pools, A
<1> HIDE DEF all, rest
<1> QED BY <1>1, <1>2, <1>3, <1>5, <1>6, <1>7, <1>8

LEMMA HeldEligible ==
    ASSUME IInv, TypeInv, HeldInv
    PROVE  EligibleHeldAtDrop
<1> SUFFICES ASSUME NEW s \in Stakers, NEW r \in Created(rewarder),
                    HasTwoVaults(s), staker[s].last_stake_ts < rewarder[r].start_ts
             PROVE  PoolTokenTotal(s) =< held[r][s]
  BY DEF EligibleHeldAtDrop
<1>1. r \in Rewarders /\ rewarder[r].live
  BY DEF Created, IInv, Typed, RewarderAccounts
<1>2. AllPoolTokens(s) =< held[r][s] /\ held[r][s] \in Nat
  BY <1>1 DEF HeldInv
<1>3. AllPoolTokens(s) \in Nat
  BY SumsTyped DEF AllPoolTokens
<1> QED BY <1>2, <1>3, TwoVaults

-----------------------------------------------------------------------------
\* What a reward has left.

FundInv ==
    /\ paid \in [Rewarders -> [Stakers -> Nat]]
    /\ \A r \in Rewarders : rewarder[r].live =>
          /\ SumFunctionOnSet(held[r], Stakers) =< rewarder[r].pool_token_supply
          /\ ~rewarder[r].expired =>
                fund[r] + SumFunctionOnSet(paid[r], Stakers) = rewarder[r].total

LEMMA InitFund == Init => FundInv
BY DEF Init, FundInv, NoAccount

\* What is held at a drop is at most the supply it stores.
LEMMA HeldAtMostSupply ==
    ASSUME IInv, TypeInv
    PROVE  SumFunctionOnSet([s \in Stakers |-> AllPoolTokens(s)], Stakers) =< supply
<1> DEFINE pools == PoolTokens
           part == [s \in Stakers |-> AllSets(s)]
<1>1. IsFiniteSet(Sets) /\ IsFiniteSet(Stakers)
  BY AccountsAssumption
<1>2. \A v \in Sets : pools[v] \in Nat
  BY DEF TypeInv, VaultsOK, NatBalances, PoolTokens
<1>3. /\ \A s \in Stakers : part[s] \subseteq Sets
      /\ \A s, t \in Stakers : s # t => part[s] \cap part[t] = {}
  BY SetsAssumption
<1>4. [s \in Stakers |-> AllPoolTokens(s)] = [s \in Stakers |-> SumFunctionOnSet(pools, part[s])]
  BY DEF AllPoolTokens
<1>5. supply = SumFunctionOnSet(pools, Sets)
  BY DEF TypeInv, SupplyIsHeld
<1> HIDE DEF pools, part
<1>6. SumFunctionOnSet([s \in Stakers |-> SumFunctionOnSet(pools, part[s])], Stakers)
        =< SumFunctionOnSet(pools, Sets)
  BY <1>1, <1>2, <1>3, SumOfParts
<1> QED BY <1>4, <1>5, <1>6

LEMMA DropFund ==
    ASSUME IInv, TypeInv, HeldInv, FundInv, NEW r \in Rewarders, NEW total \in Totals,
           NEW lifetime \in Lifetimes, NEW kind \in Kinds, DropReward(r, total, lifetime, kind)
    PROVE  FundInv'
<1>1. /\ UNCHANGED paid /\ ~rewarder[r].live
      /\ held' = [held EXCEPT ![r] = [s \in Stakers |-> AllPoolTokens(s)]]
      /\ fund'[r] = total
      /\ rewarder'[r].pool_token_supply = supply /\ rewarder'[r].total = total
      /\ \A q \in Rewarders \ {r} : rewarder'[q] = rewarder[q] /\ fund'[q] = fund[q]
  BY DEF DropReward, IInv, Typed, RewarderAccounts
<1>2. held'[r] = [s \in Stakers |-> AllPoolTokens(s)] /\ \A q \in Rewarders \ {r} : held'[q] = held[q]
  BY <1>1 DEF HeldInv
<1>3. SumFunctionOnSet(held'[r], Stakers) =< rewarder'[r].pool_token_supply
  BY <1>1, <1>2, HeldAtMostSupply
<1>4. fund'[r] + SumFunctionOnSet(paid'[r], Stakers) = rewarder'[r].total
  <2>1. \A s \in Stakers : paid'[r][s] = 0
    BY <1>1 DEF IInv, PaidIsBehind
  <2>2. SumFunctionOnSet(paid'[r], Stakers) = 0
    BY <2>1, AccountsAssumption, SumZero
  <2>3. total \in Int
    BY AmountsAssumption
  <2> QED BY <1>1, <2>2, <2>3
<1> QED BY <1>1, <1>2, <1>3, <1>4 DEF FundInv

\* A claim moves what it pays from the fund to the staker.
LEMMA ClaimFund ==
    ASSUME IInv, TypeInv, FundInv, NEW r \in Rewarders, NEW s \in Stakers,
           ClaimReward(s, r) \/ ClaimRewardToLocker(s, r)
    PROVE  FundInv'
<1> DEFINE m == RewardAmount(r, PoolTokenTotal(s))
           old == paid[r]
           new == paid'[r]
<1>1. /\ Claimable(s, r) /\ UNCHANGED <<rewarder, held>> /\ m > 0
      /\ fund' = [fund EXCEPT ![r] = @ - m] /\ paid' = [paid EXCEPT ![r][s] = @ + m]
  BY DEF ClaimReward, ClaimRewardToLocker, Claimed, Claimable
<1>2. m \in Nat /\ fund[r] \in Nat
  BY <1>1, ClaimAmount DEF TypeInv, FundsOK
<1> HIDE DEF m
<1>3. /\ old[s] \in Nat /\ new[s] = old[s] + m
      /\ \A t \in Stakers : old[t] \in Nat
      /\ \A t \in Stakers \ {s} : new[t] = old[t]
      /\ fund'[r] = fund[r] - m
      /\ \A q \in Rewarders \ {r} : paid'[q] = paid[q] /\ fund'[q] = fund[q]
  BY <1>1 DEF FundInv, TypeInv, FundsOK
<1>4. paid' \in [Rewarders -> [Stakers -> Nat]]
  <2>1. old[s] + m \in Nat
    BY <1>2, <1>3
  <2> QED BY <1>1, <2>1 DEF FundInv
<1> HIDE DEF old, new
<1> DEFINE before == SumFunctionOnSet(old, Stakers)
           after == SumFunctionOnSet(new, Stakers)
<1>5. after = before - old[s] + new[s]
  BY <1>2, <1>3, AccountsAssumption, SumUpdate
<1>6. before \in Int
  BY <1>3, AccountsAssumption, SumInt
<1> HIDE DEF before, after
<1>7. fund'[r] + after = fund[r] + before
  BY <1>2, <1>3, <1>5, <1>6
<1>8. fund'[r] + SumFunctionOnSet(paid'[r], Stakers) = fund[r] + SumFunctionOnSet(paid[r], Stakers)
  BY <1>7 DEF before, after, old, new
<1> QED BY <1>1, <1>3, <1>4, <1>8 DEF FundInv

LEMMA NextFund ==
    ASSUME IInv, TypeInv, HeldInv, FundInv, [Next]_poolVars
    PROVE  FundInv'
<1>1. ASSUME NEW r \in Rewarders, ExpireReward(r) PROVE FundInv'
  <2>1. rewarder[r] \in RewarderRecord
    BY <1>1, CreatedTyped DEF ExpireReward, IInv
  <2>2. /\ UNCHANGED <<paid, held>>
        /\ rewarder'[r].expired /\ rewarder'[r].pool_token_supply = rewarder[r].pool_token_supply
        /\ rewarder[r].live
        /\ \A q \in Rewarders \ {r} : rewarder'[q] = rewarder[q] /\ fund'[q] = fund[q]
    BY <1>1, <2>1 DEF ExpireReward, IInv, Typed, RewarderAccounts, RewarderRecord
  <2> QED BY <2>2 DEF FundInv
<1>2. CASE UNCHANGED <<rewarder, held, fund, paid>>
  BY <1>2 DEF FundInv
<1>3. CASE /\ \A r \in Rewarders, total \in Totals, lifetime \in Lifetimes, kind \in Kinds :
                 ~DropReward(r, total, lifetime, kind)
           /\ \A r \in Rewarders : ~ExpireReward(r)
  BY <1>2, <1>3, RewardsKept, ClaimFund
<1> QED BY <1>1, <1>3, DropFund

\* Rounded down, a share times what it is a share of.
LEMMA ShareBound ==
    ASSUME NEW n \in Nat, NEW h \in Nat, n =< h, NEW total \in Nat, NEW P \in Nat, P > 0
    PROVE  (n * total) \div P \in Nat /\ P * ((n * total) \div P) =< total * h
<1> DEFINE m == n * total
           q == m \div P
<1>1. m \in Nat /\ m =< total * h
  <2>1. (h - n) * total \in Nat
    <3>1. h - n \in Nat
      OBVIOUS
    <3> QED BY <3>1
  <2>2. total * h = m + (h - n) * total
    OBVIOUS
  <2>3. m \in Nat
    OBVIOUS
  <2> QED BY <2>1, <2>2, <2>3
<1> HIDE DEF m
<1>2. q \in Int /\ m = P * q + (m % P) /\ (m % P) \in 0..P - 1
  BY <1>1
<1>3. q \in Nat
  BY <1>1
<1> HIDE DEF q
<1>4. P * q \in Int /\ total * h \in Int
  BY <1>3
<1> DEFINE pq == P * q
           th == total * h
<1>5. pq =< m
  <2> HIDE DEF pq
  <2> QED BY <1>1, <1>2, <1>4 DEF pq
<1> HIDE DEF pq, th
<1>6. pq =< th
  BY <1>1, <1>4, <1>5 DEF pq, th
<1> QED BY <1>3, <1>6 DEF pq, th, q, m

\* The same for what was paid.
LEMMA PaidShare ==
    ASSUME IInv, HeldInv, FundInv, NEW r \in Rewarders, NEW s \in Stakers, PaidForHeld(r),
           rewarder[r].total \in Nat, rewarder[r].pool_token_supply \in Nat,
           rewarder[r].pool_token_supply > 0
    PROVE  rewarder[r].pool_token_supply * paid[r][s] =< rewarder[r].total * held[r][s]
<1> DEFINE P == rewarder[r].pool_token_supply
           total == rewarder[r].total
           h == held[r][s]
           p == paid[r][s]
<1>1. p \in Nat /\ h \in Nat /\ total * h \in Nat
  BY DEF FundInv, HeldInv
<1>2. CASE p = 0
  BY <1>1, <1>2
<1>3. CASE p > 0
  <2> DEFINE a == (h * total) \div P
  <2>1. p =< a
    BY <1>3 DEF PaidForHeld, RewardAmount
  <2>2. a \in Nat /\ P * a =< total * h
    BY <1>1, ShareBound
  <2> HIDE DEF a, P, total, h, p
  <2>3. P * p =< P * a
    <3>1. P \in Nat /\ P * (a - p) >= 0
      BY <1>1, <2>1, <2>2 DEF P
    <3> QED BY <1>1, <2>2, <3>1
  <2>4. P * p \in Int /\ P * a \in Int /\ total * h \in Int
    BY <1>1, <2>2 DEF P
  <2> DEFINE pp == P * p
             pa == P * a
             th == total * h
  <2>5. pp =< pa /\ pa =< th /\ pp \in Int /\ pa \in Int /\ th \in Int
    BY <2>2, <2>3, <2>4
  <2>6. pp =< th
    <3> HIDE DEF pp, pa, th
    <3> QED BY <2>5
  <2> QED BY <2>6 DEF P, total, h, p
<1> QED BY <1>1, <1>2, <1>3

\* Shares of a reward for at most what was held at the drop never add up to more
\* than the reward; what is due is what is left of it or less.
LEMMA Solvent ==
    ASSUME IInv, TypeInv, HeldInv, FundInv
    PROVE  RewardsStaySolvent
<1> SUFFICES ASSUME NEW r \in Created(rewarder), ~rewarder[r].expired,
                    rewarder[r].pool_token_supply > 0, PaidForHeld(r)
             PROVE  SumFunctionOnSet([s \in Stakers |-> RewardAmount(r, PoolTokenTotal(s))], Due(r))
                      =< fund[r]
  BY DEF RewardsStaySolvent
<1> DEFINE P == rewarder[r].pool_token_supply
           total == rewarder[r].total
           D == Due(r)
           E == Stakers \ D
           gave == paid[r]
           had == held[r]
           due == [s \in Stakers |-> RewardAmount(r, PoolTokenTotal(s))]
           out == [s \in Stakers |-> IF s \in D THEN due[s] ELSE gave[s]]
<1>1. r \in Rewarders /\ rewarder[r].live /\ total \in Nat /\ P \in Nat /\ P > 0 /\ fund[r] \in Nat
  <2>1. r \in Rewarders /\ rewarder[r].live
    BY DEF Created, IInv, Typed, RewarderAccounts
  <2>2. rewarder[r] \in RewarderRecord
    BY <2>1, CreatedTyped DEF IInv
  <2>3. rewarder[r].total \in Nat /\ rewarder[r].pool_token_supply \in Int
    BY <2>2 DEF RewarderRecord
  <2>4. fund[r] \in Nat
    BY <2>1 DEF TypeInv, FundsOK
  <2> QED BY <2>1, <2>3, <2>4
<1>2. IsFiniteSet(Stakers) /\ D \subseteq Stakers /\ IsFiniteSet(D) /\ IsFiniteSet(E)
  <2>1. D \subseteq Stakers
    BY DEF Due
  <2> QED BY <2>1, AccountsAssumption, FS_Subset
<1>3. \A s \in Stakers : gave[s] \in Nat /\ had[s] \in Nat
  BY <1>1 DEF FundInv, HeldInv
<1>4. ASSUME NEW s \in D
      PROVE  gave[s] = 0 /\ due[s] \in Nat /\ P * due[s] =< total * had[s]
  <2>1. s \in Stakers /\ HasTwoVaults(s) /\ Eligible(s, r) /\ staker[s].last_stake_ts < rewarder[r].start_ts
    BY DEF Due
  <2>2. gave[s] = 0
    <3>1. staker[s].live /\ staker[s] \in StakerRecord /\ rewarder[r] \in RewarderRecord
      BY <1>1, <2>1, CreatedTyped DEF HasTwoVaults, HasVault, IInv
    <3>2. staker[s].rewards_cursor \in Nat /\ rewarder[r].reward_event_q_cursor \in Nat
      BY <3>1 DEF StakerRecord, RewarderRecord
    <3>3. staker[s].rewards_cursor =< rewarder[r].reward_event_q_cursor
      BY <2>1 DEF Eligible
    <3>4. ~(rewarder[r].reward_event_q_cursor < staker[s].rewards_cursor)
      BY <3>2, <3>3
    <3> QED BY <1>1, <2>1, <3>4 DEF IInv, PaidIsBehind
  <2>3. PoolTokenTotal(s) \in Nat /\ PoolTokenTotal(s) =< had[s]
    BY <2>1, HeldEligible, TwoVaults DEF EligibleHeldAtDrop
  <2>4. due[s] = (PoolTokenTotal(s) * total) \div P
    BY <2>1 DEF RewardAmount
  <2> HIDE DEF P, total, gave, had, due
  <2> QED BY <1>1, <1>3, <2>1, <2>2, <2>3, <2>4, ShareBound
<1>5. ASSUME NEW s \in Stakers PROVE P * gave[s] =< total * had[s]
  BY <1>1, PaidShare
<1>6. had = held[r] /\ SumFunctionOnSet(had, Stakers) =< P
  BY <1>1 DEF FundInv
<1>7. fund[r] + SumFunctionOnSet(gave, Stakers) = total
  BY <1>1 DEF FundInv
<1>8. (\A s \in D : out[s] = due[s]) /\ \A s \in E : out[s] = gave[s]
  BY <1>2
<1> HIDE DEF P, total, D, E, gave, had, due, out
<1>9. \A s \in Stakers : out[s] \in Nat /\ P * out[s] =< total * had[s]
  BY <1>2, <1>3, <1>4, <1>5, <1>8 DEF E
<1> DEFINE sout == SumFunctionOnSet(out, Stakers)
           shad == SumFunctionOnSet(had, Stakers)
           sgave == SumFunctionOnSet(gave, Stakers)
           sdue == SumFunctionOnSet(due, D)
<1>10. P * sout =< total * shad
  BY <1>1, <1>2, <1>3, <1>9, SumScaled
<1>11. sout \in Nat /\ shad \in Nat /\ sgave \in Nat /\ sdue \in Nat
  BY <1>2, <1>3, <1>4, <1>9, SumNat
<1>12. sout = sdue + sgave
  <2> DEFINE outD == SumFunctionOnSet(out, D)
             outE == SumFunctionOnSet(out, E)
             gaveD == SumFunctionOnSet(gave, D)
             gaveE == SumFunctionOnSet(gave, E)
  <2>1. D \cap E = {} /\ D \cup E = Stakers
    BY <1>2 DEF E
  <2>2. sout = outD + outE
    <3>1. SumFunctionOnSet(out, D \cup E) = outD + outE
      BY <1>2, <1>9, <2>1, SumUnion
    <3> QED BY <2>1, <3>1
  <2>3. sgave = gaveD + gaveE
    <3>1. SumFunctionOnSet(gave, D \cup E) = gaveD + gaveE
      BY <1>2, <1>3, <2>1, SumUnion
    <3> QED BY <2>1, <3>1
  <2>4. outD = sdue
    BY <1>2, <1>8, SumEqual
  <2>5. outE = gaveE
    BY <1>2, <1>8, SumEqual
  <2>6. gaveD = 0
    BY <1>2, <1>4, SumZero
  <2>7. gaveE \in Int
    BY <1>2, <1>3, SumInt DEF E
  <2> HIDE DEF outD, outE, gaveD, gaveE, sout, sgave, sdue
  <2> QED BY <1>11, <2>2, <2>3, <2>4, <2>5, <2>6, <2>7
<1> HIDE DEF sout, shad, sgave, sdue
<1>13. sout =< total
  <2>1. SUFFICES ASSUME sout > total PROVE FALSE
    BY <1>1, <1>11
  <2>2. shad =< P
    BY <1>6 DEF shad
  <2>3. total * shad =< total * P
    <3>1. total * (P - shad) >= 0 /\ total * shad \in Int /\ total * P \in Int
      BY <1>1, <1>11, <2>2
    <3> QED BY <1>1, <1>11, <3>1
  <2>4. P * sout >= P * (total + 1)
    <3>1. P * (sout - (total + 1)) >= 0 /\ P * sout \in Int /\ P * (total + 1) \in Int
      BY <1>1, <1>11, <2>1
    <3> QED BY <1>1, <1>11, <3>1
  <2>5. P * (total + 1) = total * P + P
    BY <1>1
  <2> DEFINE a == P * sout
             b == total * shad
             c == total * P
             d == P * (total + 1)
  <2>6. a \in Int /\ b \in Int /\ c \in Int /\ d \in Int
    BY <1>1, <1>11
  <2>7. a =< b /\ b =< c /\ a >= d /\ d = c + P
    BY <1>10, <2>3, <2>4, <2>5
  <2> HIDE DEF a, b, c, d
  <2> QED BY <1>1, <2>6, <2>7
<1>14. fund[r] + sgave = total
  BY <1>7 DEF sgave
<1>15. sdue =< fund[r]
  BY <1>1, <1>11, <1>12, <1>13, <1>14
<1> QED BY <1>15 DEF sdue, due, D

-----------------------------------------------------------------------------
\* A stake is refused by the event of any reward it would give up: the event at
\* the reward's cursor is still the reward's own.
LEMMA StakeKeepsClaims ==
    ASSUME IInv, TypeInv, QueueInv, [Next]_poolVars, NEW s \in Stakers, NEW r \in Rewarders,
           Claimable(s, r), vaults[staker[s].staker_vault].pool_token > 0,
           rewarder[r].reward_event_q_cursor \in Queued(queue),
           staker[s].last_stake_ts < rewarder[r].start_ts
    PROVE  staker'[s].last_stake_ts = staker[s].last_stake_ts
<1> DEFINE c == rewarder[r].reward_event_q_cursor
<1>1. staker[s].live /\ rewarder[r].live
  BY DEF Claimable, HasVault
<1>2. c >= staker[s].rewards_cursor
  <2>1. staker[s] \in StakerRecord /\ rewarder[r] \in RewarderRecord
    BY <1>1, CreatedTyped DEF IInv
  <2>2. staker[s].rewards_cursor \in Nat /\ c \in Nat
    BY <2>1 DEF StakerRecord, RewarderRecord
  <2>3. staker[s].rewards_cursor =< c
    BY DEF Claimable, Eligible
  <2> QED BY <2>2, <2>3
<1>3. Event(queue, c).ts = rewarder[r].start_ts
  <2>1. PICK q \in Created(rewarder) :
            /\ rewarder[q].reward_event_q_cursor = c
            /\ Event(queue, c) = [rewarder |-> q, ts |-> rewarder[q].start_ts]
    BY DEF QueueInv, QueueMatchesHistory
  <2>2. q \in Rewarders /\ rewarder[q].live
    BY <2>1 DEF Created, IInv, Typed, RewarderAccounts
  <2>3. q = r
    BY <1>1, <2>1, <2>2 DEF QueueInv
  <2> QED BY <2>1, <2>3
<1>4. ASSUME NEW n \in StakeAmounts, Stake(s, n) PROVE FALSE
  <2>1. NoAvailableRewards(s)
    BY <1>4 DEF Stake
  <2>2. vaults[staker[s].staker_vault].pool_token = 0
    BY <1>2, <1>3, <2>1 DEF NoAvailableRewards
  <2> QED BY <2>2
<1> QED BY <1>1, <1>4, StakersStay

-----------------------------------------------------------------------------
\* The whole inductive invariant.
PoolInv == IInv /\ TypeInv /\ PendingInv /\ QueueInv /\ HeldInv /\ FundInv

LEMMA PoolInvariant == PoolSpec => []PoolInv
<1>1. Init => PoolInv
  BY InitIInv, InitTypeInv, InitPending, InitQueue, InitHeld, InitFund DEF PoolInv
<1>2. PoolInv /\ [Next]_poolVars => PoolInv'
  BY NextIInv, NextTypeInv, NextPending, NextQueue, NextHeld, NextFund DEF PoolInv
<1> QED BY <1>1, <1>2, PTL DEF PoolSpec

\* Every account keeps its type: no instruction takes a balance, a vault or the
\* supply below zero, and no cursor passes the events written.
THEOREM TypesKept == PoolSpec => []TypeOK
<1>1. PoolInv => TypeOK
  BY TypeInvTypes DEF PoolInv
<1> QED BY <1>1, PoolInvariant, PTL

\* The supply of the pool mint, by which claims divide, is what all sets hold.
THEOREM SupplyHeld == PoolSpec => []SupplyIsHeld
<1>1. PoolInv => SupplyIsHeld
  BY DEF PoolInv, TypeInv
<1> QED BY <1>1, PoolInvariant, PTL

\* What a staker has pending is what its open receipts are worth: none is paid
\* twice, from the wrong set or never.
THEOREM PendingReceipted == PoolSpec => []PendingIsReceipted
<1>1. PoolInv => PendingIsReceipted
  BY DEF PoolInv, PendingInv
<1> QED BY <1>1, PoolInvariant, PTL

\* However often the ring buffer wraps around, the events between tail and head
\* are those of the rewards dropped with these cursors.
THEOREM QueueFollows == PoolSpec => []QueueMatchesHistory
<1>1. PoolInv => QueueMatchesHistory
  BY DEF PoolInv, QueueInv
<1> QED BY <1>1, PoolInvariant, PTL

\* A claim counts no pool token that its staker did not hold at the drop.
THEOREM EligibleHeld == PoolSpec => []EligibleHeldAtDrop
<1>1. PoolInv => EligibleHeldAtDrop
  BY HeldEligible DEF PoolInv
<1> QED BY <1>1, PoolInvariant, PTL

\* A reward can pay all who are due at once, in whatever order they claim.
THEOREM RewardsSolvent == PoolSpec => []RewardsStaySolvent
<1>1. PoolInv => RewardsStaySolvent
  BY Solvent DEF PoolInv
<1> QED BY <1>1, PoolInvariant, PTL

\* no_available_rewards does what it is for: a stake gives up no reward.
THEOREM StakeForfeits == PoolSpec => StakeForfeitsNothing
<1>1. PoolInv /\ [Next]_poolVars =>
        [\A s \in Stakers, r \in Rewarders :
            /\ Claimable(s, r)
            /\ vaults[staker[s].staker_vault].pool_token > 0
            /\ rewarder[r].reward_event_q_cursor \in Queued(queue)
            /\ staker[s].last_stake_ts < rewarder[r].start_ts
            /\ staker'[s].last_stake_ts # staker[s].last_stake_ts
            => staker'[s].last_stake_ts =< rewarder[r].start_ts]_poolVars
  BY StakeKeepsClaims DEF PoolInv
<1> QED BY <1>1, PoolInvariant, PTL DEF PoolSpec, StakeForfeitsNothing

=============================================================================
