---------------------------- MODULE PoolManager ----------------------------
(***************************************************************************)
(* The staking pool (restaking/programs/pool-manager): one pool, whose     *)
(* stakers exchange tokens for pool tokens at a fixed rate, get them back  *)
(* after a timelock, and share rewards that anyone drops.  One action is   *)
(* one instruction.  A staker's four token accounts of one kind (free,     *)
(* staked, pending, pool tokens) are a vault set; a staker points at one   *)
(* set and at one more for balances that come from a locker.               *)
(*                                                                         *)
(* Left out: signatures and address checks, the minima of three hardcoded  *)
(* pools, metadata, and the program's pointers to other programs.          *)
(***************************************************************************)
EXTENDS Integers, FiniteSetsExt

CONSTANTS Stakers,
          Sets,             \* the vault sets
          SetsOf,           \* [staker -> sets it may use for its own tokens]
          LockedSetsOf,     \* [staker -> sets it may use for a locker's]
          NoSet,            \* a staker's pointer before it is assigned
          Rewarders,        \* rewarder accounts, in no order
          Receipts,         \* pending withdrawal accounts
          NoReward,         \* an event of the queue not written yet
          StakeRate,        \* tokens per pool token
          QueueLength,      \* reward_q_len
          Timelocks         \* withdrawal timelocks the authority may set

\* Bounds and inputs.
CONSTANTS MaxTime, Wallet, LockerFunds, DepositAmounts, StakeAmounts, Totals,
          Lifetimes, Kinds

ASSUME KindsAssumption == Kinds \subseteq {"Unlocked", "Locked"}
ASSUME StakeRateAssumption == StakeRate \in Nat
ASSUME AmountsAssumption ==
    DepositAmounts \subseteq Nat /\ StakeAmounts \subseteq Nat /\ Totals \subseteq Nat
ASSUME TimesAssumption == Timelocks \subseteq Int /\ Lifetimes \subseteq Int
ASSUME QueueLengthAssumption == QueueLength \in Nat \ {0}
ASSUME BoundsAssumption ==
    /\ MaxTime \in Nat \ {0}
    /\ Wallet \in [Stakers -> Nat] /\ LockerFunds \in [Stakers -> Nat]
ASSUME AccountsAssumption ==
    IsFiniteSet(Stakers) /\ IsFiniteSet(Sets) /\ IsFiniteSet(Receipts) /\ NoSet \notin Sets

\* All sets a staker may ever point at.  The owner of a vault is an address
\* derived from its staker's, so that no two stakers have one in common.
AllSets(s) == SetsOf[s] \cup LockedSetsOf[s]
ASSUME SetsAssumption ==
    /\ \A s \in Stakers : AllSets(s) \subseteq Sets
    /\ \A s, t \in Stakers : s # t => AllSets(s) \cap AllSets(t) = {}

VARIABLES now,          \* the clock, in seconds
          withdrawal_timelock,
          staker,       \* the staker accounts
          vaults,       \* [set -> balances of its four token accounts]
          supply,       \* of the pool mint
          receipt,      \* the pending withdrawals
          queue,        \* the reward event queue
          rewarder,     \* the rewarder accounts
          fund,         \* [rewarder -> tokens in its vault]
          wallet,       \* [staker -> its free tokens]
          locker,       \* [staker -> tokens in its lockers (external)]
          held,         \* history: [rewarder -> [staker -> pool tokens at the drop]]
          paid          \* history: [rewarder -> [staker -> reward paid]]
poolVars == <<now, withdrawal_timelock, staker, vaults, supply, receipt, queue,
              rewarder, fund, wallet, locker, held, paid>>

NoAccount == [live |-> FALSE]
Created(accounts) == {a \in DOMAIN accounts : accounts[a].live}
EmptySet == [vault |-> 0, staked |-> 0, pending |-> 0, pool_token |-> 0]

\* create_pool.
Init ==
    /\ now = 1
    /\ withdrawal_timelock \in Timelocks
    /\ staker = [s \in Stakers |-> NoAccount]
    /\ vaults = [v \in Sets |-> EmptySet]
    /\ supply = 0
    /\ receipt = [p \in Receipts |-> NoAccount]
    /\ queue = [head |-> 0, tail |-> 0,
                events |-> [i \in 0..QueueLength - 1 |-> [rewarder |-> NoReward, ts |-> 0]]]
    /\ rewarder = [r \in Rewarders |-> NoAccount]
    /\ fund = [r \in Rewarders |-> 0]
    /\ wallet = Wallet
    /\ locker = LockerFunds
    /\ held = [r \in Rewarders |-> [s \in Stakers |-> 0]]
    /\ paid = [r \in Rewarders |-> [s \in Stakers |-> 0]]

Tick ==
    /\ now < MaxTime
    /\ now' = now + 1
    /\ UNCHANGED <<withdrawal_timelock, staker, vaults, supply, receipt, queue, rewarder,
                   fund, wallet, locker, held, paid>>

\* update_pool.
UpdatePool(timelock) ==
    /\ withdrawal_timelock' = timelock
    /\ UNCHANGED <<now, staker, vaults, supply, receipt, queue, rewarder, fund, wallet,
                   locker, held, paid>>

-----------------------------------------------------------------------------
\* Stakers and their vault sets.

\* create_staker.
CreateStaker(s) ==
    /\ ~staker[s].live
    /\ staker' = [staker EXCEPT ![s] =
          [live |-> TRUE, staker_vault |-> NoSet, staker_vault_locked |-> NoSet,
           rewards_cursor |-> 0, last_stake_ts |-> 0]]
    /\ UNCHANGED <<now, withdrawal_timelock, vaults, supply, receipt, queue, rewarder,
                   fund, wallet, locker, held, paid>>

\* update_staker_vault and update_staker_vault_locked.
UpdateStakerVault(s, v) ==
    /\ staker[s].live
    /\ v \in SetsOf[s]
    /\ staker' = [staker EXCEPT ![s].staker_vault = v]
    /\ UNCHANGED <<now, withdrawal_timelock, vaults, supply, receipt, queue, rewarder,
                   fund, wallet, locker, held, paid>>

UpdateStakerVaultLocked(s, v) ==
    /\ staker[s].live
    /\ v \in LockedSetsOf[s]
    /\ staker' = [staker EXCEPT ![s].staker_vault_locked = v]
    /\ UNCHANGED <<now, withdrawal_timelock, vaults, supply, receipt, queue, rewarder,
                   fund, wallet, locker, held, paid>>

HasVault(s) == staker[s].live /\ staker[s].staker_vault \in Sets
HasLockedVault(s) == staker[s].live /\ staker[s].staker_vault_locked \in Sets

\* deposit and withdraw: the beneficiary's own tokens.
Deposit(s, n) ==
    /\ HasVault(s)
    /\ wallet[s] >= n
    /\ wallet' = [wallet EXCEPT ![s] = @ - n]
    /\ vaults' = [vaults EXCEPT ![staker[s].staker_vault].vault = @ + n]
    /\ UNCHANGED <<now, withdrawal_timelock, staker, supply, receipt, queue, rewarder,
                   fund, locker, held, paid>>

Withdraw(s, n) ==
    /\ HasVault(s)
    /\ vaults[staker[s].staker_vault].vault >= n
    /\ vaults' = [vaults EXCEPT ![staker[s].staker_vault].vault = @ - n]
    /\ wallet' = [wallet EXCEPT ![s] = @ + n]
    /\ UNCHANGED <<now, withdrawal_timelock, staker, supply, receipt, queue, rewarder,
                   fund, locker, held, paid>>

\* deposit_from_locker and withdraw_to_locker, relayed by the locker manager.
DepositFromLocker(s, n) ==
    /\ HasLockedVault(s)
    /\ locker[s] >= n
    /\ locker' = [locker EXCEPT ![s] = @ - n]
    /\ vaults' = [vaults EXCEPT ![staker[s].staker_vault_locked].vault = @ + n]
    /\ UNCHANGED <<now, withdrawal_timelock, staker, supply, receipt, queue, rewarder,
                   fund, wallet, held, paid>>

WithdrawToLocker(s, n) ==
    /\ HasLockedVault(s)
    /\ vaults[staker[s].staker_vault_locked].vault >= n
    /\ vaults' = [vaults EXCEPT ![staker[s].staker_vault_locked].vault = @ - n]
    /\ locker' = [locker EXCEPT ![s] = @ + n]
    /\ UNCHANGED <<now, withdrawal_timelock, staker, supply, receipt, queue, rewarder,
                   fund, wallet, held, paid>>

-----------------------------------------------------------------------------
\* The reward queue: a ring buffer of events, addressed by counters that only
\* grow.

IndexOf(counter) == counter % QueueLength
Event(q, counter) == q.events[IndexOf(counter)]
Queued(q) == q.tail..q.head - 1

\* RewardQueue::append.
AppendedKeepsTail(q, event) ==
    [head |-> q.head + 1, tail |-> q.tail, events |-> [q.events EXCEPT ![IndexOf(q.head)] = event]]
Appended(q, event) ==
    [head   |-> q.head + 1,
     tail   |-> IF IndexOf(q.head + 1) = IndexOf(q.tail) THEN q.tail + 1 ELSE q.tail,
     events |-> [q.events EXCEPT ![IndexOf(q.head)] = event]]

\* no_available_rewards: what a staker must not have when it stakes.
ChecksNothing(s) == TRUE
NoAvailableRewards(s) ==
    \A c \in Queued(queue) :
        c >= staker[s].rewards_cursor /\ staker[s].last_stake_ts < Event(queue, c).ts =>
            vaults[staker[s].staker_vault].pool_token = 0

-----------------------------------------------------------------------------
\* Staking.

\* stake.
StakeTimeKept(s) == staker[s].last_stake_ts
StakeTime(s) == now
Stake(s, n) ==
    LET v == staker[s].staker_vault
    IN  /\ HasVault(s)
        /\ NoAvailableRewards(s)
        /\ vaults[v].vault >= n * StakeRate
        /\ vaults' = [vaults EXCEPT ![v].vault = @ - n * StakeRate,
                                    ![v].staked = @ + n * StakeRate,
                                    ![v].pool_token = @ + n]
        /\ supply' = supply + n
        /\ staker' = [staker EXCEPT ![s].last_stake_ts = StakeTime(s)]
        /\ UNCHANGED <<now, withdrawal_timelock, receipt, queue, rewarder, fund, wallet,
                       locker, held, paid>>

\* start_unstake: always of the staker's own set, whatever the receipt says;
\* the time of this call is not recorded, the staker account not being mut.
UnstakedPoolTokens(n) == n
SupplyKept(n) == supply
SupplyAfterBurn(n) == supply - n
UnstakedTokens(n) == n * StakeRate
StartUnstake(s, p, n, locked) ==
    LET v == staker[s].staker_vault
    IN  /\ HasVault(s)
        /\ ~receipt[p].live
        /\ NoAvailableRewards(s)
        /\ vaults[v].pool_token >= n
        /\ vaults[v].staked >= UnstakedTokens(n)
        /\ vaults' = [vaults EXCEPT ![v].staked = @ - UnstakedTokens(n),
                                    ![v].pending = @ + UnstakedTokens(n),
                                    ![v].pool_token = @ - n]
        /\ supply' = SupplyAfterBurn(n)
        /\ receipt' = [receipt EXCEPT ![p] =
              [live |-> TRUE, burned |-> FALSE, staker |-> s, locked |-> locked,
               amount |-> UnstakedTokens(n), end_ts |-> now + withdrawal_timelock]]
        /\ UNCHANGED <<now, withdrawal_timelock, staker, queue, rewarder, fund, wallet,
                       locker, held, paid>>

\* The set a receipt draws on.
ReceiptSet(p) ==
    IF receipt[p].locked THEN staker[receipt[p].staker].staker_vault_locked
                         ELSE staker[receipt[p].staker].staker_vault

\* end_unstake.
BurnsNothing(p) == receipt
Burned(p) == [receipt EXCEPT ![p].burned = TRUE]
EndUnstake(p) ==
    /\ receipt[p].live /\ ~receipt[p].burned
    /\ receipt[p].end_ts =< now
    /\ ReceiptSet(p) \in Sets
    /\ vaults[ReceiptSet(p)].pending >= receipt[p].amount
    /\ vaults' = [vaults EXCEPT ![ReceiptSet(p)].pending = @ - receipt[p].amount,
                                ![ReceiptSet(p)].vault = @ + receipt[p].amount]
    /\ receipt' = Burned(p)
    /\ UNCHANGED <<now, withdrawal_timelock, staker, supply, queue, rewarder, fund,
                   wallet, locker, held, paid>>

-----------------------------------------------------------------------------
\* Rewards.

\* A staker's pool tokens in all its sets.
PoolTokens == [v \in Sets |-> vaults[v].pool_token]
AllPoolTokens(s) == SumFunctionOnSet(PoolTokens, AllSets(s))

\* drop_reward.
DropReward(r, total, lifetime, kind) ==
    /\ ~rewarder[r].live
    /\ total >= supply
    /\ lifetime > 0
    /\ queue' = Appended(queue, [rewarder |-> r, ts |-> now])
    /\ rewarder' = [rewarder EXCEPT ![r] =
          [live |-> TRUE, expired |-> FALSE, total |-> total, kind |-> kind,
           pool_token_supply |-> supply, reward_event_q_cursor |-> queue.head,
           start_ts |-> now, expiry_ts |-> now + lifetime]]
    /\ fund' = [fund EXCEPT ![r] = total]
    /\ held' = [held EXCEPT ![r] = [s \in Stakers |-> AllPoolTokens(s)]]
    /\ UNCHANGED <<now, withdrawal_timelock, staker, vaults, supply, receipt, wallet,
                   locker, paid>>

\* The pool tokens a claim counts, and what is due for n of them.
PoolTokenTotal(s) ==
    vaults[staker[s].staker_vault].pool_token + vaults[staker[s].staker_vault_locked].pool_token
RewardUp(r, n) ==
    (n * rewarder[r].total + rewarder[r].pool_token_supply - 1) \div rewarder[r].pool_token_supply
RewardAmount(r, n) == (n * rewarder[r].total) \div rewarder[r].pool_token_supply

\* reward_eligible.
Eligible(s, r) ==
    /\ ~rewarder[r].expired
    /\ staker[s].rewards_cursor =< rewarder[r].reward_event_q_cursor
    /\ staker[s].last_stake_ts =< rewarder[r].start_ts

\* What claim_reward and claim_reward_to_locker require.
Claimable(s, r) ==
    /\ HasVault(s) /\ HasLockedVault(s)
    /\ rewarder[r].live
    /\ Eligible(s, r)
    /\ rewarder[r].pool_token_supply > 0
    /\ RewardAmount(r, PoolTokenTotal(s)) > 0
    /\ fund[r] >= RewardAmount(r, PoolTokenTotal(s))

CursorTooFar(s, r) == rewarder[r].reward_event_q_cursor + 2
CursorKept(s, r) == staker[s].rewards_cursor
CursorPast(s, r) == rewarder[r].reward_event_q_cursor + 1
Claimed(s, r) ==
    /\ fund' = [fund EXCEPT ![r] = @ - RewardAmount(r, PoolTokenTotal(s))]
    /\ paid' = [paid EXCEPT ![r][s] = @ + RewardAmount(r, PoolTokenTotal(s))]
    /\ staker' = [staker EXCEPT ![s].rewards_cursor = CursorPast(s, r)]

\* claim_reward, to any token account of the reward's own mint.
ClaimReward(s, r) ==
    /\ Claimable(s, r)
    /\ rewarder[r].kind = "Unlocked"
    /\ Claimed(s, r)
    /\ UNCHANGED <<now, withdrawal_timelock, vaults, supply, receipt, queue, rewarder,
                   wallet, locker, held>>

\* claim_reward_to_locker: the locker manager creates a locker for the amount.
ClaimRewardToLocker(s, r) ==
    /\ Claimable(s, r)
    /\ rewarder[r].kind = "Locked"
    /\ Claimed(s, r)
    /\ UNCHANGED <<now, withdrawal_timelock, vaults, supply, receipt, queue, rewarder,
                   wallet, locker, held>>

\* expire_reward: whatever is left goes to the expiry receiver.
ExpireReward(r) ==
    /\ rewarder[r].live
    /\ now >= rewarder[r].expiry_ts
    /\ fund' = [fund EXCEPT ![r] = 0]
    /\ rewarder' = [rewarder EXCEPT ![r].expired = TRUE]
    /\ UNCHANGED <<now, withdrawal_timelock, staker, vaults, supply, receipt, queue,
                   wallet, locker, held, paid>>

-----------------------------------------------------------------------------
Next ==
    \/ Tick
    \/ \E t \in Timelocks : UpdatePool(t)
    \/ \E s \in Stakers :
          \/ CreateStaker(s)
          \/ \E v \in Sets : UpdateStakerVault(s, v) \/ UpdateStakerVaultLocked(s, v)
          \/ \E n \in DepositAmounts : \/ Deposit(s, n) \/ Withdraw(s, n)
                                       \/ DepositFromLocker(s, n) \/ WithdrawToLocker(s, n)
          \/ \E n \in StakeAmounts :
                \/ Stake(s, n)
                \/ \E p \in Receipts, locked \in BOOLEAN : StartUnstake(s, p, n, locked)
          \/ \E r \in Rewarders : ClaimReward(s, r) \/ ClaimRewardToLocker(s, r)
    \/ \E p \in Receipts : EndUnstake(p)
    \/ \E r \in Rewarders :
          \/ \E total \in Totals, lifetime \in Lifetimes, kind \in Kinds :
                DropReward(r, total, lifetime, kind)
          \/ ExpireReward(r)

PoolSpec == Init /\ [][Next]_poolVars

-----------------------------------------------------------------------------
\* Properties.

\* Every account keeps its type: balances never go below zero, a receipt
\* belongs to a staker, and a cursor stays within the events written.
TypeOK ==
    /\ now \in 1..MaxTime
    /\ \A s \in Stakers : staker[s].live =>
          /\ staker[s].staker_vault \in SetsOf[s] \cup {NoSet}
          /\ staker[s].staker_vault_locked \in LockedSetsOf[s] \cup {NoSet}
          /\ staker[s].rewards_cursor \in 0..queue.head
          /\ staker[s].last_stake_ts \in 0..now
    /\ vaults \in [Sets -> [vault : Nat, staked : Nat, pending : Nat, pool_token : Nat]]
    /\ supply \in Nat
    /\ \A p \in Created(receipt) : receipt[p].staker \in Stakers /\ receipt[p].amount \in Nat
    /\ \A r \in Created(rewarder) : rewarder[r].reward_event_q_cursor \in 0..queue.head - 1
    /\ fund \in [Rewarders -> Nat] /\ wallet \in [Stakers -> Nat] /\ locker \in [Stakers -> Nat]

\* Each pool token is backed: a set's staked tokens are its pool tokens at the
\* stake rate, through stake and start_unstake (two transfers each).
StakedBacksPoolTokens ==
    \A v \in Sets : vaults[v].staked = StakeRate * vaults[v].pool_token

\* The supply that drop_reward stores and claims divide by is what the stakers
\* hold.
SupplyIsHeld == supply = SumFunctionOnSet(PoolTokens, Sets)

\* What a staker has pending, over its sets, is what its receipts that are not
\* burned are worth: no receipt is paid twice and none is lost.
Pending == [v \in Sets |-> vaults[v].pending]
OpenTo(s, account) == account.live /\ account.staker = s /\ ~account.burned
Receivable(s) ==
    [p \in Receipts |-> IF OpenTo(s, receipt[p]) THEN receipt[p].amount ELSE 0]
PendingIsReceipted ==
    \A s \in Stakers :
        SumFunctionOnSet(Pending, AllSets(s)) = SumFunctionOnSet(Receivable(s), Receipts)

\* The ring buffer holds the latest drops, in order, one slot of it unused: the
\* event at a counter between tail and head is that of the rewarder dropped with
\* that cursor.
QueueMatchesHistory ==
    /\ queue.head - queue.tail = Min({queue.head, QueueLength - 1})
    /\ \A c \in Queued(queue) :
          \E r \in Created(rewarder) :
              /\ rewarder[r].reward_event_q_cursor = c
              /\ Event(queue, c) = [rewarder |-> r, ts |-> rewarder[r].start_ts]

\* A staker that points at two different sets.  The instructions that assign them
\* accept the same set twice, whose pool tokens a claim then counts twice.
HasTwoVaults(s) ==
    HasVault(s) /\ HasLockedVault(s) /\ staker[s].staker_vault # staker[s].staker_vault_locked

\* A staker with two sets that reward_eligible admits and that staked in an earlier
\* second than the drop is paid for no more pool tokens than it held at the drop:
\* stakes, unstakes and changes of its sets since fail or make it ineligible.
EligibleHeldAtDrop ==
    \A s \in Stakers, r \in Created(rewarder) :
        /\ HasTwoVaults(s)
        /\ Eligible(s, r)
        /\ staker[s].last_stake_ts < rewarder[r].start_ts
        => PoolTokenTotal(s) =< held[r][s]

\* Who claimed so far was paid for what it held at the drop.
PaidForHeld(r) ==
    \A s \in Stakers : paid[r][s] > 0 => paid[r][s] =< RewardAmount(r, held[r][s])

\* Stakers with a reward due, having staked in an earlier second than its drop.
Due(r) == {s \in Stakers : /\ HasTwoVaults(s)
                           /\ Eligible(s, r)
                           /\ staker[s].last_stake_ts < rewarder[r].start_ts}

\* As long as all who claimed were paid for what they held at the drop, a reward
\* can pay all who are still due at once: rounding, unstakes and the order of
\* claims never leave the vault short.
RewardsStaySolvent ==
    \A r \in Created(rewarder) :
        ~rewarder[r].expired /\ rewarder[r].pool_token_supply > 0 /\ PaidForHeld(r) =>
            SumFunctionOnSet([s \in Stakers |-> RewardAmount(r, PoolTokenTotal(s))], Due(r)) =< fund[r]

\* Whatever is staked, unstaked, claimed and expired in between, with one cursor
\* per staker for all rewards and none per reward, every reward is paid out as
\* module RewardPayout says: once to each staker, from its own pot, while open.
Payout == INSTANCE RewardPayout WITH
              state <- [r \in Rewarders |-> IF ~rewarder[r].live THEN "none"
                                            ELSE IF rewarder[r].expired THEN "closed" ELSE "open"],
              pot <- fund, given <- paid
RewardsArePayouts == Payout!Spec

\* A stake, which moves last_stake_ts past the drops before it, gives up no
\* reward that is still in the queue and that the staker could claim, unless the
\* staker last staked in the very second of the drop or is owed the reward for
\* pool tokens in its locked set alone.
StakeForfeitsNothing ==
    [][\A s \in Stakers, r \in Rewarders :
          /\ Claimable(s, r)
          /\ vaults[staker[s].staker_vault].pool_token > 0
          /\ rewarder[r].reward_event_q_cursor \in Queued(queue)
          /\ staker[s].last_stake_ts < rewarder[r].start_ts
          /\ staker'[s].last_stake_ts # staker[s].last_stake_ts
          => staker'[s].last_stake_ts =< rewarder[r].start_ts]_poolVars
=============================================================================
