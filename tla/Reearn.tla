------------------------------- MODULE Reearn -------------------------------
(***************************************************************************)
(* The reearn program (reearn/programs/reearn_program): rewards for        *)
(* borrowers, which an operator grants and the owner of the obligation     *)
(* claims, each once per lock duration, and rewards for suppliers, which   *)
(* build up with time on a deposit of the lending program.  Both are paid  *)
(* from one vault.                                                         *)
(*                                                                         *)
(* Left out: signatures and address checks, except the operator's; sums of *)
(* rewards are below 2^64.                                                 *)
(***************************************************************************)
EXTENDS SupplyApy

CONSTANTS Obligations, Reserves, Tokens,
          RELEND,               \* the token borrowers are rewarded in
          Operators,
          DAY,                  \* the first lock duration
          BASE, BILLION, U64MAX \* 10, 10^9 and the largest amount

\* Bounds and inputs.
CONSTANTS LockDurations, Amounts, Exponents, Yields, Deposits, Supplies,
          MaxVault, MaxTime,
          Shortest              \* no lock duration is shorter

ASSUME TokensAssumption == RELEND \in Tokens
ASSUME LocksAssumption ==
    /\ Shortest \in Nat \ {0}
    /\ \A d \in LockDurations \cup {DAY} : d \in Nat /\ Shortest =< d
ASSUME ScaleAssumption ==
    /\ BILLION \in Nat
    /\ Exponents \subseteq Int
    /\ \A expo \in Exponents \cup {0} : expo =< 0 => BASE^(-expo) \in Nat \ {0}
ASSUME InputsAssumption == Amounts \subseteq Nat /\ Deposits \subseteq Nat /\ Supplies \subseteq Nat
ASSUME YieldsAssumption ==
    /\ Yields \subseteq [rate : Nat, token : Tokens, start_time : Nat, end_time : Nat]
    /\ \A apy \in Yields : apy.start_time =< apy.end_time

VARIABLES now,              \* the clock, in seconds
          config,
          obligation_reward,\* [obligation -> its borrower's reward]
          supply_apy,       \* [reserve -> its yield]
          reserve_reward,   \* [obligation and reserve -> its supplier's reward]
          deposited,        \* [obligation and reserve -> collateral] (external)
          vault             \* [token -> amount]
\* What happened, for the properties.
VARIABLES borrower,         \* [obligation -> worth granted and claimed, and how often]
          stretch           \* [obligation and reserve -> what was earned since the
                            \*  yield or the deposit last changed]

programVars == <<now, config, obligation_reward, supply_apy, reserve_reward, deposited, vault>>
reearnVars == <<programVars, borrower, stretch>>

Nothing == [live |-> FALSE]
Pairs == Obligations \X Reserves

Init ==
    /\ now = 0
    /\ config = Nothing
    /\ obligation_reward = [o \in Obligations |-> Nothing]
    /\ supply_apy = [r \in Reserves |-> Nothing]
    /\ reserve_reward = [p \in Pairs |-> Nothing]
    /\ deposited = [p \in Pairs |-> 0]
    /\ vault = [k \in Tokens |-> 0]
    /\ borrower = [o \in Obligations |->
          [granted |-> 0, claimed |-> 0, grants |-> 0, claims |-> 0, since |-> 0]]
    /\ stretch = [p \in Pairs |-> [since |-> 0, earned |-> 0, refreshes |-> 0]]

Tick ==
    /\ now < MaxTime
    /\ now' = now + 1
    /\ UNCHANGED <<config, obligation_reward, supply_apy, reserve_reward, deposited,
                   vault, borrower, stretch>>

-----------------------------------------------------------------------------
\* The configuration and the vault.

Initialize(operator) ==
    /\ ~config.live
    /\ config' = [live |-> TRUE, operator |-> operator, lock_duration |-> DAY]
    /\ UNCHANGED <<now, obligation_reward, supply_apy, reserve_reward, deposited,
                   vault, borrower, stretch>>

ChangeOperator(new_operator) ==
    /\ config.live
    /\ config' = [config EXCEPT !.operator = new_operator]
    /\ UNCHANGED <<now, obligation_reward, supply_apy, reserve_reward, deposited,
                   vault, borrower, stretch>>

ChangeLockDuration(duration) ==
    /\ config.live
    /\ duration # 0
    /\ config' = [config EXCEPT !.lock_duration = duration]
    /\ UNCHANGED <<now, obligation_reward, supply_apy, reserve_reward, deposited,
                   vault, borrower, stretch>>

\* Anybody may supply the vault; other tokens are transferred to it (external).
Supply(token, amount) ==
    /\ config.live
    /\ vault[token] + amount =< MaxVault
    /\ vault' = [vault EXCEPT ![token] = @ + amount]
    /\ UNCHANGED <<now, config, obligation_reward, supply_apy, reserve_reward,
                   deposited, borrower, stretch>>

IsOperator(signer) == config.live /\ signer = config.operator

-----------------------------------------------------------------------------
\* Rewards for borrowers.

Unrewarded == [live |-> TRUE, last_claimed |-> now, last_updated |-> now,
               reward_amount |-> 0, exponent |-> 0]

RegisterForEarn(signer, o) ==
    /\ IsOperator(signer)
    /\ ~obligation_reward[o].live
    /\ obligation_reward' = [obligation_reward EXCEPT ![o] = Unrewarded]
    /\ borrower' = [borrower EXCEPT ![o].since = now]
    /\ UNCHANGED <<now, config, supply_apy, reserve_reward, deposited, vault, stretch>>

CheckClaimable(o) == now - obligation_reward[o].last_claimed >= config.lock_duration

\* What a reward of this amount and exponent pays, and when the code can tell.
Worth(amount, expo) == (amount * BILLION) \div BASE^(-expo)
WorthDefined(amount, expo) == BASE^(-expo) =< U64MAX /\ amount * BILLION =< U64MAX

\* refresh_reward: a reward that is still there is replaced.
RefreshKeepsExponent(reward, amount, expo) ==
    [reward EXCEPT !.reward_amount = amount, !.last_updated = now]
RefreshedUntimed(reward, amount, expo) ==
    [reward EXCEPT !.reward_amount = amount, !.exponent = expo]
Refreshed(reward, amount, expo) ==
    [reward EXCEPT !.reward_amount = amount, !.exponent = expo, !.last_updated = now]
RefreshReward(signer, o, amount, expo) ==
    /\ IsOperator(signer)
    /\ obligation_reward[o].live
    /\ CheckClaimable(o)
    /\ now - obligation_reward[o].last_updated > config.lock_duration
    /\ expo =< 0
    /\ obligation_reward' = [obligation_reward EXCEPT ![o] = Refreshed(@, amount, expo)]
    /\ borrower' = [borrower EXCEPT ![o].granted = @ + Worth(amount, expo), ![o].grants = @ + 1]
    /\ UNCHANGED <<now, config, supply_apy, reserve_reward, deposited, vault, stretch>>

\* claim_reward: the reward starts anew, after a claim of nothing too.
ClaimReward(o) ==
    LET reward == obligation_reward[o]
        paid == Worth(reward.reward_amount, reward.exponent) IN
    /\ config.live /\ reward.live
    /\ CheckClaimable(o)
    /\ WorthDefined(reward.reward_amount, reward.exponent)
    /\ vault[RELEND] >= paid
    /\ vault' = [vault EXCEPT ![RELEND] = @ - paid]
    /\ obligation_reward' = [obligation_reward EXCEPT ![o] = Unrewarded]
    /\ borrower' = [borrower EXCEPT ![o].claimed = @ + vault[RELEND] - vault'[RELEND],
                                    ![o].claims = @ + 1]
    /\ UNCHANGED <<now, config, supply_apy, reserve_reward, deposited, stretch>>

-----------------------------------------------------------------------------
\* Rewards for suppliers.

\* A stretch starts at the last refresh when what is earned per second changes.
Restart(pairs) ==
    [p \in Pairs |->
        IF p \in pairs /\ reserve_reward[p].live
        THEN [since |-> reserve_reward[p].last_supply, earned |-> 0, refreshes |-> 0]
        ELSE stretch[p]]
OfReserve(r) == Obligations \X {r}

\* Deposits and withdrawals of collateral in the lending program.
ChangeDeposit(p, amount) ==
    /\ amount # deposited[p]
    /\ deposited' = [deposited EXCEPT ![p] = amount]
    /\ stretch' = Restart({p})
    /\ UNCHANGED <<now, config, obligation_reward, supply_apy, reserve_reward, vault, borrower>>

SetYield(r, apy) ==
    /\ supply_apy' = [supply_apy EXCEPT ![r] = apy]
    /\ stretch' = Restart(OfReserve(r))
    /\ UNCHANGED <<now, config, obligation_reward, reserve_reward, deposited, vault, borrower>>

Opened(apy) == [live |-> TRUE, rate |-> apy.rate, token |-> apy.token,
                start_time |-> apy.start_time, end_time |-> apy.end_time]

InitReserveReward(signer, r, apy) ==
    /\ IsOperator(signer)
    /\ ~supply_apy[r].live
    /\ SetYield(r, Opened(apy))

ChangeSupplyApy(signer, r, apy) ==
    /\ IsOperator(signer)
    /\ supply_apy[r].live
    /\ SetYield(r, Opened(apy))

CloseReserveReward(signer, r) ==
    /\ IsOperator(signer)
    /\ supply_apy[r].live
    /\ SetYield(r, Nothing)

CurrentReward(p) ==
    CalculateReward(supply_apy[p[2]], deposited[p], now, reserve_reward[p].last_supply)

\* What a step adds to what was earned, and one more refresh that took some time.
Longer(p, gain) ==
    [stretch EXCEPT ![p] =
        [since |-> @.since, earned |-> @.earned + gain,
         refreshes |-> @.refreshes + (IF reserve_reward[p].last_supply = now THEN 0 ELSE 1)]]

\* supply_to_earn, the first time.
StartSupplyToEarn(p) ==
    /\ config.live /\ supply_apy[p[2]].live
    /\ ~reserve_reward[p].live
    /\ reserve_reward' = [reserve_reward EXCEPT ![p] =
          [live |-> TRUE, accumulated_reward_amount |-> 0, last_supply |-> now]]
    /\ stretch' = [stretch EXCEPT ![p] = [since |-> now, earned |-> 0, refreshes |-> 0]]
    /\ UNCHANGED <<now, config, obligation_reward, supply_apy, deposited, vault, borrower>>

\* supply_to_earn, of a deposit and without one.
AccumulatedUntimed(reward, current) ==
    [reward EXCEPT !.accumulated_reward_amount = @ + current]
Accumulated(reward, current) ==
    [reward EXCEPT !.accumulated_reward_amount = @ + current, !.last_supply = now]
SupplyToEarn(p) ==
    /\ config.live /\ supply_apy[p[2]].live
    /\ reserve_reward[p].live
    /\ deposited[p] > 0
    /\ reserve_reward' = [reserve_reward EXCEPT ![p] = Accumulated(@, CurrentReward(p))]
    /\ stretch' = Longer(p, reserve_reward'[p].accumulated_reward_amount
                                - reserve_reward[p].accumulated_reward_amount)
    /\ UNCHANGED <<now, config, obligation_reward, supply_apy, deposited, vault, borrower>>

Emptied(reward) == [reward EXCEPT !.accumulated_reward_amount = 0, !.last_supply = now]
Forfeit(p) ==
    /\ config.live /\ supply_apy[p[2]].live
    /\ reserve_reward[p].live
    /\ deposited[p] = 0
    /\ reserve_reward' = [reserve_reward EXCEPT ![p] = Emptied(@)]
    /\ stretch' = [stretch EXCEPT ![p] = [since |-> now, earned |-> 0, refreshes |-> 0]]
    /\ UNCHANGED <<now, config, obligation_reward, supply_apy, deposited, vault, borrower>>

\* claim_ste_reward: without a deposit it fails, and what it reset is undone.
ClaimSteReward(p) ==
    LET token == supply_apy[p[2]].token
        total_claim_reward == reserve_reward[p].accumulated_reward_amount + CurrentReward(p) IN
    /\ config.live /\ supply_apy[p[2]].live
    /\ reserve_reward[p].live
    /\ deposited[p] > 0
    /\ vault[token] >= total_claim_reward
    /\ vault' = [vault EXCEPT ![token] = @ - total_claim_reward]
    /\ reserve_reward' = [reserve_reward EXCEPT ![p] = Emptied(@)]
    /\ stretch' = Longer(p, vault[token] - vault'[token]
                                - reserve_reward[p].accumulated_reward_amount
                                + reserve_reward'[p].accumulated_reward_amount)
    /\ UNCHANGED <<now, config, obligation_reward, supply_apy, deposited, borrower>>

-----------------------------------------------------------------------------
Administer ==
    \/ \E operator \in Operators : Initialize(operator) \/ ChangeOperator(operator)
    \/ \E duration \in LockDurations : ChangeLockDuration(duration)
    \/ \E token \in Tokens, amount \in Supplies : Supply(token, amount)

RewardBorrowers ==
    \E o \in Obligations :
        \/ ClaimReward(o)
        \/ \E signer \in Operators :
              \/ RegisterForEarn(signer, o)
              \/ \E amount \in Amounts, expo \in Exponents : RefreshReward(signer, o, amount, expo)

RewardSuppliers ==
    \/ \E p \in Pairs :
          \/ StartSupplyToEarn(p) \/ SupplyToEarn(p) \/ Forfeit(p) \/ ClaimSteReward(p)
          \/ \E amount \in Deposits : ChangeDeposit(p, amount)
    \/ \E r \in Reserves, signer \in Operators :
          \/ CloseReserveReward(signer, r)
          \/ \E apy \in Yields : InitReserveReward(signer, r, apy) \/ ChangeSupplyApy(signer, r, apy)

Next == Tick \/ Administer \/ RewardBorrowers \/ RewardSuppliers

ReearnSpec == Init /\ [][Next]_reearnVars

-----------------------------------------------------------------------------
\* Properties.

\* A borrower never gets more than the operator granted: a reward is paid once,
\* at the exponent it was granted with, and one that was replaced is not paid.
ClaimsAreGranted ==
    \A o \in Obligations : obligation_reward[o].live =>
        borrower[o].claimed
            + Worth(obligation_reward[o].reward_amount, obligation_reward[o].exponent)
                =< borrower[o].granted

\* However refreshes, claims and changes of the lock duration follow each other,
\* two grants are more than the shortest lock duration apart, and two claims at
\* least as much.
OncePerLockDuration ==
    \A o \in Obligations : obligation_reward[o].live =>
        /\ borrower[o].grants * (Shortest + 1) =< now - borrower[o].since
        /\ borrower[o].claims * Shortest =< now - borrower[o].since

\* While neither the yield nor the deposit changes, the refreshes and claims in
\* between, and when they come, make no difference: together they earn what one
\* refresh at the end would, but for a part of a unit that each rounds off.
RefreshesSplitTheReward ==
    \A p \in Pairs :
        reserve_reward[p].live /\ supply_apy[p[2]].live /\ deposited[p] > 0 =>
            LET once == CalculateReward(supply_apy[p[2]], deposited[p],
                                        reserve_reward[p].last_supply, stretch[p].since) IN
            /\ stretch[p].earned =< once
            /\ once =< stretch[p].earned + stretch[p].refreshes

\* The variables keep their types: the clocks of a reward are never ahead of the
\* present, the vault is never overdrawn and only exponents that can be paid out
\* are stored.
LockedReward == [live : {TRUE}, last_claimed : 0..now, last_updated : 0..now,
                 reward_amount : Nat, exponent : {e \in Exponents \cup {0} : e =< 0}]
TypeOK ==
    /\ now \in Nat
    /\ config \in {Nothing} \cup [live : {TRUE}, operator : Operators,
                                  lock_duration : LockDurations \cup {DAY}]
    /\ obligation_reward \in [Obligations -> {Nothing} \cup LockedReward]
    /\ supply_apy \in [Reserves -> {Nothing} \cup {Opened(apy) : apy \in Yields}]
    /\ reserve_reward \in [Pairs -> {Nothing} \cup
          [live : {TRUE}, accumulated_reward_amount : Nat, last_supply : 0..now]]
    /\ deposited \in [Pairs -> Nat]
    /\ vault \in [Tokens -> Nat]
    /\ borrower \in [Obligations ->
          [granted : Int, claimed : Int, grants : Nat, claims : Nat, since : Nat]]
    /\ stretch \in [Pairs -> [since : Nat, earned : Int, refreshes : Nat]]
=============================================================================
