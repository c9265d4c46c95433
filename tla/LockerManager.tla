--------------------------- MODULE LockerManager ---------------------------
(***************************************************************************)
(* The locker manager (restaking/programs/locker-manager): lockers that    *)
(* vest by a schedule, and may be spent before by programs of a whitelist. *)
(* A locker with a reward keeper is also asked for by the pool reward      *)
(* keeper (restaking/programs/pool-reward-keeper).                         *)
(*                                                                         *)
(* deposit_from_whitelist is not an action: it compares the vault's amount *)
(* with itself, read from one copy of the account before and after the     *)
(* relayed call, and fails for a deposit of zero.  For the same reason     *)
(* withdraw_to_whitelist counts no tokens, whichever way they move.        *)
(*                                                                         *)
(* Left out: signatures and address checks, and what a whitelisted program *)
(* does with the tokens it holds.                                          *)
(***************************************************************************)
EXTENDS Vesting, Sequences, SequencesExt

CONSTANTS Lockers, Programs,
          DefaultEntry,     \* what a new whitelist is full of
          WHITELIST_SIZE,
          Admins,           \* keys that may come to be the authority
          Accounts          \* pool token accounts of stakers (external)

\* Bounds and inputs.
CONSTANTS Schedules, Deposits, WithdrawAmounts, RelayAmounts, MaxTime

ASSUME DepositsAssumption == Deposits \subseteq Nat \ {0}
ASSUME WithdrawAmountsAssumption == WithdrawAmounts \subseteq Nat /\ RelayAmounts \subseteq Int
ASSUME SchedulesAssumption ==
    Schedules \subseteq [start_ts : Nat, end_ts : Nat, period_count : Nat]

VARIABLES now,          \* the clock, in seconds
          authority, whitelist,
          locker,       \* the locker accounts
          vault,        \* [locker -> tokens in its vault]
          custody,      \* [locker -> its tokens in programs of the whitelist]
          staked        \* [account -> pool tokens in it] (external)
lockerVars == <<now, authority, whitelist, locker, vault, custody, staked>>

NoLocker == [live |-> FALSE]

\* initialize.
Init ==
    /\ now = 0
    /\ authority \in Admins
    /\ whitelist = [i \in 1..WHITELIST_SIZE |-> DefaultEntry]
    /\ locker = [l \in Lockers |-> NoLocker]
    /\ vault = [l \in Lockers |-> 0]
    /\ custody = [l \in Lockers |-> 0]
    /\ staked = [a \in Accounts |-> 0]

Tick ==
    /\ now < MaxTime
    /\ now' = now + 1
    /\ UNCHANGED <<authority, whitelist, locker, vault, custody, staked>>

\* Stakes and unstakes in the pool.
Restake(a, n) ==
    /\ staked' = [staked EXCEPT ![a] = n]
    /\ UNCHANGED <<now, authority, whitelist, locker, vault, custody>>

-----------------------------------------------------------------------------
\* The whitelist.

\* add_whitelist.
AddWhitelist(admin, p) ==
    /\ admin = authority
    /\ Len(whitelist) # WHITELIST_SIZE
    /\ ~Contains(whitelist, p)
    /\ whitelist' = Append(whitelist, p)
    /\ UNCHANGED <<now, authority, locker, vault, custody, staked>>

\* remove_whitelist.
RemoveWhitelist(admin, p) ==
    /\ admin = authority
    /\ Contains(whitelist, p)
    /\ whitelist' = SelectSeq(whitelist, LAMBDA e : e # p)
    /\ UNCHANGED <<now, authority, locker, vault, custody, staked>>

\* set_authority.
SetAuthority(admin, new_authority) ==
    /\ admin = authority
    /\ authority' = new_authority
    /\ UNCHANGED <<now, whitelist, locker, vault, custody, staked>>

-----------------------------------------------------------------------------
\* Lockers.

\* create_locker.
CreateLocker(l, schedule, deposit, kept) ==
    /\ ~locker[l].live
    /\ ValidSchedule(schedule.start_ts, schedule.end_ts, schedule.period_count)
    /\ locker' = [locker EXCEPT ![l] =
          [live |-> TRUE, start_ts |-> schedule.start_ts, end_ts |-> schedule.end_ts,
           period_count |-> schedule.period_count, start_balance |-> deposit,
           current_balance |-> deposit, whitelist_owned |-> 0, reward_keeper |-> kept]]
    /\ vault' = [vault EXCEPT ![l] = @ + deposit]
    /\ UNCHANGED <<now, authority, whitelist, custody, staked>>

\* check_releasability, of this program and of the keeper it calls: the caller
\* names two pool token accounts, which must be empty.
Releasable(l, a, b) == locker[l].reward_keeper => staked[a] + staked[b] = 0

\* withdraw.
BalanceKept(l, n) == locker[l].current_balance
BalanceAfter(l, n) == locker[l].current_balance - n
Withdraw(l, n, a, b) ==
    /\ locker[l].live
    /\ Releasable(l, a, b)
    /\ LinearUnlockDefined(locker[l], now)
    /\ n =< AvailableForWithdrawal(locker[l], now)
    /\ vault[l] >= n
    /\ vault' = [vault EXCEPT ![l] = @ - n]
    /\ locker' = [locker EXCEPT ![l].current_balance = BalanceAfter(l, n)]
    /\ UNCHANGED <<now, authority, whitelist, custody, staked>>

\* withdraw_to_whitelist: the called program takes n tokens, or gives -n back.
\* The amount counted is the difference of one copy with itself.
CountedAmount(n) == 0
WithdrawToWhitelist(l, p, n, amount) ==
    /\ locker[l].live
    /\ Contains(whitelist, p)
    /\ vault[l] >= n /\ custody[l] >= -n
    /\ CountedAmount(n) =< amount
    /\ vault' = [vault EXCEPT ![l] = @ - n]
    /\ custody' = [custody EXCEPT ![l] = @ + n]
    /\ locker' = [locker EXCEPT ![l].whitelist_owned = @ + CountedAmount(n)]
    /\ UNCHANGED <<now, authority, whitelist, staked>>

-----------------------------------------------------------------------------
Next ==
    \/ Tick
    \/ \E a \in Accounts, n \in {0, 1} : Restake(a, n)
    \/ \E admin \in Admins :
          \/ \E p \in Programs \cup {DefaultEntry} :
                AddWhitelist(admin, p) \/ RemoveWhitelist(admin, p)
          \/ \E new_authority \in Admins : SetAuthority(admin, new_authority)
    \/ \E l \in Lockers :
          \/ \E schedule \in Schedules, deposit \in Deposits, kept \in BOOLEAN :
                CreateLocker(l, schedule, deposit, kept)
          \/ \E n \in WithdrawAmounts, a, b \in Accounts : Withdraw(l, n, a, b)
          \/ \E p \in Programs, n \in RelayAmounts, amount \in WithdrawAmounts :
                WithdrawToWhitelist(l, p, n, amount)

LockerSpec == Init /\ [][Next]_lockerVars

-----------------------------------------------------------------------------
\* Properties.

Live == {l \in Lockers : locker[l].live}

\* What was withdrawn from a locker had vested, at any later time too: the
\* unlocked amount never falls as time passes, so that the unsigned subtraction
\* of what was withdrawn never fails and nothing leaves before its time.
WithdrawnIsVested ==
    \A l \in Live : WithdrawnAmount(locker[l]) =< TotalVested(locker[l], now)

\* At no time, with the start moved back, the overflow and the rounded periods,
\* does more unlock than was deposited.
VestsAtMostDeposit ==
    \A l \in Live : TotalVested(locker[l], now) \in 0..locker[l].start_balance

\* What a locker counts as its balance is in its vault or in the custody of a
\* program of the whitelist.
BalanceIsSomewhere ==
    \A l \in Live : locker[l].current_balance = vault[l] + custody[l]

\* whitelist_owned is, as its comment says, the amount of tokens in custody of
\* whitelisted programs.
OwnedIsCustody == \A l \in Live : locker[l].whitelist_owned = custody[l]
=============================================================================
