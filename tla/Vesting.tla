------------------------------ MODULE Vesting ------------------------------
(***************************************************************************)
(* The unlock schedule of a locker                                         *)
(* (restaking/programs/locker-manager/src/calculator.rs).  A locker l is a *)
(* record with start_ts, end_ts, period_count, start_balance,              *)
(* current_balance and whitelist_owned.                                    *)
(***************************************************************************)
EXTENDS Integers

Smaller(a, b) == IF a =< b THEN a ELSE b

\* is_valid_schedule.
ValidSchedule(start_ts, end_ts, period_count) ==
    start_ts < end_ts /\ period_count \in 1..(end_ts - start_ts)

\* linear_unlock: the start moved back, the length of a period, how many have
\* passed, and what each of them unlocks.
ShiftedStart(l) == l.start_ts - ((l.end_ts - l.start_ts) % l.period_count)
PeriodSecs(l) == (l.end_ts - ShiftedStart(l)) \div l.period_count
PeriodsPassed(l, t) == (t - ShiftedStart(l)) \div PeriodSecs(l)
CurrentPeriod(l, t) == Smaller(PeriodsPassed(l, t), l.period_count)
RewardOverflow(l) == l.start_balance % l.period_count
RewardPerPeriod(l) == (l.start_balance - RewardOverflow(l)) \div l.period_count
LinearUnlock(l, t) ==
    IF CurrentPeriod(l, t) = 0 THEN 0
    ELSE CurrentPeriod(l, t) * RewardPerPeriod(l) + RewardOverflow(l)

\* The unsigned subtraction that moves the start back fails for a schedule that
\* starts within a period of the epoch.
LinearUnlockDefined(l, t) ==
    l.start_ts =< t /\ t < l.end_ts => ShiftedStart(l) >= 0

TotalVested(l, t) ==
    IF t < l.start_ts THEN 0
    ELSE IF t >= l.end_ts THEN l.start_balance
    ELSE LinearUnlock(l, t)

WithdrawnAmount(l) == l.start_balance - l.current_balance
Balance(l) == l.current_balance - l.whitelist_owned

\* available_for_withdrawal.
AvailableUnvested(l, t) == Balance(l)
AvailableForWithdrawal(l, t) == Smaller(TotalVested(l, t) - WithdrawnAmount(l), Balance(l))
=============================================================================
