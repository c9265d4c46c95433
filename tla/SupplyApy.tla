----------------------------- MODULE SupplyApy -----------------------------
(***************************************************************************)
(* What a deposit earns under a yield                                      *)
(* (reearn/programs/reearn_program/src/state/supply_to_earn.rs).  A yield  *)
(* is a record with rate, token, start_time and end_time.  rate stands for *)
(* the whole percents of the float apy times 10^token_decimals, and Unit   *)
(* for 10^mint_decimals * 31536000 * 100: every quotient the code          *)
(* truncates on the way keeps all multiples of 10^-18, so that its floor   *)
(* is the floor of the exact quotient.                                     *)
(***************************************************************************)
EXTENDS Integers

CONSTANT Unit

ASSUME UnitAssumption == Unit \in Nat \ {0}

Earlier(s, t) == IF s =< t THEN s ELSE t
Later(s, t) == IF s =< t THEN t ELSE s

\* get_rewardable_duration, of a window that does not end before it starts: the
\* code casts a negative duration to an unsigned number.
GetRewardableDuration(apy, current_time, last_supply) ==
    CASE current_time < apy.start_time -> 0
      [] current_time \in apy.start_time..apy.end_time ->
            current_time - Later(last_supply, apy.start_time)
      [] current_time > apy.end_time /\ last_supply < apy.start_time ->
            apy.end_time - apy.start_time
      [] current_time > apy.end_time /\ last_supply >= apy.start_time ->
            apy.end_time - Earlier(last_supply, apy.end_time)

\* calculate_reward.
CalculateReward(apy, supply_amount, current_time, last_supply) ==
    (supply_amount * apy.rate * GetRewardableDuration(apy, current_time, last_supply)) \div Unit
=============================================================================
