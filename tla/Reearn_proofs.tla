---------------------------- MODULE Reearn_proofs ----------------------------
(***************************************************************************)
(* Theorems about module Reearn: types, what borrowers are paid, and that  *)
(* refreshing often earns what refreshing once does.                       *)
(***************************************************************************)
EXTENDS Reearn, TLAPS

-----------------------------------------------------------------------------
\* What a deposit earns.

\* Quotients of naturals are naturals, and nearly add up.
LEMMA QuotientNat ==
  ASSUME NEW a \in Nat, NEW b \in Nat \ {0}
  PROVE  /\ a \div b \in Nat
         /\ (a \div b) * b =< a
         /\ a < (a \div b) * b + b
BY SMT

LEMMA QuotientsAdd ==
  ASSUME NEW a \in Nat, NEW c \in Nat, NEW b \in Nat \ {0}
  PROVE  /\ (a \div b) + (c \div b) =< (a + c) \div b
         /\ (a + c) \div b =< (a \div b) + (c \div b) + 1
<1> DEFINE x == a \div b
           y == c \div b
           z == (a + c) \div b
<1>1. /\ x \in Nat /\ x * b =< a /\ a < x * b + b
      /\ y \in Nat /\ y * b =< c /\ c < y * b + b
      /\ z \in Nat /\ z * b =< a + c /\ a + c < z * b + b
  BY QuotientNat
<1> HIDE DEF x, y, z
<1>2. (x + y) * b = x * b + y * b /\ (x + y + 2) * b = x * b + y * b + b + b
      /\ (z + 1) * b = z * b + b
  BY <1>1, SMT
<1>3. x + y < z + 1
  <2>1. CASE z + 1 =< x + y
    <3>1. (z + 1) * b =< (x + y) * b
      BY <1>1, <2>1, SMT
    <3> QED BY <1>1, <1>2, <3>1, SMT
  <2> QED BY <1>1, <2>1, SMT
<1>4. z < x + y + 2
  <2>1. CASE x + y + 2 =< z
    <3>1. (x + y + 2) * b =< z * b
      BY <1>1, <2>1, SMT
    <3> QED BY <1>1, <1>2, <3>1, SMT
  <2> QED BY <1>1, <2>1, SMT
<1>5. x + y =< z /\ z =< x + y + 1
  BY <1>1, <1>3, <1>4, SMT
<1> QED BY <1>5 DEF x, y, z

\* The yields an operator may open: their windows do not end before they start.
OpenYields ==
    {apy \in [live : {TRUE}, rate : Nat, token : Tokens, start_time : Nat, end_time : Nat] :
        apy.start_time =< apy.end_time}

\* The rewardable duration is the overlap of the time since the last refresh with
\* the window, and the overlaps of consecutive times add up.
LEMMA DurationsAdd ==
  ASSUME NEW apy \in OpenYields, NEW s \in Nat, NEW t \in Nat, NEW u \in Nat, s =< t, t =< u
  PROVE  /\ GetRewardableDuration(apy, t, s) \in Nat
         /\ GetRewardableDuration(apy, t, t) = 0
         /\ GetRewardableDuration(apy, u, s)
              = GetRewardableDuration(apy, t, s) + GetRewardableDuration(apy, u, t)
<1> DEFINE a == apy.start_time
           b == apy.end_time
<1>1. a \in Nat /\ b \in Nat /\ a =< b
  BY DEF OpenYields
<1>2. ASSUME NEW x \in Nat, NEW y \in Nat, x =< y
      PROVE  GetRewardableDuration(apy, y, x)
               = IF y < a THEN 0
                 ELSE IF y =< b THEN (IF x =< a THEN y - a ELSE y - x)
                 ELSE IF x < a THEN b - a
                 ELSE (IF x =< b THEN b - x ELSE 0)
  BY <1>1, <1>2, SMT DEF GetRewardableDuration, Earlier, Later
<1> HIDE DEF a, b
<1> QED BY <1>1, <1>2, SMT

LEMMA RewardsAdd ==
  ASSUME NEW apy \in OpenYields, NEW n \in Nat,
         NEW s \in Nat, NEW t \in Nat, NEW u \in Nat, s =< t, t =< u
  PROVE  /\ CalculateReward(apy, n, t, s) \in Nat
         /\ CalculateReward(apy, n, t, t) = 0
         /\ CalculateReward(apy, n, t, s) + CalculateReward(apy, n, u, t)
              =< CalculateReward(apy, n, u, s)
         /\ CalculateReward(apy, n, u, s)
              =< CalculateReward(apy, n, t, s) + CalculateReward(apy, n, u, t) + 1
<1> DEFINE k == n * apy.rate
           d == GetRewardableDuration(apy, t, s)
           e == GetRewardableDuration(apy, u, t)
<1>1. k \in Nat
  BY SMT DEF OpenYields
<1>2. /\ d \in Nat /\ e \in Nat
      /\ GetRewardableDuration(apy, u, s) = d + e
      /\ GetRewardableDuration(apy, t, t) = 0
  <2>1. /\ GetRewardableDuration(apy, t, s) \in Nat
        /\ GetRewardableDuration(apy, t, t) = 0
        /\ GetRewardableDuration(apy, u, s)
             = GetRewardableDuration(apy, t, s) + GetRewardableDuration(apy, u, t)
    BY DurationsAdd
  <2>2. GetRewardableDuration(apy, u, t) \in Nat
    BY DurationsAdd
  <2> QED BY <2>1, <2>2
<1> HIDE DEF k, d, e
<1>3. k * d \in Nat /\ k * e \in Nat /\ k * (d + e) = k * d + k * e /\ k * 0 = 0
  BY <1>1, <1>2, SMT
<1>4. (k * d) \div Unit \in Nat /\ 0 \div Unit = 0
  BY <1>3, QuotientNat, UnitAssumption, SMT
<1>5. /\ CalculateReward(apy, n, t, s) = (k * d) \div Unit
      /\ CalculateReward(apy, n, u, t) = (k * e) \div Unit
      /\ CalculateReward(apy, n, u, s) = (k * (d + e)) \div Unit
      /\ CalculateReward(apy, n, t, t) = (k * 0) \div Unit
  BY <1>2 DEF CalculateReward, k, d, e
<1> QED BY <1>3, <1>4, <1>5, QuotientsAdd, UnitAssumption

-----------------------------------------------------------------------------
\* Types.

PaidExponents == {e \in Exponents \cup {0} : e =< 0}

LEMMA WorthNat ==
  ASSUME NEW amount \in Nat, NEW expo \in PaidExponents
  PROVE  Worth(amount, expo) \in Nat
<1> DEFINE x == amount * BILLION
           y == BASE^(-expo)
<1>1. x \in Nat /\ y \in Nat \ {0}
  BY ScaleAssumption, SMT DEF PaidExponents
<1> HIDE DEF x, y
<1>2. x \div y \in Nat
  BY <1>1, QuotientNat
<1> QED BY <1>2 DEF Worth, x, y

LEMMA RewardNat ==
  ASSUME NEW apy \in OpenYields, NEW n \in Nat, NEW t \in Nat, NEW s \in Nat, s =< t
  PROVE  CalculateReward(apy, n, t, s) \in Nat
BY RewardsAdd

LEMMA OpenedYield ==
  ASSUME NEW apy \in Yields
  PROVE  Opened(apy) \in OpenYields
BY YieldsAssumption DEF Opened, OpenYields

\* The types as the other proofs use them.
LEMMA TypeFacts ==
  ASSUME TypeOK
  PROVE  /\ now \in Nat
         /\ config.live => config.lock_duration \in Nat /\ Shortest =< config.lock_duration
         /\ \A o \in Obligations : obligation_reward[o].live =>
               obligation_reward[o] \in LockedReward
         /\ \A r \in Reserves : supply_apy[r].live => supply_apy[r] \in OpenYields
         /\ \A p \in Pairs : reserve_reward[p].live =>
               /\ reserve_reward[p] \in [live : {TRUE}, accumulated_reward_amount : Nat,
                                         last_supply : 0..now]
               /\ reserve_reward[p].last_supply \in Nat
               /\ reserve_reward[p].last_supply =< now
         /\ \A p \in Pairs : deposited[p] \in Nat
<1>1. now \in Nat
  BY DEF TypeOK
<1>2. config.live => config.lock_duration \in Nat /\ Shortest =< config.lock_duration
  <2>1. config \in {Nothing} \cup [live : {TRUE}, operator : Operators,
                                   lock_duration : LockDurations \cup {DAY}]
    BY DEF TypeOK
  <2>2. CASE config.live
    <3>1. config # Nothing
      BY <2>2 DEF Nothing
    <3>2. config \in [live : {TRUE}, operator : Operators, lock_duration : LockDurations \cup {DAY}]
      BY <2>1, <3>1
    <3> QED BY <3>2, LocksAssumption
  <2> QED BY <2>2
<1>3. \A o \in Obligations : obligation_reward[o].live =>
         obligation_reward[o] \in LockedReward
  BY DEF TypeOK, Nothing
<1>4. \A r \in Reserves : supply_apy[r].live => supply_apy[r] \in OpenYields
  <2>1. \A r \in Reserves : supply_apy[r] \in {Nothing} \cup {Opened(apy) : apy \in Yields}
    BY DEF TypeOK
  <2> QED BY <2>1, OpenedYield DEF Nothing
<1>5. \A p \in Pairs : reserve_reward[p].live =>
         /\ reserve_reward[p] \in [live : {TRUE}, accumulated_reward_amount : Nat,
                                   last_supply : 0..now]
         /\ reserve_reward[p].last_supply \in Nat
         /\ reserve_reward[p].last_supply =< now
  <2>1. \A p \in Pairs : reserve_reward[p] \in {Nothing} \cup
           [live : {TRUE}, accumulated_reward_amount : Nat, last_supply : 0..now]
    BY DEF TypeOK
  <2>2. ASSUME NEW p \in Pairs, reserve_reward[p].live
        PROVE  reserve_reward[p] \in [live : {TRUE}, accumulated_reward_amount : Nat,
                                      last_supply : 0..now]
    <3>1. reserve_reward[p] # Nothing
      BY <2>2 DEF Nothing
    <3> QED BY <2>1, <2>2, <3>1
  <2>3. ASSUME NEW p \in Pairs, reserve_reward[p].live
        PROVE  reserve_reward[p].last_supply \in 0..now
    BY <2>2, <2>3
  <2>4. ASSUME NEW p \in Pairs, reserve_reward[p].live
        PROVE  reserve_reward[p].last_supply \in Nat /\ reserve_reward[p].last_supply =< now
    BY <1>1, <2>3, <2>4
  <2> QED BY <2>2, <2>4
<1>6. \A p \in Pairs : deposited[p] \in Nat
  BY DEF TypeOK
<1> QED BY <1>1, <1>2, <1>3, <1>4, <1>5, <1>6

LEMMA RewardOfPair ==
  ASSUME TypeOK, NEW p \in Pairs, reserve_reward[p].live, supply_apy[p[2]].live
  PROVE  CurrentReward(p) \in Nat
<1>1. p[2] \in Reserves
  BY DEF Pairs
<1>2. supply_apy[p[2]] \in OpenYields
  BY <1>1, TypeFacts
<1>3. /\ deposited[p] \in Nat /\ now \in Nat
      /\ reserve_reward[p].last_supply \in Nat /\ reserve_reward[p].last_supply =< now
  BY TypeFacts
<1> QED BY <1>2, <1>3, RewardNat DEF CurrentReward

LEMMA TypeInit == Init => TypeOK
<1>1. \A o \in Obligations, p \in Pairs : now = 0 /\ 0 \in Nat
         => [granted |-> 0, claimed |-> 0, grants |-> 0, claims |-> 0, since |-> 0]
               \in [granted : Int, claimed : Int, grants : Nat, claims : Nat, since : Nat]
  OBVIOUS
<1> QED BY <1>1 DEF Init, TypeOK

\* The variables of each part, by the actions that change them.
ConfigTyped ==
    config \in {Nothing} \cup [live : {TRUE}, operator : Operators,
                               lock_duration : LockDurations \cup {DAY}]
BorrowersTyped ==
    /\ obligation_reward \in [Obligations -> {Nothing} \cup LockedReward]
    /\ borrower \in [Obligations ->
          [granted : Int, claimed : Int, grants : Nat, claims : Nat, since : Nat]]
SuppliersTyped ==
    /\ supply_apy \in [Reserves -> {Nothing} \cup {Opened(apy) : apy \in Yields}]
    /\ reserve_reward \in [Pairs -> {Nothing} \cup
          [live : {TRUE}, accumulated_reward_amount : Nat, last_supply : 0..now]]
    /\ deposited \in [Pairs -> Nat]
    /\ stretch \in [Pairs -> [since : Nat, earned : Int, refreshes : Nat]]

LEMMA TickTyped == ASSUME TypeOK, Tick PROVE TypeOK'
<1>1. now \in Nat /\ now' \in Nat /\ 0..now \subseteq 0..now'
  BY SMT DEF TypeOK, Tick
<1>2. LockedReward \subseteq LockedReward'
  BY <1>1 DEF LockedReward
<1>3. BorrowersTyped'
  BY <1>2 DEF TypeOK, Tick, BorrowersTyped
<1>4. reserve_reward' \in [Pairs -> {Nothing} \cup
          [live : {TRUE}, accumulated_reward_amount : Nat, last_supply : 0..now']]
  <2>1. [live : {TRUE}, accumulated_reward_amount : Nat, last_supply : 0..now] \subseteq
          [live : {TRUE}, accumulated_reward_amount : Nat, last_supply : 0..now']
    BY <1>1
  <2>2. reserve_reward \in [Pairs -> {Nothing} \cup
          [live : {TRUE}, accumulated_reward_amount : Nat, last_supply : 0..now]]
    BY DEF TypeOK
  <2>3. reserve_reward' = reserve_reward
    BY DEF Tick
  <2> QED BY <2>1, <2>2, <2>3
<1>5. SuppliersTyped'
  BY <1>4 DEF TypeOK, Tick, SuppliersTyped
<1> QED BY <1>1, <1>3, <1>5 DEF TypeOK, ConfigTyped, BorrowersTyped, SuppliersTyped, Tick

LEMMA AdministerTyped == ASSUME TypeOK, Administer PROVE TypeOK'
<1>0. now' = now /\ BorrowersTyped' /\ SuppliersTyped'
  BY DEF TypeOK, ConfigTyped, BorrowersTyped, SuppliersTyped, Administer, Initialize, ChangeOperator, ChangeLockDuration, Supply, LockedReward
<1>1. ASSUME NEW operator \in Operators, Initialize(operator) PROVE TypeOK'
  BY <1>0, <1>1 DEF TypeOK, ConfigTyped, BorrowersTyped, SuppliersTyped, Initialize
<1>2. ASSUME NEW operator \in Operators, ChangeOperator(operator) PROVE TypeOK'
  <2>1. config # Nothing
    BY <1>2 DEF ChangeOperator, Nothing
  <2> QED BY <1>0, <1>2, <2>1 DEF TypeOK, ConfigTyped, BorrowersTyped, SuppliersTyped, ChangeOperator
<1>3. ASSUME NEW duration \in LockDurations, ChangeLockDuration(duration) PROVE TypeOK'
  <2>1. config # Nothing
    BY <1>3 DEF ChangeLockDuration, Nothing
  <2> QED BY <1>0, <1>3, <2>1 DEF TypeOK, ConfigTyped, BorrowersTyped, SuppliersTyped, ChangeLockDuration
<1>4. ASSUME NEW token \in Tokens, NEW amount \in Supplies, Supply(token, amount) PROVE TypeOK'
  <2>1. vault' \in [Tokens -> Nat]
    BY <1>4, InputsAssumption DEF TypeOK, ConfigTyped, BorrowersTyped, SuppliersTyped, Supply
  <2> QED BY <1>0, <1>4, <2>1 DEF TypeOK, ConfigTyped, BorrowersTyped, SuppliersTyped, Supply
<1> QED BY <1>1, <1>2, <1>3, <1>4 DEF Administer

LEMMA BorrowersStepTyped == ASSUME TypeOK, RewardBorrowers PROVE TypeOK'
<1>0. now' = now /\ ConfigTyped' /\ SuppliersTyped' /\ LockedReward' = LockedReward
  BY DEF TypeOK, ConfigTyped, BorrowersTyped, SuppliersTyped, RewardBorrowers, RegisterForEarn, RefreshReward, ClaimReward, LockedReward
<1>1. now \in Nat /\ now \in 0..now /\ vault \in [Tokens -> Nat] /\ BorrowersTyped
  BY DEF TypeOK, ConfigTyped, BorrowersTyped, SuppliersTyped
<1>2. ASSUME NEW signer \in Operators, NEW o \in Obligations, RegisterForEarn(signer, o)
      PROVE  TypeOK'
  <2>1. Unrewarded \in LockedReward
    BY <1>1 DEF Unrewarded, LockedReward
  <2>2. BorrowersTyped'
    BY <1>0, <1>1, <1>2, <2>1 DEF RegisterForEarn, BorrowersTyped
  <2> QED BY <1>0, <1>1, <1>2, <2>2 DEF TypeOK, ConfigTyped, BorrowersTyped, SuppliersTyped, RegisterForEarn
<1>3. ASSUME NEW signer \in Operators, NEW o \in Obligations, NEW amount \in Amounts,
             NEW expo \in Exponents, RefreshReward(signer, o, amount, expo)
      PROVE  TypeOK'
  <2>1. obligation_reward[o] \in LockedReward
    BY <1>3, TypeFacts DEF RefreshReward
  <2>2. amount \in Nat /\ expo \in PaidExponents
    BY <1>3, InputsAssumption DEF RefreshReward, PaidExponents
  <2>3. Refreshed(obligation_reward[o], amount, expo) \in LockedReward
    BY <1>1, <2>1, <2>2 DEF Refreshed, LockedReward, PaidExponents
  <2>4. Worth(amount, expo) \in Nat
    BY <2>2, WorthNat
  <2>5. BorrowersTyped'
    BY <1>0, <1>1, <1>3, <2>3, <2>4 DEF RefreshReward, BorrowersTyped
  <2> QED BY <1>0, <1>1, <1>3, <2>5 DEF TypeOK, ConfigTyped, BorrowersTyped, SuppliersTyped, RefreshReward
<1>4. ASSUME NEW o \in Obligations, ClaimReward(o) PROVE TypeOK'
  <2> DEFINE paid == Worth(obligation_reward[o].reward_amount, obligation_reward[o].exponent)
  <2>1. obligation_reward[o] \in LockedReward
    BY <1>4, TypeFacts DEF ClaimReward
  <2>2. paid \in Nat
    <3>1. obligation_reward[o].reward_amount \in Nat
          /\ obligation_reward[o].exponent \in PaidExponents
      BY <2>1 DEF LockedReward, PaidExponents
    <3> QED BY <3>1, WorthNat
  <2>3. Unrewarded \in LockedReward
    BY <1>1 DEF Unrewarded, LockedReward
  <2>4. vault[RELEND] >= paid /\ vault' = [vault EXCEPT ![RELEND] = @ - paid]
    BY <1>4 DEF ClaimReward
  <2>5. vault' \in [Tokens -> Nat] /\ vault[RELEND] - vault'[RELEND] \in Int
    <3> HIDE DEF paid
    <3> QED BY <1>1, <2>2, <2>4, TokensAssumption
  <2>6. BorrowersTyped'
    BY <1>0, <1>1, <1>4, <2>3, <2>5 DEF ClaimReward, BorrowersTyped
  <2> QED BY <1>0, <1>1, <2>5, <2>6 DEF TypeOK, ConfigTyped, BorrowersTyped, SuppliersTyped
<1> QED BY <1>2, <1>3, <1>4 DEF RewardBorrowers

LEMMA RestartTyped ==
  ASSUME TypeOK, NEW pairs
  PROVE  Restart(pairs) \in [Pairs -> [since : Nat, earned : Int, refreshes : Nat]]
<1>1. stretch \in [Pairs -> [since : Nat, earned : Int, refreshes : Nat]]
  BY DEF TypeOK
<1>2. \A p \in Pairs : reserve_reward[p].live => reserve_reward[p].last_supply \in Nat
  BY TypeFacts
<1> QED BY <1>1, <1>2 DEF Restart

LEMMA LongerTyped ==
  ASSUME TypeOK, NEW p \in Pairs, NEW gain \in Int
  PROVE  Longer(p, gain) \in [Pairs -> [since : Nat, earned : Int, refreshes : Nat]]
<1>1. stretch \in [Pairs -> [since : Nat, earned : Int, refreshes : Nat]]
  BY DEF TypeOK
<1>2. stretch[p] \in [since : Nat, earned : Int, refreshes : Nat]
  BY <1>1
<1> QED BY <1>1, <1>2 DEF Longer

LEMMA SuppliersStepTyped == ASSUME TypeOK, RewardSuppliers PROVE TypeOK'
<1>0. now' = now /\ ConfigTyped' /\ BorrowersTyped'
  BY DEF TypeOK, ConfigTyped, BorrowersTyped, RewardSuppliers, StartSupplyToEarn, SupplyToEarn,
     Forfeit, ClaimSteReward, ChangeDeposit, CloseReserveReward, InitReserveReward,
     ChangeSupplyApy, SetYield, LockedReward
<1>1. now \in Nat /\ now \in 0..now /\ vault \in [Tokens -> Nat] /\ SuppliersTyped
  <2>1. now \in Nat /\ vault \in [Tokens -> Nat] /\ SuppliersTyped
    BY DEF TypeOK, SuppliersTyped
  <2> QED BY <2>1
<1>2. ASSUME NEW p \in Pairs, StartSupplyToEarn(p) PROVE TypeOK'
  <2>1. [live |-> TRUE, accumulated_reward_amount |-> 0, last_supply |-> now]
          \in [live : {TRUE}, accumulated_reward_amount : Nat, last_supply : 0..now]
    BY <1>1
  <2>2. [since |-> now, earned |-> 0, refreshes |-> 0]
          \in [since : Nat, earned : Int, refreshes : Nat]
    BY <1>1
  <2>3. SuppliersTyped'
    BY <1>0, <1>1, <1>2, <2>1, <2>2 DEF SuppliersTyped, StartSupplyToEarn
  <2> QED BY <1>0, <1>1, <1>2, <2>3
      DEF TypeOK, ConfigTyped, BorrowersTyped, SuppliersTyped, StartSupplyToEarn
<1>3. ASSUME NEW p \in Pairs, SupplyToEarn(p) PROVE TypeOK'
  <2>1. /\ reserve_reward[p] \in [live : {TRUE}, accumulated_reward_amount : Nat,
                                  last_supply : 0..now]
        /\ CurrentReward(p) \in Nat
        /\ reserve_reward[p].accumulated_reward_amount \in Nat
        /\ reserve_reward[p].accumulated_reward_amount + CurrentReward(p) \in Nat
    <3>1. reserve_reward[p] \in [live : {TRUE}, accumulated_reward_amount : Nat,
                                 last_supply : 0..now]
      BY <1>3, TypeFacts DEF SupplyToEarn
    <3>2. CurrentReward(p) \in Nat
      BY <1>3, RewardOfPair DEF SupplyToEarn
    <3>3. reserve_reward[p].accumulated_reward_amount \in Nat
      BY <3>1
    <3>4. reserve_reward[p].accumulated_reward_amount + CurrentReward(p) \in Nat
      BY <3>2, <3>3
    <3> QED BY <3>1, <3>2, <3>3, <3>4
  <2>2. Accumulated(reserve_reward[p], CurrentReward(p))
          \in [live : {TRUE}, accumulated_reward_amount : Nat, last_supply : 0..now]
    BY <1>1, <2>1 DEF Accumulated
  <2>3. reserve_reward' = [reserve_reward EXCEPT ![p] =
            Accumulated(reserve_reward[p], CurrentReward(p))]
        /\ reserve_reward' \in [Pairs -> {Nothing} \cup
              [live : {TRUE}, accumulated_reward_amount : Nat, last_supply : 0..now]]
    BY <1>1, <1>3, <2>2 DEF SupplyToEarn, SuppliersTyped
  <2>4. reserve_reward'[p].accumulated_reward_amount \in Nat
    BY <1>1, <2>2, <2>3 DEF SuppliersTyped
  <2>5. reserve_reward'[p].accumulated_reward_amount
            - reserve_reward[p].accumulated_reward_amount \in Int
    BY <2>1, <2>4
  <2>6. stretch' \in [Pairs -> [since : Nat, earned : Int, refreshes : Nat]]
    BY <1>3, <2>5, LongerTyped DEF SupplyToEarn
  <2> QED BY <1>0, <1>1, <1>3, <2>3, <2>6
      DEF TypeOK, ConfigTyped, BorrowersTyped, SuppliersTyped, SupplyToEarn
<1>4. ASSUME NEW p \in Pairs, Forfeit(p) PROVE TypeOK'
  <2>1. reserve_reward[p] \in [live : {TRUE}, accumulated_reward_amount : Nat,
                               last_supply : 0..now]
    BY <1>4, TypeFacts DEF Forfeit
  <2>2. Emptied(reserve_reward[p])
          \in [live : {TRUE}, accumulated_reward_amount : Nat, last_supply : 0..now]
    BY <1>1, <2>1 DEF Emptied
  <2>3. [since |-> now, earned |-> 0, refreshes |-> 0]
          \in [since : Nat, earned : Int, refreshes : Nat]
    BY <1>1
  <2>4. SuppliersTyped'
    BY <1>0, <1>1, <1>4, <2>2, <2>3 DEF SuppliersTyped, Forfeit
  <2> QED BY <1>0, <1>1, <1>4, <2>4
      DEF TypeOK, ConfigTyped, BorrowersTyped, SuppliersTyped, Forfeit
<1>5. ASSUME NEW p \in Pairs, ClaimSteReward(p) PROVE TypeOK'
  <2> DEFINE token == supply_apy[p[2]].token
             total == reserve_reward[p].accumulated_reward_amount + CurrentReward(p)
  <2>1. /\ reserve_reward[p] \in [live : {TRUE}, accumulated_reward_amount : Nat,
                                  last_supply : 0..now]
        /\ CurrentReward(p) \in Nat
        /\ reserve_reward[p].accumulated_reward_amount \in Nat
    <3>1. reserve_reward[p] \in [live : {TRUE}, accumulated_reward_amount : Nat,
                                 last_supply : 0..now]
      BY <1>5, TypeFacts DEF ClaimSteReward
    <3>2. CurrentReward(p) \in Nat
      BY <1>5, RewardOfPair DEF ClaimSteReward
    <3>3. reserve_reward[p].accumulated_reward_amount \in Nat
      BY <3>1
    <3> QED BY <3>1, <3>2, <3>3
  <2>2. token \in Tokens
    BY <1>5, TypeFacts DEF ClaimSteReward, OpenYields, Pairs
  <2>3. total \in Nat
    BY <2>1
  <2>4. vault[token] >= total /\ vault' = [vault EXCEPT ![token] = @ - total]
    BY <1>5 DEF ClaimSteReward
  <2>5. Emptied(reserve_reward[p])
          \in [live : {TRUE}, accumulated_reward_amount : Nat, last_supply : 0..now]
    BY <1>1, <2>1 DEF Emptied
  <2>6. /\ reserve_reward' = [reserve_reward EXCEPT ![p] = Emptied(reserve_reward[p])]
        /\ stretch' = Longer(p, vault[token] - vault'[token]
                                  - reserve_reward[p].accumulated_reward_amount
                                  + reserve_reward'[p].accumulated_reward_amount)
    BY <1>5 DEF ClaimSteReward
  <2> HIDE DEF token, total
  <2>7. vault' \in [Tokens -> Nat] /\ vault[token] - vault'[token] \in Int
    BY <1>1, <2>2, <2>3, <2>4
  <2>8. reserve_reward'[p].accumulated_reward_amount \in Nat
        /\ reserve_reward' \in [Pairs -> {Nothing} \cup
              [live : {TRUE}, accumulated_reward_amount : Nat, last_supply : 0..now]]
    BY <1>1, <2>5, <2>6 DEF SuppliersTyped
  <2>9. stretch' \in [Pairs -> [since : Nat, earned : Int, refreshes : Nat]]
    <3> DEFINE gain == vault[token] - vault'[token]
                         - reserve_reward[p].accumulated_reward_amount
                         + reserve_reward'[p].accumulated_reward_amount
    <3>1. gain \in Int
      BY <2>1, <2>7, <2>8
    <3> HIDE DEF gain
    <3>2. Longer(p, gain) \in [Pairs -> [since : Nat, earned : Int, refreshes : Nat]]
      BY <3>1, LongerTyped
    <3> QED BY <2>6, <3>2 DEF gain
  <2> QED BY <1>0, <1>1, <1>5, <2>7, <2>8, <2>9
      DEF TypeOK, ConfigTyped, BorrowersTyped, SuppliersTyped, ClaimSteReward
<1>6. ASSUME NEW p \in Pairs, NEW amount \in Deposits, ChangeDeposit(p, amount) PROVE TypeOK'
  <2>1. amount \in Nat /\ stretch' \in [Pairs -> [since : Nat, earned : Int, refreshes : Nat]]
    BY <1>6, InputsAssumption, RestartTyped DEF ChangeDeposit
  <2> QED BY <1>0, <1>1, <1>6, <2>1
      DEF TypeOK, ConfigTyped, BorrowersTyped, SuppliersTyped, ChangeDeposit
<1>7. ASSUME NEW r \in Reserves, NEW apy, SetYield(r, apy),
             apy \in {Nothing} \cup {Opened(y) : y \in Yields}
      PROVE  TypeOK'
  <2>1. stretch' \in [Pairs -> [since : Nat, earned : Int, refreshes : Nat]]
    BY <1>7, RestartTyped DEF SetYield
  <2> QED BY <1>0, <1>1, <1>7, <2>1
      DEF TypeOK, ConfigTyped, BorrowersTyped, SuppliersTyped, SetYield
<1>8. ASSUME NEW r \in Reserves, NEW signer \in Operators, CloseReserveReward(signer, r)
      PROVE  TypeOK'
  BY <1>7, <1>8 DEF CloseReserveReward
<1>9. ASSUME NEW r \in Reserves, NEW signer \in Operators, NEW apy \in Yields,
             InitReserveReward(signer, r, apy) \/ ChangeSupplyApy(signer, r, apy)
      PROVE  TypeOK'
  BY <1>7, <1>9 DEF InitReserveReward, ChangeSupplyApy
<1> QED BY <1>2, <1>3, <1>4, <1>5, <1>6, <1>8, <1>9 DEF RewardSuppliers

LEMMA TypeStep == ASSUME TypeOK, [Next]_reearnVars PROVE TypeOK'
<1>1. CASE UNCHANGED reearnVars
  BY <1>1 DEF reearnVars, programVars, TypeOK, LockedReward
<1> QED BY <1>1, TickTyped, AdministerTyped, BorrowersStepTyped, SuppliersStepTyped DEF Next

\* The types hold whatever the lock durations, rewards and yields: in particular
\* no clock of a reward runs ahead and the vault is never overdrawn.
THEOREM Typed == ReearnSpec => []TypeOK
BY TypeInit, TypeStep, PTL DEF ReearnSpec

-----------------------------------------------------------------------------
\* Rewards for borrowers.

\* Inductive: the times of the last grant and the last claim bound how many there
\* were, and what can still be claimed is part of what was granted.
BorrowerOK(b, reward) ==
    IF reward.live
    THEN /\ b.claimed + Worth(reward.reward_amount, reward.exponent) =< b.granted
         /\ b.grants * (Shortest + 1) =< reward.last_updated - b.since
         /\ b.claims * Shortest =< reward.last_claimed - b.since
    ELSE b = [granted |-> 0, claimed |-> 0, grants |-> 0, claims |-> 0, since |-> 0]
BorrowInv == \A o \in Obligations : BorrowerOK(borrower[o], obligation_reward[o])

LEMMA BorrowInit == Init => BorrowInv
BY DEF Init, BorrowInv, BorrowerOK, Nothing

\* One more interval, no shorter than the last.
LEMMA OneMore ==
  ASSUME NEW n \in Nat, NEW d \in Nat, NEW x \in Int, NEW y \in Int, n * d =< x, x + d =< y
  PROVE  (n + 1) * d =< y
<1>1. (n + 1) * d = n * d + d /\ n * d \in Nat
  BY SMT
<1> QED BY <1>1, SMT

LEMMA BorrowStep ==
  ASSUME TypeOK, BorrowInv, [Next]_reearnVars
  PROVE  BorrowInv'
<1> DEFINE Borrower == [granted : Int, claimed : Int, grants : Nat, claims : Nat, since : Nat]
<1>1. /\ now \in Nat /\ borrower \in [Obligations -> Borrower]
      /\ obligation_reward \in [Obligations -> {Nothing} \cup LockedReward]
      /\ Shortest \in Nat /\ Shortest + 1 \in Nat
  BY LocksAssumption DEF TypeOK
<1>2. CASE UNCHANGED <<obligation_reward, borrower>>
  BY <1>2 DEF BorrowInv
<1>3. ASSUME NEW o \in Obligations,
             BorrowerOK(borrower'[o], obligation_reward'[o]),
             \A q \in Obligations \ {o} : /\ borrower'[q] = borrower[q]
                                          /\ obligation_reward'[q] = obligation_reward[q]
      PROVE  BorrowInv'
  BY <1>3 DEF BorrowInv
<1>4. ASSUME NEW signer \in Operators, NEW o \in Obligations, RegisterForEarn(signer, o)
      PROVE  BorrowInv'
  <2>1. Worth(0, 0) = 0
    <3>1. BASE^(-0) \in Nat \ {0} /\ 0 * BILLION = 0
      BY ScaleAssumption
    <3>2. \A n \in Nat \ {0} : 0 \div n = 0
      BY SMT
    <3> QED BY <3>1, <3>2 DEF Worth
  <2>2. /\ borrower' = [borrower EXCEPT ![o].since = now]
        /\ obligation_reward' = [obligation_reward EXCEPT ![o] = Unrewarded]
        /\ borrower[o] = [granted |-> 0, claimed |-> 0, grants |-> 0, claims |-> 0, since |-> 0]
    BY <1>4 DEF RegisterForEarn, BorrowInv, BorrowerOK
  <2>3. /\ borrower'[o] = [granted |-> 0, claimed |-> 0, grants |-> 0, claims |-> 0, since |-> now]
        /\ obligation_reward'[o] = Unrewarded
    BY <1>1, <2>2
  <2>4. 0 * (Shortest + 1) = 0 /\ 0 * Shortest = 0 /\ now - now = 0
    BY <1>1, SMT
  <2>5. BorrowerOK(borrower'[o], obligation_reward'[o])
    BY <2>1, <2>3, <2>4 DEF BorrowerOK, Unrewarded
  <2> QED BY <1>1, <1>3, <2>2, <2>5
<1>5. ASSUME NEW signer \in Operators, NEW o \in Obligations, NEW amount \in Amounts,
             NEW expo \in Exponents, RefreshReward(signer, o, amount, expo)
      PROVE  BorrowInv'
  <2> DEFINE b == borrower[o]
             reward == obligation_reward[o]
             after == Refreshed(reward, amount, expo)
  <2>1. /\ reward \in LockedReward /\ reward.live /\ b \in Borrower
        /\ config.lock_duration \in Nat /\ Shortest =< config.lock_duration
        /\ now - reward.last_updated > config.lock_duration
    BY <1>1, <1>5, TypeFacts DEF RefreshReward, IsOperator
  <2>2. /\ borrower' = [borrower EXCEPT ![o].granted = @ + Worth(amount, expo), ![o].grants = @ + 1]
        /\ obligation_reward' = [obligation_reward EXCEPT ![o] = after]
    BY <1>5 DEF RefreshReward
  <2>3. /\ Worth(amount, expo) \in Nat
        /\ Worth(reward.reward_amount, reward.exponent) \in Nat
    <3>1. amount \in Nat /\ expo \in PaidExponents
      BY <1>5, InputsAssumption DEF RefreshReward, PaidExponents
    <3>2. reward.reward_amount \in Nat /\ reward.exponent \in PaidExponents
      BY <2>1 DEF LockedReward, PaidExponents
    <3> QED BY <3>1, <3>2, WorthNat
  <2>4. /\ b.claimed + Worth(reward.reward_amount, reward.exponent) =< b.granted
        /\ b.grants * (Shortest + 1) =< reward.last_updated - b.since
        /\ b.claims * Shortest =< reward.last_claimed - b.since
    BY <2>1 DEF BorrowInv, BorrowerOK
  <2>5. /\ after.live /\ after.reward_amount = amount /\ after.exponent = expo
        /\ after.last_updated = now /\ after.last_claimed = reward.last_claimed
    BY <2>1 DEF Refreshed, LockedReward
  <2>6. /\ borrower'[o].granted = b.granted + Worth(amount, expo)
        /\ borrower'[o].grants = b.grants + 1
        /\ borrower'[o].claimed = b.claimed /\ borrower'[o].claims = b.claims
        /\ borrower'[o].since = b.since
        /\ obligation_reward'[o] = after
    BY <1>1, <2>2
  <2>7. /\ b.granted \in Int /\ b.claimed \in Int /\ b.grants \in Nat
        /\ b.claims \in Nat /\ b.since \in Nat
        /\ reward.last_updated \in Nat /\ reward.last_claimed \in Nat
    BY <1>1, <2>1 DEF LockedReward
  <2> HIDE DEF b, reward, after
  <2>8. b.claimed + Worth(amount, expo) =< b.granted + Worth(amount, expo)
    BY <2>3, <2>4, <2>7, SMT
  <2>9. (b.grants + 1) * (Shortest + 1) =< now - b.since
    <3>1. /\ reward.last_updated - b.since + (Shortest + 1) =< now - b.since
          /\ reward.last_updated - b.since \in Int /\ now - b.since \in Int
      BY <1>1, <2>1, <2>7, SMT
    <3> QED BY <1>1, <2>4, <2>7, <3>1, OneMore
  <2>10. BorrowerOK(borrower'[o], obligation_reward'[o])
    BY <2>4, <2>5, <2>6, <2>8, <2>9 DEF BorrowerOK
  <2> QED BY <1>1, <1>3, <2>2, <2>10
<1>6. ASSUME NEW o \in Obligations, ClaimReward(o)
      PROVE  BorrowInv'
  <2> DEFINE b == borrower[o]
             reward == obligation_reward[o]
             paid == Worth(reward.reward_amount, reward.exponent)
  <2>1. /\ reward \in LockedReward /\ reward.live /\ b \in Borrower
        /\ config.lock_duration \in Nat /\ Shortest =< config.lock_duration
        /\ now - reward.last_claimed >= config.lock_duration
    BY <1>1, <1>6, TypeFacts DEF ClaimReward, CheckClaimable
  <2>2. /\ borrower' = [borrower EXCEPT ![o].claimed = @ + vault[RELEND] - vault'[RELEND],
                                         ![o].claims = @ + 1]
        /\ vault' = [vault EXCEPT ![RELEND] = @ - paid]
        /\ obligation_reward' = [obligation_reward EXCEPT ![o] = Unrewarded]
    BY <1>6 DEF ClaimReward
  <2>3. paid \in Nat /\ Worth(0, 0) \in Int /\ Worth(0, 0) = 0
    <3>1. reward.reward_amount \in Nat /\ reward.exponent \in PaidExponents
      BY <2>1 DEF LockedReward, PaidExponents
    <3>2. BASE^(-0) \in Nat \ {0} /\ 0 * BILLION = 0
      BY ScaleAssumption
    <3>3. \A n \in Nat \ {0} : 0 \div n = 0
      BY SMT
    <3>4. Worth(0, 0) = 0
      BY <3>2, <3>3 DEF Worth
    <3> QED BY <3>1, <3>4, WorthNat
  <2>4. /\ b.claimed + paid =< b.granted
        /\ b.grants * (Shortest + 1) =< reward.last_updated - b.since
        /\ b.claims * Shortest =< reward.last_claimed - b.since
    BY <2>1 DEF BorrowInv, BorrowerOK
  <2>5. /\ b.granted \in Int /\ b.claimed \in Int /\ b.grants \in Nat
        /\ b.claims \in Nat /\ b.since \in Nat
        /\ reward.last_updated \in 0..now /\ reward.last_claimed \in 0..now
    BY <1>1, <2>1 DEF LockedReward
  <2>6. vault[RELEND] \in Nat /\ vault'[RELEND] = vault[RELEND] - paid
    BY <2>2, TokensAssumption DEF TypeOK
  <2>7. /\ borrower'[o].granted = b.granted
        /\ borrower'[o].grants = b.grants
        /\ borrower'[o].claimed = b.claimed + vault[RELEND] - vault'[RELEND]
        /\ borrower'[o].claims = b.claims + 1
        /\ borrower'[o].since = b.since
        /\ obligation_reward'[o] = Unrewarded
    BY <1>1, <2>2
  <2>8. /\ Unrewarded.live /\ Unrewarded.reward_amount = 0 /\ Unrewarded.exponent = 0
        /\ Unrewarded.last_updated = now /\ Unrewarded.last_claimed = now
    BY DEF Unrewarded
  <2> HIDE DEF b, reward, paid
  <2>9. b.claimed + vault[RELEND] - vault'[RELEND] + 0 =< b.granted
    BY <2>3, <2>4, <2>5, <2>6, SMT
  <2>10. b.grants * (Shortest + 1) =< now - b.since
    <3>1. b.grants * (Shortest + 1) \in Nat
      BY <1>1, <2>5, SMT
    <3> QED BY <1>1, <2>4, <2>5, <3>1, SMT
  <2>11. (b.claims + 1) * Shortest =< now - b.since
    <3>1. /\ reward.last_claimed - b.since + Shortest =< now - b.since
          /\ reward.last_claimed - b.since \in Int /\ now - b.since \in Int
      BY <1>1, <2>1, <2>5, SMT
    <3> QED BY <1>1, <2>4, <2>5, <3>1, OneMore
  <2>12. BorrowerOK(borrower'[o], obligation_reward'[o])
    BY <2>3, <2>7, <2>8, <2>9, <2>10, <2>11 DEF BorrowerOK
  <2> QED BY <1>1, <1>3, <2>2, <2>12
<1>7. Next => UNCHANGED <<obligation_reward, borrower>> \/ RewardBorrowers
  BY DEF Next, Tick, Administer, Initialize, ChangeOperator, ChangeLockDuration, Supply,
     RewardSuppliers, StartSupplyToEarn, SupplyToEarn, Forfeit, ClaimSteReward, ChangeDeposit,
     CloseReserveReward, InitReserveReward, ChangeSupplyApy, SetYield
<1>8. UNCHANGED reearnVars => UNCHANGED <<obligation_reward, borrower>>
  BY DEF reearnVars, programVars
<1> QED BY <1>2, <1>4, <1>5, <1>6, <1>7, <1>8 DEF RewardBorrowers

LEMMA BorrowInvariant == ReearnSpec => [](TypeOK /\ BorrowInv)
<1>1. Init => TypeOK /\ BorrowInv
  BY TypeInit, BorrowInit
<1>2. TypeOK /\ BorrowInv /\ [Next]_reearnVars => (TypeOK /\ BorrowInv)'
  BY TypeStep, BorrowStep
<1> QED BY <1>1, <1>2, PTL DEF ReearnSpec

\* A borrower never gets more than the operator granted.
THEOREM ClaimsGranted == ReearnSpec => []ClaimsAreGranted
<1>1. TypeOK /\ BorrowInv => ClaimsAreGranted
  BY DEF BorrowInv, BorrowerOK, ClaimsAreGranted
<1> QED BY <1>1, BorrowInvariant, PTL

\* No two grants and no two claims come closer than a lock duration.
THEOREM OncePerLock == ReearnSpec => []OncePerLockDuration
<1>1. ASSUME TypeOK, BorrowInv PROVE OncePerLockDuration
  <2>1. ASSUME NEW o \in Obligations, obligation_reward[o].live
        PROVE  /\ borrower[o].grants * (Shortest + 1) =< now - borrower[o].since
               /\ borrower[o].claims * Shortest =< now - borrower[o].since
    <3>1. /\ obligation_reward[o].last_updated \in 0..now
          /\ obligation_reward[o].last_claimed \in 0..now
      BY <1>1, <2>1, TypeFacts DEF LockedReward
    <3>2. now \in Nat /\ borrower[o] \in
            [granted : Int, claimed : Int, grants : Nat, claims : Nat, since : Nat]
      BY <1>1 DEF TypeOK
    <3>3. /\ borrower[o].grants \in Nat /\ borrower[o].claims \in Nat
          /\ borrower[o].since \in Nat
      BY <3>2
    <3>4. /\ borrower[o].grants * (Shortest + 1) \in Nat
          /\ borrower[o].claims * Shortest \in Nat
      BY <3>3, LocksAssumption, SMT
    <3>5. /\ borrower[o].grants * (Shortest + 1)
               =< obligation_reward[o].last_updated - borrower[o].since
          /\ borrower[o].claims * Shortest
               =< obligation_reward[o].last_claimed - borrower[o].since
      BY <1>1, <2>1 DEF BorrowInv, BorrowerOK
    <3> QED BY <3>1, <3>2, <3>3, <3>4, <3>5, SMT
  <2> QED BY <2>1 DEF OncePerLockDuration
<1> QED BY <1>1, BorrowInvariant, PTL

-----------------------------------------------------------------------------
\* Rewards for suppliers.

\* Inductive as it stands, but for the order of the times.
SplitOK(p) ==
    /\ stretch[p].since =< reserve_reward[p].last_supply
    /\ supply_apy[p[2]].live /\ deposited[p] > 0 =>
          LET once == CalculateReward(supply_apy[p[2]], deposited[p],
                                      reserve_reward[p].last_supply, stretch[p].since) IN
          /\ stretch[p].earned =< once
          /\ once =< stretch[p].earned + stretch[p].refreshes
SupplyInv == \A p \in Pairs : reserve_reward[p].live => SplitOK(p)

\* A stretch that has just started has earned nothing, and owes nothing.
LEMMA Started ==
  ASSUME TypeOK', NEW p \in Pairs, reserve_reward'[p].live,
         stretch'[p] = [since |-> reserve_reward'[p].last_supply, earned |-> 0, refreshes |-> 0]
  PROVE  SplitOK(p)'
<1> DEFINE t == reserve_reward'[p].last_supply
<1>1. t \in Nat /\ deposited'[p] \in Nat
  <2>1. reserve_reward'[p] # Nothing
    BY DEF Nothing
  <2>2. reserve_reward'[p] \in [live : {TRUE}, accumulated_reward_amount : Nat, last_supply : 0..now']
    BY <2>1 DEF TypeOK
  <2> QED BY <2>2 DEF TypeOK
<1>2. supply_apy'[p[2]].live => supply_apy'[p[2]] \in OpenYields
  <2>1. supply_apy'[p[2]] \in {Nothing} \cup {Opened(apy) : apy \in Yields}
    BY DEF TypeOK, Pairs
  <2> QED BY <2>1, OpenedYield DEF Nothing
<1>3. \A apy \in OpenYields : \A n, s \in Nat : CalculateReward(apy, n, s, s) = 0
  BY RewardsAdd
<1>4. supply_apy'[p[2]].live => CalculateReward(supply_apy'[p[2]], deposited'[p], t, t) = 0
  BY <1>1, <1>2, <1>3
<1>5. stretch'[p].since = t /\ stretch'[p].earned = 0 /\ stretch'[p].refreshes = 0
  OBVIOUS
<1> QED BY <1>1, <1>4, <1>5 DEF SplitOK

\* Nothing changes for a reward, its stretch, its yield and its deposit.
LEMMA Same ==
  ASSUME NEW p \in Pairs, SplitOK(p), reserve_reward'[p] = reserve_reward[p],
         stretch'[p] = stretch[p], supply_apy'[p[2]] = supply_apy[p[2]],
         deposited'[p] = deposited[p]
  PROVE  SplitOK(p)'
BY DEF SplitOK

\* A refresh, or a claim, at a later time.
LEMMA Refreshing ==
  ASSUME TypeOK, NEW p \in Pairs, reserve_reward[p].live, SplitOK(p),
         supply_apy[p[2]].live, deposited[p] > 0,
         UNCHANGED <<supply_apy, deposited>>,
         reserve_reward'[p].last_supply = now,
         stretch' = Longer(p, CurrentReward(p))
  PROVE  SplitOK(p)'
<1> DEFINE apy == supply_apy[p[2]]
           n == deposited[p]
           s == stretch[p].since
           t == reserve_reward[p].last_supply
           e == stretch[p].earned
           k == stretch[p].refreshes
<1>1. /\ apy \in OpenYields /\ n \in Nat /\ now \in Nat /\ t \in Nat /\ t =< now
  BY TypeFacts DEF Pairs
<1>2. stretch[p] \in [since : Nat, earned : Int, refreshes : Nat]
      /\ stretch \in [Pairs -> [since : Nat, earned : Int, refreshes : Nat]]
  BY DEF TypeOK
<1>3. s \in Nat /\ e \in Int /\ k \in Nat
  BY <1>2
<1>4. /\ s =< t
      /\ e =< CalculateReward(apy, n, t, s)
      /\ CalculateReward(apy, n, t, s) =< e + k
  BY DEF SplitOK
<1>5. /\ stretch'[p].since = s
      /\ stretch'[p].earned = e + CalculateReward(apy, n, now, t)
      /\ stretch'[p].refreshes = k + (IF t = now THEN 0 ELSE 1)
  BY <1>2 DEF Longer, CurrentReward
<1>6. /\ supply_apy'[p[2]] = apy /\ deposited'[p] = n
  OBVIOUS
<1> HIDE DEF apy, n, s, t, e, k
<1>7. /\ CalculateReward(apy, n, t, s) \in Nat
      /\ CalculateReward(apy, n, t, t) = 0
      /\ CalculateReward(apy, n, t, s) + CalculateReward(apy, n, now, t)
           =< CalculateReward(apy, n, now, s)
      /\ CalculateReward(apy, n, now, s)
           =< CalculateReward(apy, n, t, s) + CalculateReward(apy, n, now, t) + 1
  BY <1>1, <1>3, <1>4, RewardsAdd
<1>8. s =< now
  BY <1>1, <1>3, <1>4, SMT
<1>9. /\ CalculateReward(apy, n, now, t) \in Nat
      /\ CalculateReward(apy, n, now, s) \in Nat
  BY <1>1, <1>3, <1>8, RewardNat
<1>10. e + CalculateReward(apy, n, now, t) =< CalculateReward(apy, n, now, s)
  BY <1>3, <1>4, <1>7, <1>9, SMT
<1>11. CalculateReward(apy, n, now, s)
         =< e + CalculateReward(apy, n, now, t) + (k + (IF t = now THEN 0 ELSE 1))
  <2>1. CASE t = now
    BY <1>3, <1>4, <1>7, <1>9, <2>1, SMT
  <2>2. CASE t # now
    BY <1>3, <1>4, <1>7, <1>9, <2>2, SMT
  <2> QED BY <2>1, <2>2
<1> QED BY <1>5, <1>6, <1>8, <1>10, <1>11 DEF SplitOK

\* The step of one pair leaves the others as they are.
LEMMA OthersSame ==
  ASSUME SupplyInv, NEW p \in Pairs, UNCHANGED <<supply_apy, deposited>>,
         \A q \in Pairs \ {p} : /\ reserve_reward'[q] = reserve_reward[q]
                               /\ stretch'[q] = stretch[q],
         reserve_reward'[p].live => SplitOK(p)'
  PROVE  SupplyInv'
<1> SUFFICES ASSUME NEW q \in Pairs, reserve_reward'[q].live
             PROVE  SplitOK(q)'
  BY DEF SupplyInv
<1>1. CASE q = p
  BY <1>1
<1>2. CASE q # p
  <2>1. reserve_reward'[q] = reserve_reward[q] /\ stretch'[q] = stretch[q]
    BY <1>2
  <2>2. SplitOK(q)
    BY <2>1 DEF SupplyInv
  <2> QED BY <2>1, <2>2, Same
<1> QED BY <1>1, <1>2

\* What is earned per second changes for some pairs, whose stretches restart.
LEMMA Restarting ==
  ASSUME TypeOK, TypeOK', SupplyInv, NEW pairs, UNCHANGED reserve_reward,
         stretch' = Restart(pairs),
         \A q \in Pairs \ pairs : /\ supply_apy'[q[2]] = supply_apy[q[2]]
                                 /\ deposited'[q] = deposited[q]
  PROVE  SupplyInv'
<1> SUFFICES ASSUME NEW q \in Pairs, reserve_reward'[q].live
             PROVE  SplitOK(q)'
  BY DEF SupplyInv
<1>1. CASE q \in pairs
  <2>1. stretch'[q] = [since |-> reserve_reward'[q].last_supply, earned |-> 0, refreshes |-> 0]
    BY <1>1 DEF Restart
  <2> QED BY <2>1, Started
<1>2. CASE q \notin pairs
  <2>1. stretch'[q] = stretch[q]
    BY <1>2 DEF Restart
  <2>2. SplitOK(q)
    BY DEF SupplyInv
  <2> QED BY <1>2, <2>1, <2>2, Same
<1> QED BY <1>1, <1>2

LEMMA SupplyInit == Init => SupplyInv
BY DEF Init, SupplyInv, Nothing

LEMMA SupplyStep ==
  ASSUME TypeOK, TypeOK', SupplyInv, [Next]_reearnVars
  PROVE  SupplyInv'
<1>1. /\ reserve_reward \in [Pairs -> {Nothing} \cup
            [live : {TRUE}, accumulated_reward_amount : Nat, last_supply : 0..now]]
      /\ stretch \in [Pairs -> [since : Nat, earned : Int, refreshes : Nat]]
      /\ supply_apy \in [Reserves -> {Nothing} \cup {Opened(apy) : apy \in Yields}]
      /\ deposited \in [Pairs -> Nat]
  BY DEF TypeOK
<1>2. CASE UNCHANGED <<supply_apy, reserve_reward, deposited, stretch>>
  BY <1>2 DEF SupplyInv, SplitOK
<1>3. ASSUME NEW p \in Pairs, StartSupplyToEarn(p) PROVE SupplyInv'
  <2> DEFINE new == [live |-> TRUE, accumulated_reward_amount |-> 0, last_supply |-> now]
  <2>1. /\ reserve_reward'[p] = new
        /\ stretch'[p] = [since |-> now, earned |-> 0, refreshes |-> 0]
        /\ \A q \in Pairs \ {p} : /\ reserve_reward'[q] = reserve_reward[q]
                                 /\ stretch'[q] = stretch[q]
        /\ UNCHANGED <<supply_apy, deposited>>
    BY <1>1, <1>3 DEF StartSupplyToEarn
  <2>2. reserve_reward'[p].live /\ reserve_reward'[p].last_supply = now
    BY <2>1
  <2>3. SplitOK(p)'
    BY <2>1, <2>2, Started
  <2> QED BY <2>1, <2>3, OthersSame
<1>4. ASSUME NEW p \in Pairs, SupplyToEarn(p) PROVE SupplyInv'
  <2> DEFINE current == CurrentReward(p)
             a == reserve_reward[p].accumulated_reward_amount
             after == Accumulated(reserve_reward[p], current)
  <2>1. /\ reserve_reward[p].live /\ supply_apy[p[2]].live /\ deposited[p] > 0
        /\ SplitOK(p)
        /\ UNCHANGED <<supply_apy, deposited>>
        /\ reserve_reward' = [reserve_reward EXCEPT ![p] = after]
        /\ stretch' = Longer(p, reserve_reward'[p].accumulated_reward_amount - a)
    BY <1>4 DEF SupplyToEarn, SupplyInv
  <2>2. reserve_reward[p] \in [live : {TRUE}, accumulated_reward_amount : Nat,
                               last_supply : 0..now]
        /\ current \in Nat
    BY <2>1, TypeFacts, RewardOfPair
  <2>3. a \in Nat
    BY <2>2
  <2>4. after.accumulated_reward_amount = a + current /\ after.last_supply = now
    BY <2>2 DEF Accumulated
  <2>5. reserve_reward'[p] = after
    BY <1>1, <2>1
  <2> HIDE DEF current, a, after
  <2>6. reserve_reward'[p].accumulated_reward_amount - a = current
    BY <2>2, <2>3, <2>4, <2>5
  <2>7. stretch' = Longer(p, current)
    BY <2>1, <2>6
  <2>8. SplitOK(p)'
    BY <2>1, <2>4, <2>5, <2>7, Refreshing DEF current
  <2>9. \A q \in Pairs \ {p} : /\ reserve_reward'[q] = reserve_reward[q]
                             /\ stretch'[q] = stretch[q]
    BY <1>1, <2>1, <2>7 DEF Longer
  <2> QED BY <2>1, <2>8, <2>9, OthersSame
<1>5. ASSUME NEW p \in Pairs, Forfeit(p) PROVE SupplyInv'
  <2>1. /\ reserve_reward[p].live
        /\ reserve_reward' = [reserve_reward EXCEPT ![p] = Emptied(reserve_reward[p])]
        /\ stretch' = [stretch EXCEPT ![p] = [since |-> now, earned |-> 0, refreshes |-> 0]]
        /\ UNCHANGED <<supply_apy, deposited>>
    BY <1>5 DEF Forfeit
  <2>2. reserve_reward[p] \in [live : {TRUE}, accumulated_reward_amount : Nat,
                               last_supply : 0..now]
    BY <2>1, TypeFacts
  <2>3. Emptied(reserve_reward[p]).live /\ Emptied(reserve_reward[p]).last_supply = now
    BY <2>2 DEF Emptied
  <2>4. /\ reserve_reward'[p] = Emptied(reserve_reward[p])
        /\ stretch'[p] = [since |-> now, earned |-> 0, refreshes |-> 0]
        /\ \A q \in Pairs \ {p} : /\ reserve_reward'[q] = reserve_reward[q]
                                 /\ stretch'[q] = stretch[q]
    BY <1>1, <2>1
  <2>5. SplitOK(p)'
    BY <2>3, <2>4, Started
  <2> QED BY <2>1, <2>4, <2>5, OthersSame
<1>6. ASSUME NEW p \in Pairs, ClaimSteReward(p) PROVE SupplyInv'
  <2> DEFINE current == CurrentReward(p)
             a == reserve_reward[p].accumulated_reward_amount
             token == supply_apy[p[2]].token
             after == Emptied(reserve_reward[p])
  <2>1. /\ reserve_reward[p].live /\ supply_apy[p[2]].live /\ deposited[p] > 0
        /\ SplitOK(p)
        /\ UNCHANGED <<supply_apy, deposited>>
        /\ reserve_reward' = [reserve_reward EXCEPT ![p] = after]
        /\ vault' = [vault EXCEPT ![token] = @ - (a + current)]
        /\ stretch' = Longer(p, vault[token] - vault'[token] - a
                                  + reserve_reward'[p].accumulated_reward_amount)
    BY <1>6 DEF ClaimSteReward, SupplyInv
  <2>2. reserve_reward[p] \in [live : {TRUE}, accumulated_reward_amount : Nat,
                               last_supply : 0..now]
        /\ current \in Nat
    BY <2>1, TypeFacts, RewardOfPair
  <2>3. a \in Nat
    BY <2>2
  <2>4. after.accumulated_reward_amount = 0 /\ after.last_supply = now
    BY <2>2 DEF Emptied
  <2>5. reserve_reward'[p] = after
    BY <1>1, <2>1
  <2>6. token \in Tokens /\ vault \in [Tokens -> Nat]
    BY <2>1, TypeFacts DEF OpenYields, Pairs, TypeOK
  <2> HIDE DEF current, a, token, after
  <2>7. vault[token] - vault'[token] - a + reserve_reward'[p].accumulated_reward_amount = current
    <3>1. vault'[token] = vault[token] - (a + current) /\ vault[token] \in Nat
      BY <2>1, <2>6
    <3> QED BY <2>2, <2>3, <2>4, <2>5, <3>1
  <2>8. stretch' = Longer(p, current)
    BY <2>1, <2>7
  <2>9. SplitOK(p)'
    BY <2>1, <2>4, <2>5, <2>8, Refreshing DEF current
  <2>10. \A q \in Pairs \ {p} : /\ reserve_reward'[q] = reserve_reward[q]
                              /\ stretch'[q] = stretch[q]
    BY <1>1, <2>1, <2>8 DEF Longer
  <2> QED BY <2>1, <2>9, <2>10, OthersSame
<1>7. ASSUME NEW p \in Pairs, NEW amount \in Deposits, ChangeDeposit(p, amount)
      PROVE  SupplyInv'
  <2>1. /\ UNCHANGED reserve_reward /\ stretch' = Restart({p})
        /\ \A q \in Pairs \ {p} : /\ supply_apy'[q[2]] = supply_apy[q[2]]
                                 /\ deposited'[q] = deposited[q]
    BY <1>1, <1>7 DEF ChangeDeposit
  <2> QED BY <2>1, Restarting
<1>8. ASSUME NEW r \in Reserves, NEW apy, SetYield(r, apy)
      PROVE  SupplyInv'
  <2>1. /\ UNCHANGED reserve_reward /\ stretch' = Restart(OfReserve(r))
        /\ supply_apy' = [supply_apy EXCEPT ![r] = apy] /\ UNCHANGED deposited
    BY <1>8 DEF SetYield
  <2>2. ASSUME NEW q \in Pairs \ OfReserve(r)
        PROVE  supply_apy'[q[2]] = supply_apy[q[2]] /\ deposited'[q] = deposited[q]
    <3>1. q[2] \in Reserves /\ q[2] # r
      BY DEF Pairs, OfReserve
    <3> QED BY <1>1, <2>1, <3>1
  <2> QED BY <2>1, <2>2, Restarting
<1>9. ASSUME RewardSuppliers PROVE SupplyInv'
  BY <1>3, <1>4, <1>5, <1>6, <1>7, <1>8, <1>9
  DEF RewardSuppliers, CloseReserveReward, InitReserveReward, ChangeSupplyApy
<1>10. Next => UNCHANGED <<supply_apy, reserve_reward, deposited, stretch>> \/ RewardSuppliers
  BY DEF Next, Tick, Administer, Initialize, ChangeOperator, ChangeLockDuration, Supply,
     RewardBorrowers, RegisterForEarn, RefreshReward, ClaimReward
<1>11. UNCHANGED reearnVars => UNCHANGED <<supply_apy, reserve_reward, deposited, stretch>>
  BY DEF reearnVars, programVars
<1> QED BY <1>2, <1>9, <1>10, <1>11

\* Refreshing and claiming often earns what refreshing once would, but for a part
\* of a unit each time.
THEOREM RefreshesSplit == ReearnSpec => []RefreshesSplitTheReward
<1>1. Init => TypeOK /\ SupplyInv
  BY TypeInit, SupplyInit
<1>2. TypeOK /\ SupplyInv /\ [Next]_reearnVars => (TypeOK /\ SupplyInv)'
  BY TypeStep, SupplyStep
<1>3. TypeOK /\ SupplyInv => RefreshesSplitTheReward
  BY DEF SupplyInv, SplitOK, RefreshesSplitTheReward
<1> QED BY <1>1, <1>2, <1>3, PTL DEF ReearnSpec
=============================================================================
