------------------------ MODULE LockerManager_proofs ------------------------
(***************************************************************************)
(* For every schedule, deposit and sequence of calls: what a locker has    *)
(* unlocked never falls and never exceeds the deposit, what was withdrawn  *)
(* had vested, and a locker's balance is in its vault or in custody.       *)
(***************************************************************************)
EXTENDS LockerManager, TLAPS

\* A locker whose schedule is_valid_schedule admitted.
Scheduled(l) ==
    /\ l.start_ts \in Nat /\ l.end_ts \in Nat /\ l.period_count \in Nat
    /\ l.start_balance \in Nat
    /\ ValidSchedule(l.start_ts, l.end_ts, l.period_count)

SameSchedule(a, b) ==
    /\ b.start_ts = a.start_ts /\ b.end_ts = a.end_ts
    /\ b.period_count = a.period_count /\ b.start_balance = a.start_balance

LockerRecord == [live : {TRUE}, start_ts : Nat, end_ts : Nat, period_count : Nat,
                 start_balance : Nat, current_balance : Int, whitelist_owned : Int,
                 reward_keeper : BOOLEAN]

Typed ==
    /\ now \in Nat
    /\ locker \in [Lockers -> LockerRecord \cup {NoLocker}]
    /\ vault \in [Lockers -> Int] /\ custody \in [Lockers -> Int]

\* The inductive invariant: an account that is not created holds no tokens yet.
IInv ==
    /\ Typed
    /\ \A l \in Live : Scheduled(locker[l])
    /\ \A l \in Lockers \ Live : vault[l] = 0 /\ custody[l] = 0
    /\ WithdrawnIsVested
    /\ BalanceIsSomewhere

-----------------------------------------------------------------------------
\* Records.

\* The balances of a locker are integers.
LEMMA LockerFields ==
    ASSUME NEW a \in LockerRecord
    PROVE  /\ a.start_balance \in Int /\ a.current_balance \in Int
           /\ a.whitelist_owned \in Int
           /\ WithdrawnAmount(a) \in Int /\ Balance(a) \in Int
<1>1. a.start_balance \in Nat /\ a.current_balance \in Int /\ a.whitelist_owned \in Int
  BY DEF LockerRecord
<1> QED BY <1>1 DEF WithdrawnAmount, Balance

\* Writing one balance keeps the schedule.
LEMMA LockerWrites ==
    ASSUME NEW a \in LockerRecord, NEW x \in Int
    PROVE  /\ [a EXCEPT !.current_balance = x] \in LockerRecord
           /\ SameSchedule(a, [a EXCEPT !.current_balance = x])
           /\ [a EXCEPT !.current_balance = x].current_balance = x
           /\ [a EXCEPT !.whitelist_owned = x] \in LockerRecord
           /\ SameSchedule(a, [a EXCEPT !.whitelist_owned = x])
           /\ [a EXCEPT !.whitelist_owned = x].current_balance = a.current_balance
BY DEF LockerRecord, SameSchedule

-----------------------------------------------------------------------------
\* Arithmetic.

\* Integer division and remainder.
LEMMA Quotient ==
    ASSUME NEW a \in Nat, NEW b \in Nat \ {0}
    PROVE  /\ a \div b \in Nat
           /\ (a \div b) * b =< a
           /\ a < (a \div b) * b + b
           /\ a % b \in Nat /\ a % b =< a
BY SMT

\* A product of naturals grows with its first factor.
LEMMA ProductMonotone ==
    ASSUME NEW a \in Nat, NEW b \in Nat, NEW n \in Nat, a =< b
    PROVE  a * n \in Nat /\ a * n =< b * n
BY SMT

\* A quotient grows with its dividend.
LEMMA QuotientMonotone ==
    ASSUME NEW a \in Nat, NEW c \in Nat, NEW b \in Nat \ {0}, a =< c
    PROVE  a \div b =< c \div b
<1> DEFINE p == a \div b
           q == c \div b
<1>1. /\ p \in Nat /\ p * b =< a
      /\ q \in Nat /\ c < q * b + b
  BY Quotient
<1> HIDE DEF p, q
<1>2. CASE q + 1 =< p
  <2>1. (q + 1) * b =< p * b
    BY <1>1, <1>2, ProductMonotone
  <2>2. (q + 1) * b = q * b + b
    BY <1>1
  <2> QED BY <1>1, <2>1, <2>2, ProductMonotone
<1>3. p =< q
  BY <1>1, <1>2
<1> QED BY <1>3 DEF p, q

-----------------------------------------------------------------------------
\* The schedule.

\* A period lasts a second at least, and all periods together unlock at most the
\* deposit.
LEMMA ScheduleFacts ==
    ASSUME NEW l, Scheduled(l)
    PROVE  /\ ShiftedStart(l) \in Int /\ ShiftedStart(l) =< l.start_ts
           /\ PeriodSecs(l) \in Nat \ {0}
           /\ RewardOverflow(l) \in Nat /\ RewardPerPeriod(l) \in Nat
           /\ l.period_count * RewardPerPeriod(l) + RewardOverflow(l) =< l.start_balance
<1> DEFINE n == l.period_count
           d == l.end_ts - l.start_ts
           rem == d % n
           window == l.end_ts - ShiftedStart(l)
<1>1. n \in Nat \ {0} /\ d \in Nat /\ n =< d
  BY DEF Scheduled, ValidSchedule
<1>2. rem \in Nat
  BY <1>1, Quotient
<1>3. ShiftedStart(l) \in Int /\ ShiftedStart(l) =< l.start_ts /\ window = d + rem
  BY <1>2 DEF Scheduled, ShiftedStart
<1>4. window \in Nat /\ n =< window
  BY <1>1, <1>2, <1>3
<1>5. PeriodSecs(l) \in Nat \ {0}
  <2>1. window \div n \in Nat /\ window < (window \div n) * n + n
    BY <1>1, <1>4, Quotient
  <2>2. window \div n # 0
    <3>1. SUFFICES ASSUME window \div n = 0 PROVE FALSE
      OBVIOUS
    <3>2. window < 0 * n + n
      BY <2>1, <3>1
    <3> QED BY <1>1, <1>4, <3>2
  <2> QED BY <2>1, <2>2 DEF PeriodSecs
<1>6. RewardOverflow(l) \in Nat /\ l.start_balance - RewardOverflow(l) \in Nat
  <2>1. l.start_balance \in Nat
    BY DEF Scheduled
  <2>2. l.start_balance % n \in Nat /\ l.start_balance % n =< l.start_balance
    BY <1>1, <2>1, Quotient
  <2> QED BY <2>1, <2>2 DEF RewardOverflow
<1>7. /\ RewardPerPeriod(l) \in Nat
      /\ RewardPerPeriod(l) * n =< l.start_balance - RewardOverflow(l)
  BY <1>1, <1>6, Quotient DEF RewardPerPeriod
<1>8. n * RewardPerPeriod(l) = RewardPerPeriod(l) * n
  BY <1>1, <1>7
<1>9. n * RewardPerPeriod(l) \in Nat
  BY <1>1, <1>7, <1>8, ProductMonotone
<1> QED BY <1>3, <1>5, <1>6, <1>7, <1>8, <1>9 DEF Scheduled

\* From the start on, the periods passed are counted from zero to all of them.
LEMMA PeriodFacts ==
    ASSUME NEW l, Scheduled(l), NEW t \in Int, l.start_ts =< t
    PROVE  /\ t - ShiftedStart(l) \in Nat
           /\ PeriodsPassed(l, t) \in Nat
           /\ CurrentPeriod(l, t) \in Nat /\ CurrentPeriod(l, t) =< l.period_count
<1>1. t - ShiftedStart(l) \in Nat
  BY ScheduleFacts DEF Scheduled
<1>2. PeriodsPassed(l, t) \in Nat
  BY <1>1, ScheduleFacts, Quotient DEF PeriodsPassed
<1> QED BY <1>1, <1>2 DEF CurrentPeriod, Smaller, Scheduled

\* No more unlocks than was deposited.
LEMMA UnlockBounds ==
    ASSUME NEW l, Scheduled(l), NEW t \in Int, l.start_ts =< t
    PROVE  LinearUnlock(l, t) \in Nat /\ LinearUnlock(l, t) =< l.start_balance
<1> DEFINE c == CurrentPeriod(l, t)
           r == RewardPerPeriod(l)
           o == RewardOverflow(l)
<1>1. c \in Nat /\ c =< l.period_count /\ l.period_count \in Nat /\ l.start_balance \in Nat
  BY PeriodFacts DEF Scheduled
<1>2. r \in Nat /\ o \in Nat /\ l.period_count * r + o =< l.start_balance
  BY ScheduleFacts
<1> HIDE DEF c, r, o
<1>3. c * r \in Nat /\ c * r =< l.period_count * r /\ l.period_count * r \in Nat
  BY <1>1, <1>2, ProductMonotone
<1>4. LinearUnlock(l, t) = IF c = 0 THEN 0 ELSE c * r + o
  BY DEF LinearUnlock, c, r, o
<1> QED BY <1>1, <1>2, <1>3, <1>4

\* What has unlocked does not fall as time passes.
LEMMA UnlockMonotone ==
    ASSUME NEW l, Scheduled(l), NEW t \in Int, NEW u \in Int, l.start_ts =< t, t =< u
    PROVE  LinearUnlock(l, t) =< LinearUnlock(l, u)
<1> DEFINE c == CurrentPeriod(l, t)
           e == CurrentPeriod(l, u)
           r == RewardPerPeriod(l)
           o == RewardOverflow(l)
<1>1. l.start_ts =< u
  BY DEF Scheduled
<1>2. PeriodsPassed(l, t) =< PeriodsPassed(l, u)
  <2>1. /\ t - ShiftedStart(l) \in Nat /\ u - ShiftedStart(l) \in Nat
        /\ t - ShiftedStart(l) =< u - ShiftedStart(l)
    BY <1>1, PeriodFacts, ScheduleFacts
  <2> QED BY <2>1, ScheduleFacts, QuotientMonotone DEF PeriodsPassed
<1>3. c \in Nat /\ e \in Nat
  BY <1>1, PeriodFacts
<1>4. c =< e
  BY <1>1, <1>2, PeriodFacts DEF CurrentPeriod, Smaller, Scheduled
<1>5. r \in Nat /\ o \in Nat
  BY ScheduleFacts
<1>6. /\ LinearUnlock(l, t) = IF c = 0 THEN 0 ELSE c * r + o
      /\ LinearUnlock(l, u) = IF e = 0 THEN 0 ELSE e * r + o
  BY DEF LinearUnlock
<1> HIDE DEF c, e, r, o
<1>7. c * r \in Nat /\ e * r \in Nat /\ c * r =< e * r
  BY <1>3, <1>4, <1>5, ProductMonotone
<1> QED BY <1>3, <1>4, <1>5, <1>6, <1>7

\* The vested amount is within the deposit at every time, and does not fall.
LEMMA VestedBounds ==
    ASSUME NEW l, Scheduled(l), NEW t \in Int
    PROVE  TotalVested(l, t) \in Nat /\ TotalVested(l, t) =< l.start_balance
BY UnlockBounds DEF TotalVested, Scheduled

LEMMA VestedMonotone ==
    ASSUME NEW l, Scheduled(l), NEW t \in Int, NEW u \in Int, t =< u
    PROVE  TotalVested(l, t) =< TotalVested(l, u)
<1>1. CASE t < l.start_ts
  BY <1>1, VestedBounds DEF TotalVested
<1>2. CASE u >= l.end_ts
  BY <1>2, VestedBounds DEF TotalVested, Scheduled, ValidSchedule
<1>3. CASE l.start_ts =< t /\ u < l.end_ts
  BY <1>3, UnlockMonotone DEF TotalVested, Scheduled
<1> QED BY <1>1, <1>2, <1>3 DEF Scheduled

\* Lockers of one schedule have vested the same.
LEMMA ScheduleKept ==
    ASSUME NEW a, NEW b, SameSchedule(a, b), NEW t
    PROVE  (Scheduled(a) => Scheduled(b)) /\ TotalVested(b, t) = TotalVested(a, t)
BY DEF SameSchedule, Scheduled, TotalVested, LinearUnlock, CurrentPeriod, PeriodsPassed,
       PeriodSecs, ShiftedStart, RewardPerPeriod, RewardOverflow

-----------------------------------------------------------------------------
\* The invariant.

LEMMA InitIInv == Init => IInv
BY DEF Init, IInv, Typed, Live, NoLocker, WithdrawnIsVested, BalanceIsSomewhere

\* Time passes.
LEMMA TickIInv == IInv /\ Tick => IInv'
<1> SUFFICES ASSUME IInv, Tick PROVE IInv'
  OBVIOUS
<1>1. now \in Nat /\ now' = now + 1 /\ UNCHANGED <<locker, vault, custody>>
  BY DEF IInv, Typed, Tick
<1>2. ASSUME NEW l \in Live
      PROVE  WithdrawnAmount(locker[l]) =< TotalVested(locker[l], now + 1)
  <2>1. locker[l] \in LockerRecord /\ Scheduled(locker[l])
    BY <1>2 DEF IInv, Typed, Live, NoLocker
  <2>2. WithdrawnAmount(locker[l]) \in Int
    BY <2>1, LockerFields
  <2>3. /\ TotalVested(locker[l], now) =< TotalVested(locker[l], now + 1)
        /\ TotalVested(locker[l], now) \in Nat /\ TotalVested(locker[l], now + 1) \in Nat
    BY <1>1, <2>1, VestedMonotone, VestedBounds
  <2>4. WithdrawnAmount(locker[l]) =< TotalVested(locker[l], now)
    BY <1>2 DEF IInv, WithdrawnIsVested
  <2> QED BY <2>2, <2>3, <2>4
<1>3. Live' = Live
  BY <1>1 DEF Live
<1>4. Typed' /\ BalanceIsSomewhere'
  BY <1>1, <1>3 DEF IInv, Typed, BalanceIsSomewhere
<1>5. WithdrawnIsVested'
  BY <1>1, <1>2, <1>3 DEF WithdrawnIsVested
<1>6. /\ \A l \in Live' : Scheduled(locker'[l])
      /\ \A l \in Lockers \ Live' : vault'[l] = 0 /\ custody'[l] = 0
  BY <1>1, <1>3 DEF IInv
<1> QED BY <1>4, <1>5, <1>6 DEF IInv

\* Writing one locker, with what it needs: a record of the type, scheduled, its
\* withdrawn amount vested and its balance somewhere.
LEMMA WriteIInv ==
    ASSUME IInv, NEW l \in Lockers, NEW rec \in LockerRecord, NEW v \in Int, NEW c \in Int,
           now' = now,
           locker' = [locker EXCEPT ![l] = rec],
           vault' = [vault EXCEPT ![l] = v],
           custody' = [custody EXCEPT ![l] = c],
           Scheduled(rec),
           WithdrawnAmount(rec) =< TotalVested(rec, now),
           rec.current_balance = v + c
    PROVE  IInv'
<1>1. locker'[l] = rec /\ vault'[l] = v /\ custody'[l] = c
  BY DEF IInv, Typed
<1>2. \A k \in Lockers \ {l} :
          locker'[k] = locker[k] /\ vault'[k] = vault[k] /\ custody'[k] = custody[k]
  BY DEF IInv, Typed
<1>3. rec.live = TRUE
  BY DEF LockerRecord
<1>4. Live' = Live \cup {l}
  BY <1>1, <1>2, <1>3 DEF Live
<1>5. Typed'
  BY DEF IInv, Typed
<1>6. WithdrawnIsVested'
  <2>1. ASSUME NEW k \in Live'
        PROVE  WithdrawnAmount(locker'[k]) =< TotalVested(locker'[k], now')
    <3>1. CASE k = l
      BY <1>1, <3>1
    <3>2. CASE k # l
      BY <1>2, <1>4, <3>2 DEF IInv, WithdrawnIsVested, Live
    <3> QED BY <3>1, <3>2
  <2> QED BY <2>1 DEF WithdrawnIsVested
<1>7. BalanceIsSomewhere'
  <2>1. ASSUME NEW k \in Live' PROVE locker'[k].current_balance = vault'[k] + custody'[k]
    <3>1. CASE k = l
      BY <1>1, <3>1
    <3>2. CASE k # l
      BY <1>2, <1>4, <3>2 DEF IInv, BalanceIsSomewhere, Live
    <3> QED BY <3>1, <3>2
  <2> QED BY <2>1 DEF BalanceIsSomewhere
<1>8. \A k \in Live' : Scheduled(locker'[k])
  BY <1>1, <1>2, <1>4 DEF IInv, Live
<1>9. \A k \in Lockers \ Live' : vault'[k] = 0 /\ custody'[k] = 0
  BY <1>2, <1>4 DEF IInv
<1> QED BY <1>5, <1>6, <1>7, <1>8, <1>9 DEF IInv

\* A new locker has withdrawn nothing.
LEMMA CreateIInv ==
    ASSUME IInv, NEW l \in Lockers, NEW schedule \in Schedules, NEW deposit \in Deposits,
           NEW kept \in BOOLEAN, CreateLocker(l, schedule, deposit, kept)
    PROVE  IInv'
<1> DEFINE rec == [live |-> TRUE, start_ts |-> schedule.start_ts, end_ts |-> schedule.end_ts,
                   period_count |-> schedule.period_count, start_balance |-> deposit,
                   current_balance |-> deposit, whitelist_owned |-> 0, reward_keeper |-> kept]
<1>1. /\ schedule.start_ts \in Nat /\ schedule.end_ts \in Nat /\ schedule.period_count \in Nat
      /\ deposit \in Nat
  BY SchedulesAssumption, DepositsAssumption
<1>2. rec \in LockerRecord
  BY <1>1 DEF LockerRecord
<1>3. Scheduled(rec)
  BY <1>1 DEF Scheduled, CreateLocker
<1>4. vault[l] = 0 /\ custody[l] = 0
  BY DEF CreateLocker, IInv, Live
<1>5. WithdrawnAmount(rec) = 0
  BY <1>1 DEF WithdrawnAmount
<1>6. now \in Nat /\ now' = now /\ custody' = custody
  BY DEF IInv, Typed, CreateLocker
<1>7. TotalVested(rec, now) \in Nat
  BY <1>3, <1>6, VestedBounds
<1>8. rec.current_balance = deposit + 0
  BY <1>1
<1>9. locker' = [locker EXCEPT ![l] = rec]
  BY DEF CreateLocker
<1>10. vault' = [vault EXCEPT ![l] = deposit] /\ custody' = [custody EXCEPT ![l] = 0]
  BY <1>1, <1>4, <1>6 DEF CreateLocker, IInv, Typed
<1> HIDE DEF rec
<1>11. WithdrawnAmount(rec) =< TotalVested(rec, now)
  BY <1>5, <1>7
<1>12. deposit \in Int /\ 0 \in Int /\ now' = now
  BY <1>1, <1>6
<1> QED BY <1>2, <1>3, <1>8, <1>9, <1>10, <1>11, <1>12, WriteIInv

\* A withdrawal takes at most what has vested and was not withdrawn.
LEMMA WithdrawIInv ==
    ASSUME IInv, NEW l \in Lockers, NEW n \in WithdrawAmounts, NEW a, NEW b, Withdraw(l, n, a, b)
    PROVE  IInv'
<1> DEFINE old == locker[l]
           rec == [old EXCEPT !.current_balance = old.current_balance - n]
<1>1. n \in Nat /\ l \in Live
  BY WithdrawAmountsAssumption DEF Withdraw, Live
<1>2. old \in LockerRecord /\ Scheduled(old)
  BY <1>1 DEF IInv, Typed, Live, NoLocker
<1>3. rec \in LockerRecord /\ SameSchedule(old, rec)
      /\ rec.current_balance = old.current_balance - n
  <2>1. old.current_balance - n \in Int
    BY <1>1, <1>2, LockerFields
  <2> QED BY <1>2, <2>1, LockerWrites
<1>4. now \in Nat /\ now' = now
  BY DEF IInv, Typed, Withdraw
<1>5. Scheduled(rec) /\ TotalVested(rec, now) = TotalVested(old, now)
  BY <1>2, <1>3, ScheduleKept
<1>6. TotalVested(old, now) \in Nat
  BY <1>2, <1>4, VestedBounds
<1>7. WithdrawnAmount(old) \in Int /\ Balance(old) \in Int /\ old.current_balance \in Int
  BY <1>2, LockerFields
<1>8. n =< TotalVested(old, now) - WithdrawnAmount(old)
  BY <1>1, <1>6, <1>7 DEF Withdraw, AvailableForWithdrawal, Smaller
<1>9. WithdrawnAmount(rec) = WithdrawnAmount(old) + n
  <2>1. rec.start_balance = old.start_balance /\ old.start_balance \in Int
    BY <1>2, <1>3, LockerFields DEF SameSchedule
  <2> HIDE DEF old, rec
  <2> QED BY <1>1, <1>3, <1>7, <2>1 DEF WithdrawnAmount
<1>10. locker' = [locker EXCEPT ![l] = rec]
  BY DEF Withdraw, BalanceAfter
<1>11. vault[l] \in Int /\ custody[l] \in Int /\ old.current_balance = vault[l] + custody[l]
  BY <1>1 DEF IInv, Typed, BalanceIsSomewhere
<1>12. /\ vault' = [vault EXCEPT ![l] = vault[l] - n]
       /\ custody' = [custody EXCEPT ![l] = custody[l]]
  BY DEF Withdraw, IInv, Typed
<1> HIDE DEF old, rec
<1>13. WithdrawnAmount(rec) =< TotalVested(rec, now)
  BY <1>1, <1>5, <1>6, <1>7, <1>8, <1>9
<1>14. rec.current_balance = (vault[l] - n) + custody[l] /\ vault[l] - n \in Int
  BY <1>1, <1>3, <1>11
<1> QED BY <1>3, <1>4, <1>5, <1>10, <1>11, <1>12, <1>13, <1>14, WriteIInv

\* A relayed call moves tokens between the vault and the custody.
LEMMA RelayIInv ==
    ASSUME IInv, NEW l \in Lockers, NEW p, NEW n \in RelayAmounts, NEW amount,
           WithdrawToWhitelist(l, p, n, amount)
    PROVE  IInv'
<1> DEFINE old == locker[l]
           rec == [old EXCEPT !.whitelist_owned = old.whitelist_owned + 0]
<1>1. n \in Int /\ l \in Live
  BY WithdrawAmountsAssumption DEF WithdrawToWhitelist, Live
<1>2. old \in LockerRecord /\ Scheduled(old)
  BY <1>1 DEF IInv, Typed, Live, NoLocker
<1>3. rec \in LockerRecord /\ SameSchedule(old, rec)
      /\ rec.current_balance = old.current_balance
  <2>1. old.whitelist_owned + 0 \in Int
    BY <1>2, LockerFields
  <2> QED BY <1>2, <2>1, LockerWrites
<1>4. now' = now
  BY DEF WithdrawToWhitelist
<1>5. Scheduled(rec) /\ TotalVested(rec, now) = TotalVested(old, now)
  BY <1>2, <1>3, ScheduleKept
<1>6. WithdrawnAmount(old) =< TotalVested(old, now)
  BY <1>1 DEF IInv, WithdrawnIsVested
<1>7. WithdrawnAmount(rec) = WithdrawnAmount(old)
  BY <1>3 DEF WithdrawnAmount, SameSchedule
<1>8. locker' = [locker EXCEPT ![l] = rec]
  BY DEF WithdrawToWhitelist, CountedAmount
<1>9. vault[l] \in Int /\ custody[l] \in Int /\ old.current_balance = vault[l] + custody[l]
  BY <1>1 DEF IInv, Typed, BalanceIsSomewhere
<1>10. /\ vault' = [vault EXCEPT ![l] = vault[l] - n]
       /\ custody' = [custody EXCEPT ![l] = custody[l] + n]
  BY DEF WithdrawToWhitelist
<1> HIDE DEF old, rec
<1>11. /\ rec.current_balance = (vault[l] - n) + (custody[l] + n)
       /\ vault[l] - n \in Int /\ custody[l] + n \in Int
  BY <1>1, <1>3, <1>9
<1>12. WithdrawnAmount(rec) =< TotalVested(rec, now)
  BY <1>5, <1>6, <1>7
<1> QED BY <1>3, <1>4, <1>5, <1>8, <1>10, <1>11, <1>12, WriteIInv

\* Every step keeps the invariant.
LEMMA NextIInv == IInv /\ [Next]_lockerVars => IInv'
<1> SUFFICES ASSUME IInv, [Next]_lockerVars PROVE IInv'
  OBVIOUS
<1>1. ASSUME UNCHANGED <<now, locker, vault, custody>> PROVE IInv'
  BY <1>1 DEF IInv, Typed, Live, WithdrawnIsVested, BalanceIsSomewhere
<1>2. CASE UNCHANGED lockerVars
  BY <1>1, <1>2 DEF lockerVars
<1>3. CASE Tick
  BY <1>3, TickIInv
<1>4. CASE \E a \in Accounts, n \in {0, 1} : Restake(a, n)
  BY <1>1, <1>4 DEF Restake
<1>5. CASE \E admin \in Admins :
             \/ \E p \in Programs \cup {DefaultEntry} :
                   AddWhitelist(admin, p) \/ RemoveWhitelist(admin, p)
             \/ \E new_authority \in Admins : SetAuthority(admin, new_authority)
  BY <1>1, <1>5 DEF AddWhitelist, RemoveWhitelist, SetAuthority
<1>6. ASSUME NEW l \in Lockers, NEW schedule \in Schedules, NEW deposit \in Deposits,
             NEW kept \in BOOLEAN, CreateLocker(l, schedule, deposit, kept)
      PROVE  IInv'
  BY <1>6, CreateIInv
<1>7. ASSUME NEW l \in Lockers, NEW n \in WithdrawAmounts, NEW a \in Accounts, NEW b \in Accounts,
             Withdraw(l, n, a, b)
      PROVE  IInv'
  BY <1>7, WithdrawIInv
<1>8. ASSUME NEW l \in Lockers, NEW p \in Programs, NEW n \in RelayAmounts,
             NEW amount \in WithdrawAmounts, WithdrawToWhitelist(l, p, n, amount)
      PROVE  IInv'
  BY <1>8, RelayIInv
<1> QED BY <1>2, <1>3, <1>4, <1>5, <1>6, <1>7, <1>8 DEF Next

\* What was withdrawn from a locker had vested.
THEOREM WithdrawnHadVested == LockerSpec => []WithdrawnIsVested
<1>1. IInv => WithdrawnIsVested
  BY DEF IInv
<1> QED BY <1>1, InitIInv, NextIInv, PTL DEF LockerSpec

\* A locker never unlocks more than its deposit.
THEOREM VestedWithinDeposit == LockerSpec => []VestsAtMostDeposit
<1>1. IInv => VestsAtMostDeposit
  <2> SUFFICES ASSUME IInv, NEW l \in Live
               PROVE  TotalVested(locker[l], now) \in 0..locker[l].start_balance
    BY DEF VestsAtMostDeposit
  <2>1. Scheduled(locker[l]) /\ now \in Int
    BY DEF IInv, Typed
  <2>2. locker[l].start_balance \in Nat
    BY <2>1 DEF Scheduled
  <2> QED BY <2>1, <2>2, VestedBounds
<1> QED BY <1>1, InitIInv, NextIInv, PTL DEF LockerSpec

\* A locker's balance is in its vault or in custody.
THEOREM BalanceBacked == LockerSpec => []BalanceIsSomewhere
<1>1. IInv => BalanceIsSomewhere
  BY DEF IInv
<1> QED BY <1>1, InitIInv, NextIInv, PTL DEF LockerSpec
=============================================================================
