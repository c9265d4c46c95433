------------------------- MODULE OutflowLimit_proofs -------------------------
(***************************************************************************)
(* For every window, maximum, scale and history: the counters of the rate  *)
(* limiter are what their comments say, its estimate never exceeds the     *)
(* maximum, and no more than twice the maximum leaves in a window's span.  *)
(***************************************************************************)
EXTENDS OutflowLimit, Reserve_proofs

\* Whatever the pauses between two calls, the estimated outflow stays within
\* the maximum: the "over the maximum" branch of remaining_outflow is never
\* taken, and a limiter that is not used never locks itself.
EstimateWithinMax ==
    Enabled => CurrentOutflow(Rolled(limiter, slot), slot) =< MaxOutflow

\* Over the slots [slot - window, slot] no more than twice max_outflow leaves.
AtMostTwiceMax ==
    Enabled => ReleasedIn(slot - Window, slot) =< 2 * MaxOutflow

\* The window of the limiter is one of the consecutive windows, and has begun.
WindowAligned ==
    /\ limiter.window_start =< slot
    /\ limiter.window_start = WindowStart(limiter.window_start, Window)

\* The history is cumulative, and says nothing about slots to come.
HistoryMonotone ==
    \A s, t \in Slots : s =< t =>
        /\ released[s] =< released[t]
        /\ s >= slot => released[s] = released[t]

\* Nothing left after the window the limiter was last rolled to.
NothingSinceWindow ==
    Enabled => \A s, t \in Slots :
        s >= limiter.window_start + Window - 1 /\ s =< t => released[s] = released[t]

\* Neither counter exceeds the maximum.
QuantitiesWithinMax ==
    Enabled => limiter.cur_qty =< MaxOutflow /\ limiter.prev_qty =< MaxOutflow

\* The counters and the history, and the inductive invariant.
HInv ==
    /\ TypeOK
    /\ WindowAligned
    /\ HistoryMonotone
    /\ NothingSinceWindow
    /\ CountersMatchHistory
    /\ QuantitiesWithinMax

IInv == HInv /\ EstimateWithinMax

\* A limiter record as the invariant describes it at one slot: its window
\* contains the slot and its counters are the history of the two windows.
InWindow(r, c, s) ==
    /\ r \in [config : Configs, prev_qty : Nat, window_start : Slots, cur_qty : Nat]
    /\ r.config = c
    /\ r.window_start =< s
    /\ s < r.window_start + c.window_duration
    /\ r.window_start = WindowStart(r.window_start, c.window_duration)
    /\ r.cur_qty = ReleasedIn(r.window_start, s)
    /\ r.prev_qty = ReleasedIn(r.window_start - c.window_duration, r.window_start - 1)
    /\ r.cur_qty =< FromInt(c.max_outflow)
    /\ r.prev_qty =< FromInt(c.max_outflow)

RollsIntoWindow == InWindow(Rolled(limiter, slot), limiter.config, slot)

-----------------------------------------------------------------------------
\* The ranges of the limiter's fields.
LEMMA LimiterTypes ==
  ASSUME TypeOK
  PROVE  /\ slot \in Nat /\ slot =< MaxSlot /\ MaxSlot \in Nat
         /\ limiter.config \in Configs
         /\ limiter.prev_qty \in Nat /\ limiter.cur_qty \in Nat
         /\ limiter.window_start \in Nat /\ limiter.window_start =< MaxSlot
         /\ Window \in Nat /\ MaxOutflow \in Nat
         /\ limiter.config.max_outflow \in Nat
         /\ \A s \in Slots : released[s] \in Nat
<1>1. limiter \in [config : Configs, prev_qty : Nat, window_start : Slots, cur_qty : Nat]
      /\ slot \in Slots /\ released \in [Slots -> Nat]
  BY DEF TypeOK
<1>2. /\ limiter.config \in Configs /\ limiter.prev_qty \in Nat
      /\ limiter.cur_qty \in Nat /\ limiter.window_start \in Slots
  BY <1>1, SMT
<1>3. limiter.config \in [window_duration : Nat, max_outflow : Nat]
  BY <1>2, ConfigsAssumption
<1>4. limiter.config.window_duration \in Nat /\ limiter.config.max_outflow \in Nat
  BY <1>3, SMT
<1>5. MaxOutflow \in Nat
  BY <1>4, DecimalNat DEF MaxOutflow
<1> QED BY <1>1, <1>2, <1>4, <1>5, BoundsAssumption, SMT DEF Window, Slots

\* Rolling the limiter to the current slot gives a limiter of that slot's
\* window whose counters are the history of the two windows.
LEMMA RolledInWindow ==
  HInv /\ Enabled => RollsIntoWindow
<1> SUFFICES ASSUME HInv, Enabled
             PROVE  InWindow(Rolled(limiter, slot), limiter.config, slot)
  BY DEF RollsIntoWindow
<1> DEFINE w == Window
           ws == limiter.window_start
           start == WindowStart(slot, w)
           r == Rolled(limiter, slot)
<1>1. /\ slot \in Nat /\ slot =< MaxSlot /\ MaxSlot \in Nat
      /\ limiter.config \in Configs
      /\ limiter.cur_qty \in Nat
      /\ ws \in Nat /\ w \in Nat \ {0} /\ MaxOutflow \in Nat
      /\ \A s \in Slots : released[s] \in Nat
  BY LimiterTypes, SMT DEF HInv, Enabled, Window
<1>2. start \in Nat /\ start =< slot /\ slot < start + w /\ WindowStart(start, w) = start
  BY <1>1, WindowStartFacts
<1>3. ws =< slot /\ ws = WindowStart(ws, w)
  BY DEF WindowAligned, HInv
<1>4. limiter.cur_qty =< MaxOutflow /\ limiter.prev_qty =< MaxOutflow
  BY DEF QuantitiesWithinMax, HInv
<1>5. limiter.cur_qty = ReleasedIn(ws, slot) /\ limiter.prev_qty = ReleasedIn(ws - w, ws - 1)
  BY DEF CountersMatchHistory, HInv
<1>6. limiter \in [config : Configs, prev_qty : Nat, window_start : Slots, cur_qty : Nat]
  BY DEF HInv, TypeOK
<1>7. CASE start < ws + w
  <2>1. start = ws
    BY <1>1, <1>3, <1>7, SameWindow
  <2>2. r = limiter
    BY <1>7 DEF Rolled, Window
  <2> QED BY <1>1, <1>2, <1>3, <1>4, <1>5, <1>6, <2>1, <2>2 DEF InWindow, Window, MaxOutflow
<1>8. CASE ~(start < ws + w)
  <2>1. r = [limiter EXCEPT !.window_start = start,
                 !.prev_qty = IF start = ws + w THEN limiter.cur_qty ELSE 0,
                 !.cur_qty = 0]
    BY <1>8 DEF Rolled, Window
  <2>2. start \in Slots /\ (IF start = ws + w THEN limiter.cur_qty ELSE 0) \in Nat
    BY <1>1, <1>2, SMT DEF Slots
  <2> DEFINE p == IF start = ws + w THEN limiter.cur_qty ELSE 0
             n == WindowStart(slot, w)
  <2>a. r = [limiter EXCEPT !.window_start = n, !.prev_qty = p, !.cur_qty = 0]
    BY <2>1
  <2>b. n \in Slots /\ p \in Nat
    BY <2>2
  <2> HIDE DEF p, n, r
  <2>c. r \in [config : Configs, prev_qty : Nat, window_start : Slots, cur_qty : Nat]
    BY <2>a, <2>b, <1>1, <1>6, Zenon
  <2>d. r.config = limiter.config /\ r.window_start = n /\ r.cur_qty = 0 /\ r.prev_qty = p
    BY <2>a, <1>6, SMT
  <2> USE DEF p, n
  <2>3. /\ r \in [config : Configs, prev_qty : Nat, window_start : Slots, cur_qty : Nat]
        /\ r.config = limiter.config /\ r.window_start = start /\ r.cur_qty = 0
        /\ r.prev_qty = IF start = ws + w THEN limiter.cur_qty ELSE 0
    BY <2>c, <2>d
  <2> USE DEF r
  <2>4. \A s, t \in Slots : s >= ws + w - 1 /\ s =< t => released[s] = released[t]
    BY DEF NothingSinceWindow, HInv, Window
  <2>5. start - 1 \in Slots /\ start - 1 >= ws + w - 1 /\ start - 1 =< slot /\ slot \in Slots
    BY <1>1, <1>2, <1>8, SMT DEF Slots
  <2>6. released[start - 1] = released[slot] /\ ReleasedIn(start, slot) = 0
    BY <2>4, <2>5, <1>1, <1>2, SMT DEF ReleasedIn, Before, Slots
  <2>7. CASE start = ws + w
    <3>1. ReleasedIn(start - w, start - 1) = ReleasedIn(ws, slot)
      BY <2>5, <2>6, <2>7, <1>1, SMT DEF ReleasedIn, Before, Slots
    <3> QED BY <3>1, <2>3, <2>6, <2>7, <1>1, <1>2, <1>4, <1>5 DEF InWindow, Window, MaxOutflow
  <2>8. CASE start # ws + w
    <3>0. start > ws + w
      BY <1>1, <1>2, <1>8, <2>8
    <3>1. start >= ws + 2 * w
      BY <1>1, <1>3, <3>0, LaterWindow
    <3> HIDE DEF w, ws, start
    <3>2. start - w - 1 \in Slots /\ start - w - 1 >= ws + w - 1 /\ start - w - 1 =< start - 1
      BY <3>1, <1>1, <1>2, SMT DEF Slots
    <3> USE DEF w, ws, start
    <3>3. ReleasedIn(start - w, start - 1) = 0
      BY <2>4, <2>5, <3>2, <1>1, SMT DEF ReleasedIn, Before, Slots
    <3> QED BY <3>3, <2>3, <2>6, <2>8, <1>1, <1>2 DEF InWindow, Window, MaxOutflow
  <2> QED BY <2>7, <2>8
<1> QED BY <1>7, <1>8

-----------------------------------------------------------------------------
\* A new limiter with an empty history satisfies the invariant, at Init and
\* after Configure.
LEMMA InitInvariant ==
  Init => IInv
<1> SUFFICES ASSUME Init, NEW c \in Configs, limiter = New(c, slot)
             PROVE  IInv
  BY DEF Init
<1> slot \in Slots /\ released = [s \in Slots |-> 0]
  BY DEF Init
<1> DEFINE w == c.window_duration
           ws == WindowStart(slot, w)
<1>1. w \in Nat /\ c.max_outflow \in Nat /\ FromInt(c.max_outflow) \in Nat
  <2>1. c \in [window_duration : Nat, max_outflow : Nat]
    BY ConfigsAssumption
  <2> QED BY <2>1, DecimalNat, SMT
<1>2. slot \in Nat /\ slot =< MaxSlot /\ MaxSlot \in Nat
  BY BoundsAssumption DEF Slots
<1>3. ws \in Nat /\ ws =< slot /\ ws = WindowStart(ws, w) /\ (w # 0 => slot < ws + w)
  <2>1. CASE w = 0
    BY <2>1, <1>2 DEF WindowStart
  <2>2. CASE w # 0
    BY <2>2, <1>1, <1>2, WindowStartFacts
  <2> QED BY <2>1, <2>2
<1>4. ws \in Slots
  BY <1>2, <1>3, SMT DEF Slots
<1>5. /\ limiter.config = c /\ limiter.prev_qty = 0 /\ limiter.cur_qty = 0
      /\ limiter.window_start = ws
  BY DEF New
<1>6. TypeOK
  BY <1>4 DEF TypeOK, New
<1>7. \A s : Before(s) = 0 \/ ~(s \in Int /\ s =< MaxSlot)
  BY <1>2, SMT DEF Before, Slots
<1>8. \A s \in Slots : released[s] = 0
  OBVIOUS
<1>9. WindowAligned /\ HistoryMonotone /\ NothingSinceWindow /\ QuantitiesWithinMax
  BY <1>1, <1>3, <1>5, <1>8 DEF WindowAligned, HistoryMonotone, NothingSinceWindow,
     QuantitiesWithinMax, Window, MaxOutflow
<1>10. CountersMatchHistory
  BY <1>1, <1>2, <1>3, <1>5, <1>7, SMT DEF CountersMatchHistory, ReleasedIn, Window, Enabled
<1>11. EstimateWithinMax
  <2> SUFFICES ASSUME Enabled
               PROVE  CurrentOutflow(Rolled(limiter, slot), slot) =< MaxOutflow
    BY DEF EstimateWithinMax
  <2>1. w \in Nat \ {0} /\ slot - ws + 1 \in 1..w
    BY <1>1, <1>2, <1>3, <1>5, SMT DEF Enabled
  <2>2. Rolled(limiter, slot) = limiter
    BY <1>3, <1>5, <2>1, SMT DEF Rolled
  <2>3. DivInt(FromInt(w) - FromInt(slot - ws + 1), w) \in Nat
    BY <2>1, WeightFacts, SMT
  <2>4. Mul(DivInt(FromInt(w) - FromInt(slot - ws + 1), w), 0) =< 0
        /\ Mul(DivInt(FromInt(w) - FromInt(slot - ws + 1), w), 0) \in Nat
    <3> DEFINE f == DivInt(FromInt(w) - FromInt(slot - ws + 1), w)
    <3>1. f \in Nat
      BY <2>3
    <3> HIDE DEF f
    <3>2. f * 0 = 0
      BY <3>1, SMT
    <3>3. Mul(f, 0) = 0
      BY <3>2, WADAssumption, SMT DEF Mul
    <3> QED BY <3>3 DEF f
  <2>5. CurrentOutflow(limiter, slot) = Mul(DivInt(FromInt(w) - FromInt(slot - ws + 1), w), 0) + 0
    BY <1>5 DEF CurrentOutflow
  <2> QED BY <2>2, <2>4, <2>5, <1>1, <1>5, SMT DEF MaxOutflow
<1> QED BY <1>6, <1>9, <1>10, <1>11 DEF IInv, HInv

\* A slot passes: the history is the same, the weight of the previous window
\* falls or a new window begins with the weight of a fraction.
LEMMA TickInvariant ==
  IInv /\ Tick => IInv'
<1> SUFFICES ASSUME IInv, Tick PROVE IInv'
  OBVIOUS
<1> DEFINE w == Window
           ws == limiter.window_start
<1>1. /\ slot \in Nat /\ slot =< MaxSlot /\ MaxSlot \in Nat
      /\ limiter.config \in Configs /\ limiter.config.max_outflow \in Nat
      /\ limiter.prev_qty \in Nat /\ limiter.cur_qty \in Nat
      /\ ws \in Nat /\ w \in Nat /\ MaxOutflow \in Nat
      /\ \A s \in Slots : released[s] \in Nat
  BY LimiterTypes, SMT DEF IInv, HInv
<1>2. slot' = slot + 1 /\ slot' =< MaxSlot /\ limiter' = limiter /\ released' = released
  BY <1>1, SMT DEF Tick
<1>3. slot \in Slots /\ slot' \in Slots
  BY <1>1, <1>2, SMT DEF Slots
<1>4. TypeOK'
  BY <1>2, <1>3 DEF TypeOK, IInv, HInv
<1>5. WindowAligned' /\ NothingSinceWindow' /\ QuantitiesWithinMax'
  BY <1>1, <1>2 DEF IInv, HInv, WindowAligned, NothingSinceWindow, QuantitiesWithinMax,
     Window, Enabled, MaxOutflow
<1>6. HistoryMonotone'
  BY <1>1, <1>2, SMT DEF IInv, HInv, HistoryMonotone, Slots
<1>7. released[slot] = released[slot']
  BY <1>1, <1>2, <1>3, SMT DEF IInv, HInv, HistoryMonotone
<1>8. \A s : Before(s)' = Before(s)
  BY <1>2 DEF Before
<1>9. Before(slot') = Before(slot)
  BY <1>1, <1>2, <1>7, SMT DEF Before
<1>10. CountersMatchHistory'
  BY <1>2, <1>8, <1>9 DEF IInv, HInv, CountersMatchHistory, ReleasedIn, Window, Enabled
<1>11. HInv'
  BY <1>4, <1>5, <1>6, <1>10 DEF HInv
<1>12. EstimateWithinMax'
  <2> SUFFICES ASSUME Enabled
               PROVE  CurrentOutflow(Rolled(limiter, slot'), slot') =< MaxOutflow
    BY <1>2 DEF EstimateWithinMax, Enabled, MaxOutflow
  <2> DEFINE r == Rolled(limiter, slot)
             n == Rolled(limiter, slot')
             f(k) == DivInt(FromInt(w) - FromInt(k), w)
  <2>0. w \in Nat \ {0}
    BY <1>1, SMT DEF Enabled, Window
  <2>1. InWindow(r, limiter.config, slot)
    BY RolledInWindow DEF IInv, RollsIntoWindow
  <2>2. InWindow(n, limiter.config, slot')
    <3>1. HInv' /\ Enabled'
      BY <1>2, <1>11 DEF Enabled
    <3>2. RollsIntoWindow'
      BY <3>1, RolledInWindow, PTL
    <3> QED BY <3>2, <1>2 DEF RollsIntoWindow, InWindow, ReleasedIn, Before
  <2>3. /\ r.config = limiter.config /\ r.prev_qty \in Nat /\ r.cur_qty \in Nat
        /\ r.window_start \in Nat /\ r.window_start =< slot /\ slot < r.window_start + w
        /\ r.window_start = WindowStart(r.window_start, w)
        /\ r.cur_qty = ReleasedIn(r.window_start, slot)
        /\ r.prev_qty = ReleasedIn(r.window_start - w, r.window_start - 1)
    <3> HIDE DEF r
    <3> QED BY <2>1, SMT DEF InWindow, Window, Slots
  <2>4. /\ n.config = limiter.config /\ n.prev_qty \in Nat /\ n.cur_qty \in Nat
        /\ n.window_start \in Nat /\ n.window_start =< slot' /\ slot' < n.window_start + w
        /\ n.window_start = WindowStart(n.window_start, w)
        /\ n.cur_qty = ReleasedIn(n.window_start, slot')
        /\ n.prev_qty = ReleasedIn(n.window_start - w, n.window_start - 1)
        /\ n.prev_qty =< MaxOutflow
    <3> HIDE DEF n
    <3> QED BY <2>2, SMT DEF InWindow, Window, Slots, MaxOutflow
  <2>5. CurrentOutflow(r, slot) = Mul(f(slot - r.window_start + 1), r.prev_qty) + r.cur_qty
        /\ CurrentOutflow(n, slot') = Mul(f(slot' - n.window_start + 1), n.prev_qty) + n.cur_qty
    BY <2>3, <2>4 DEF CurrentOutflow, Window
  <2>6. CurrentOutflow(r, slot) =< MaxOutflow
    BY DEF IInv, EstimateWithinMax
  <2>7. slot' - n.window_start + 1 \in 1..w /\ slot - r.window_start + 1 \in 1..w
    BY <1>1, <1>2, <2>0, <2>3, <2>4, SMT
  <2> SUFFICES CurrentOutflow(n, slot') =< MaxOutflow
    BY <1>2
  <2> HIDE DEF r, n, w
  <2>8. CASE n.window_start = slot'
    <3>1. n.cur_qty = 0
      <4>1. slot' - 1 = slot
        BY <1>1, <1>2, SMT
      <4>2. n.cur_qty = Before(slot') - Before(slot)
        BY <2>4, <2>8, <4>1 DEF ReleasedIn
      <4>3. Before(slot) \in Nat
        BY <1>1, <1>3 DEF Before
      <4> QED BY <4>2, <4>3, <1>9, SMT
    <3>2. f(slot' - n.window_start + 1) \in Nat /\ f(slot' - n.window_start + 1) =< WAD
      BY <2>0, <2>7, WeightFacts, SMT
    <3> HIDE DEF f
    <3>3. Mul(f(slot' - n.window_start + 1), n.prev_qty) =< n.prev_qty
          /\ Mul(f(slot' - n.window_start + 1), n.prev_qty) \in Nat
      BY <2>4, <3>2, FractionBelow, DecimalNat
    <3> QED BY <1>1, <2>4, <2>5, <3>1, <3>3, SMT
  <2>9. CASE n.window_start # slot'
    <3>1. n.window_start =< slot /\ slot < n.window_start + w
      BY <1>1, <1>2, <2>0, <2>4, <2>9, SMT
    <3>2. n.window_start = r.window_start
      BY <3>1, <1>1, <2>0, <2>3, <2>4, UniqueWindow
    <3>3. n.prev_qty = r.prev_qty /\ n.cur_qty = r.cur_qty
      BY <3>2, <2>3, <2>4, <1>9 DEF ReleasedIn
    <3>4. slot - r.window_start + 1 =< slot' - n.window_start + 1
      BY <3>2, <1>1, <1>2, <2>3, SMT
    <3>5. /\ f(slot' - n.window_start + 1) =< f(slot - r.window_start + 1)
          /\ f(slot' - n.window_start + 1) \in Nat
          /\ f(slot - r.window_start + 1) \in Nat
      BY <3>4, <2>0, <2>7, WeightFacts, SMT
    <3> HIDE DEF f
    <3>6. Mul(f(slot' - n.window_start + 1), n.prev_qty)
              =< Mul(f(slot - r.window_start + 1), r.prev_qty)
          /\ Mul(f(slot' - n.window_start + 1), n.prev_qty) \in Nat
          /\ Mul(f(slot - r.window_start + 1), r.prev_qty) \in Nat
      BY <3>3, <3>5, <2>3, MulMonotone, DecimalNat
    <3> QED BY <1>1, <2>3, <2>5, <2>6, <3>3, <3>6, SMT
  <2> QED BY <2>8, <2>9
<1> QED BY <1>11, <1>12 DEF IInv

\* An admitted outflow: it is counted in the window of the slot, in the
\* counter and in the history alike, and keeps the estimate within the
\* maximum because that is what update checks.
LEMMA OutflowInvariant ==
  ASSUME IInv, NEW qty \in Quantities, Outflow(qty)
  PROVE  IInv'
<1> DEFINE w == Window
           r == Rolled(limiter, slot)
<1>1. /\ slot \in Nat /\ slot =< MaxSlot /\ MaxSlot \in Nat
      /\ limiter.config \in Configs /\ limiter.config.max_outflow \in Nat
      /\ limiter.prev_qty \in Nat /\ limiter.cur_qty \in Nat
      /\ w \in Nat /\ MaxOutflow \in Nat
      /\ \A s \in Slots : released[s] \in Nat
  BY LimiterTypes, SMT DEF IInv, HInv
<1>2. slot' = slot /\ qty \in Nat /\ slot \in Slots
      /\ released' = [s \in Slots |-> IF s >= slot THEN released[s] + qty ELSE released[s]]
  BY <1>1, QuantitiesAssumption, SMT DEF Outflow, Slots
<1>3. released' \in [Slots -> Nat]
  BY <1>1, <1>2
<1>4. \A s \in Slots : released'[s] = IF s >= slot THEN released[s] + qty ELSE released[s]
  BY <1>2
<1>5. HistoryMonotone'
  BY <1>1, <1>2, <1>4, SMT DEF IInv, HInv, HistoryMonotone, Slots
<1>6. CASE ~Enabled
  <2>1. limiter' = limiter
    BY <1>1, <1>6, SMT DEF Outflow, Updated, Enabled, Window
  <2>2. TypeOK' /\ WindowAligned' /\ ~Enabled'
    BY <1>2, <1>3, <1>6, <2>1 DEF IInv, HInv, TypeOK, WindowAligned, Enabled, Window
  <2> QED BY <1>5, <2>2 DEF IInv, HInv, NothingSinceWindow, CountersMatchHistory,
          QuantitiesWithinMax, EstimateWithinMax
<1>7. CASE Enabled
  <2>1. w \in Nat \ {0}
    BY <1>1, <1>7, SMT DEF Enabled, Window
  <2>2. limiter' = [r EXCEPT !.cur_qty = r.cur_qty + qty]
        /\ CurrentOutflow(r, slot) + qty =< MaxOutflow
    BY <2>1 DEF Outflow, Updated, Admits, Window, MaxOutflow
  <2>3. InWindow(r, limiter.config, slot)
    BY <1>7, RolledInWindow DEF IInv, RollsIntoWindow
  <2> HIDE DEF r
  <2>4. /\ r \in [config : Configs, prev_qty : Nat, window_start : Slots, cur_qty : Nat]
        /\ r.config = limiter.config /\ r.prev_qty \in Nat /\ r.cur_qty \in Nat
        /\ r.window_start \in Nat /\ r.window_start =< slot /\ slot < r.window_start + w
        /\ r.window_start \in Slots
        /\ r.window_start = WindowStart(r.window_start, w)
        /\ r.cur_qty = ReleasedIn(r.window_start, slot)
        /\ r.prev_qty = ReleasedIn(r.window_start - w, r.window_start - 1)
        /\ r.prev_qty =< MaxOutflow
    BY <2>3, SMT DEF InWindow, Window, Slots, MaxOutflow
  <2>5. limiter' \in [config : Configs, prev_qty : Nat, window_start : Slots, cur_qty : Nat]
    <3>1. r.cur_qty + qty \in Nat
      BY <1>2, <2>4
    <3> QED BY <2>2, <2>4, <3>1, Zenon
  <2>6. /\ limiter'.config = limiter.config /\ limiter'.prev_qty = r.prev_qty
        /\ limiter'.window_start = r.window_start /\ limiter'.cur_qty = r.cur_qty + qty
    BY <2>2, <2>4, SMT
  <2>7. Window' = w /\ MaxOutflow' = MaxOutflow /\ Enabled' = Enabled
    BY <2>6 DEF Window, MaxOutflow, Enabled
  <2>8. TypeOK' /\ WindowAligned'
    BY <1>2, <1>3, <2>4, <2>5, <2>6, <2>7 DEF TypeOK, WindowAligned
  <2>9. NothingSinceWindow'
    <3>1. \A s, t \in Slots : s >= r.window_start + w - 1 /\ s =< t => s >= slot /\ t >= slot
      BY <1>1, <2>1, <2>4, SMT DEF Slots
    <3>2. \A s, t \in Slots : s >= slot /\ s =< t => released'[s] = released'[t]
      BY <1>2, <1>5 DEF HistoryMonotone
    <3> QED BY <3>1, <3>2, <2>6, <2>7 DEF NothingSinceWindow
  <2>10. \A s \in Int : s < slot => Before(s)' = Before(s)
    BY <1>1, <1>4, SMT DEF Before, Slots
  <2>11. Before(slot)' = Before(slot) + qty /\ Before(slot) \in Nat
    BY <1>1, <1>2, <1>4, SMT DEF Before
  <2>12. PICK a \in Nat : a = r.window_start
    BY <2>4
  <2>13. CountersMatchHistory'
    <3>1. PICK b \in Nat : b = w
      BY <1>1
    <3>2. Before(a - 1)' = Before(a - 1) /\ Before(a - b - 1)' = Before(a - b - 1)
      <4>1. a - 1 \in Int /\ a - 1 < slot /\ a - b - 1 \in Int /\ a - b - 1 < slot
        BY <1>1, <2>1, <2>4, <2>12, <3>1, SMT
      <4> QED BY <2>10, <4>1
    <3>3. /\ r.cur_qty = Before(slot) - Before(a - 1)
          /\ r.prev_qty = Before(a - 1) - Before(a - b - 1)
      BY <2>4, <2>12, <3>1 DEF ReleasedIn
    <3>4. Before(a - 1) \in Nat
      BY <1>1, <2>4, <2>12, SMT DEF Before, Slots
    <3>5. /\ limiter'.cur_qty = Before(slot)' - Before(a - 1)'
          /\ limiter'.prev_qty = Before(a - 1)' - Before(a - b - 1)'
      BY <1>2, <2>6, <2>11, <3>2, <3>3, <3>4, SMT
    <3>6. limiter'.window_start = a /\ Window' = b
      BY <2>6, <2>7, <2>12, <3>1
    <3>7. (limiter.cur_qty = ReleasedIn(limiter.window_start, slot))'
      BY <1>2, <3>5, <3>6 DEF ReleasedIn, Before
    <3>8. (limiter.prev_qty = ReleasedIn(limiter.window_start - Window, limiter.window_start - 1))'
      BY <3>5, <3>6 DEF ReleasedIn, Before
    <3> QED BY <3>7, <3>8 DEF CountersMatchHistory
  <2>14. CurrentOutflow(limiter', slot) = CurrentOutflow(r, slot) + qty
         /\ CurrentOutflow(r, slot) \in Nat /\ r.cur_qty =< CurrentOutflow(r, slot)
    <3> DEFINE f == DivInt(FromInt(w) - FromInt(slot - r.window_start + 1), w)
    <3>1. f \in Nat
      BY <1>1, <2>1, <2>4, WeightFacts, SMT
    <3>2. CurrentOutflow(limiter', slot) = Mul(f, r.prev_qty) + (r.cur_qty + qty)
          /\ CurrentOutflow(r, slot) = Mul(f, r.prev_qty) + r.cur_qty
      BY <2>4, <2>6 DEF CurrentOutflow, Window
    <3> HIDE DEF f
    <3>3. Mul(f, r.prev_qty) \in Nat
      BY <3>1, <2>4, DecimalNat
    <3> QED BY <1>2, <2>4, <3>2, <3>3, SMT
  <2>15. QuantitiesWithinMax'
    BY <1>1, <1>2, <2>2, <2>4, <2>6, <2>7, <2>14, SMT DEF QuantitiesWithinMax
  <2>16. Rolled(limiter', slot) = limiter'
    <3>1. WindowStart(slot, w) = r.window_start
      <4>1. WindowStart(slot, w) \in Nat /\ WindowStart(slot, w) =< slot
            /\ slot < WindowStart(slot, w) + w
            /\ WindowStart(WindowStart(slot, w), w) = WindowStart(slot, w)
        BY <1>1, <2>1, WindowStartFacts
      <4> QED BY <4>1, <1>1, <2>1, <2>4, UniqueWindow
    <3>2. WindowStart(slot, limiter'.config.window_duration)
              < limiter'.window_start + limiter'.config.window_duration
      BY <3>1, <2>1, <2>4, <2>6, SMT DEF Window
    <3> QED BY <3>2 DEF Rolled
  <2>17. EstimateWithinMax'
    BY <1>1, <1>2, <2>2, <2>7, <2>14, <2>16 DEF EstimateWithinMax
  <2> QED BY <1>5, <2>8, <2>9, <2>13, <2>15, <2>17 DEF IInv, HInv
<1> QED BY <1>6, <1>7

\* Every step keeps the invariant.
LEMMA NextInvariant ==
  IInv /\ [Next]_vars => IInv'
<1> SUFFICES ASSUME IInv, [Next]_vars PROVE IInv'
  OBVIOUS
<1>1. CASE Tick
  BY <1>1, TickInvariant
<1>2. CASE \E qty \in Quantities : Outflow(qty)
  BY <1>2, OutflowInvariant
<1>3. CASE \E c \in Configs : Configure(c)
  <2>1. Init'
    BY <1>3 DEF Configure, Init, IInv, HInv, TypeOK
  <2> QED BY <2>1, InitInvariant, PTL
<1>4. CASE UNCHANGED vars
  BY <1>4 DEF vars, IInv, HInv, TypeOK, WindowAligned, HistoryMonotone, NothingSinceWindow,
     CountersMatchHistory, QuantitiesWithinMax, EstimateWithinMax, ReleasedIn, Before,
     Enabled, Window, MaxOutflow
<1> QED BY <1>1, <1>2, <1>3, <1>4 DEF Next

\* The limiter's fields keep their types: no counter goes below zero.
THEOREM TypeCorrect == Spec => []TypeOK
<1>1. IInv => TypeOK
  BY DEF IInv, HInv
<1> QED BY <1>1, InitInvariant, NextInvariant, PTL DEF Spec

\* cur_qty and prev_qty are the outflows of the two windows, as the comments
\* of rate_limiter.rs say, for every sequence of slots, outflows and
\* configurations.
THEOREM CountersAreHistory == Spec => []CountersMatchHistory
<1>1. IInv => CountersMatchHistory
  BY DEF IInv, HInv
<1> QED BY <1>1, InitInvariant, NextInvariant, PTL DEF Spec

\* The estimated outflow stays within the maximum, so that the branch of
\* remaining_outflow for an exceeded maximum is unreachable.
THEOREM EstimateBounded == Spec => []EstimateWithinMax
<1>1. IInv => EstimateWithinMax
  BY DEF IInv
<1> QED BY <1>1, InitInvariant, NextInvariant, PTL DEF Spec

\* Any slots of one window meet at most two of the limiter's windows.
LEMMA WithinTwiceMax == IInv => AtMostTwiceMax
<1> SUFFICES ASSUME IInv, Enabled
             PROVE  ReleasedIn(slot - Window, slot) =< 2 * MaxOutflow
  BY DEF AtMostTwiceMax
<1> DEFINE w == Window
           ws == limiter.window_start
<1>1. /\ slot \in Nat /\ slot =< MaxSlot /\ MaxSlot \in Nat
      /\ limiter.prev_qty \in Nat /\ limiter.cur_qty \in Nat
      /\ ws \in Nat /\ w \in Nat /\ w > 0 /\ MaxOutflow \in Nat
      /\ \A s \in Slots : released[s] \in Nat
  BY LimiterTypes, SMT DEF IInv, HInv, Enabled, Window
<1>2. /\ limiter.cur_qty = Before(slot) - Before(ws - 1)
      /\ limiter.prev_qty = Before(ws - 1) - Before(ws - w - 1)
  BY DEF IInv, HInv, CountersMatchHistory, ReleasedIn
<1>3. limiter.cur_qty =< MaxOutflow /\ limiter.prev_qty =< MaxOutflow
  BY DEF IInv, HInv, QuantitiesWithinMax
<1>4. ws =< slot
  BY DEF IInv, HInv, WindowAligned
<1>5. \A s \in Int : s =< slot => Before(s) \in Nat
  BY <1>1, SMT DEF Before, Slots
<1>6. Before(ws - w - 1) =< Before(slot - w - 1)
  BY <1>1, <1>4, SMT DEF Before, Slots, IInv, HInv, HistoryMonotone
<1>7. Before(slot) \in Nat /\ Before(ws - 1) \in Nat /\ Before(ws - w - 1) \in Nat
      /\ Before(slot - w - 1) \in Nat
  BY <1>1, <1>4, <1>5, SMT
<1> QED BY <1>1, <1>2, <1>3, <1>6, <1>7, SMT DEF ReleasedIn

\* At most twice the maximum leaves between slot - window_duration and slot.
THEOREM TwiceMax == Spec => []AtMostTwiceMax
<1> QED BY WithinTwiceMax, InitInvariant, NextInvariant, PTL DEF Spec

\* The estimate of a limiter rolled to this slot is a natural number.
LEMMA RolledEstimate ==
  ASSUME IInv, Enabled
  PROVE  CurrentOutflow(Rolled(limiter, slot), slot) \in Nat
<1> DEFINE r == Rolled(limiter, slot)
           w == Window
           f == DivInt(FromInt(w) - FromInt(slot - r.window_start + 1), w)
<1>1. slot \in Nat /\ w \in Nat \ {0}
  BY LimiterTypes, SMT DEF IInv, HInv, Enabled, Window
<1>2. InWindow(r, limiter.config, slot)
  BY RolledInWindow DEF IInv, RollsIntoWindow
<1> HIDE DEF r
<1>3. /\ r.config = limiter.config /\ r.prev_qty \in Nat /\ r.cur_qty \in Nat
      /\ r.window_start \in Nat /\ r.window_start =< slot /\ slot < r.window_start + w
  BY <1>2, SMT DEF InWindow, Window, Slots
<1>4. f \in Nat
  BY <1>1, <1>3, WeightFacts, SMT
<1>5. CurrentOutflow(r, slot) = Mul(f, r.prev_qty) + r.cur_qty
  BY <1>3 DEF CurrentOutflow, Window
<1> HIDE DEF f
<1>6. Mul(f, r.prev_qty) \in Nat
  BY <1>3, <1>4, DecimalNat
<1> QED BY <1>3, <1>5, <1>6, SMT DEF r

\* What remaining_outflow promises to a handler, the update at its end admits,
\* and nothing more: neither is ever in the branch for an exceeded maximum.
THEOREM RemainingIsAdmitted == Spec => []RemainingIsWhatUpdateAdmits
<1>1. IInv => RemainingIsWhatUpdateAdmits
  <2> SUFFICES ASSUME IInv, Enabled, NEW qty \in Quantities
               PROVE  qty =< RemainingOutflow(limiter, slot, 0) <=> Admits(limiter, slot, qty)
    BY DEF RemainingIsWhatUpdateAdmits
  <2> DEFINE out == CurrentOutflow(Rolled(limiter, slot), slot)
  <2>1. /\ qty \in Nat /\ MaxOutflow \in Nat
        /\ limiter.config.window_duration # 0
    BY QuantitiesAssumption, LimiterTypes, SMT DEF IInv, HInv, Enabled, Window
  <2>2. out =< MaxOutflow
    BY DEF IInv, EstimateWithinMax
  <2>3. out \in Int
    BY RolledEstimate
  <2>4. RemainingOutflow(limiter, slot, 0) = MaxOutflow - out
    BY <2>1, <2>2, <2>3, SMT DEF RemainingOutflow, MaxOutflow
  <2>5. Admits(limiter, slot, qty) <=> out + qty =< MaxOutflow
    BY <2>1 DEF Admits, MaxOutflow
  <2> QED BY <2>1, <2>3, <2>4, <2>5, SMT
<1> QED BY <1>1, InitInvariant, NextInvariant, PTL DEF Spec

\* Everything a limiter gave out and has forgotten it gives again: after two
\* windows without an outflow both counters are zero.
LEMMA Recovered == IInv => RecoversAfterTwoWindows
<1> SUFFICES ASSUME IInv, Enabled, ReleasedIn(slot - 2 * Window, slot) = 0
             PROVE  RemainingOutflow(limiter, slot, 0) = MaxOutflow
  BY DEF RecoversAfterTwoWindows
<1> DEFINE r == Rolled(limiter, slot)
           w == Window
           f == DivInt(FromInt(w) - FromInt(slot - r.window_start + 1), w)
<1>1. /\ slot \in Nat /\ slot =< MaxSlot /\ MaxSlot \in Nat /\ MaxOutflow \in Nat
      /\ w \in Nat /\ w > 0
      /\ limiter.config.window_duration # 0 /\ \A s \in Slots : released[s] \in Nat
  BY LimiterTypes, SMT DEF IInv, HInv, Enabled, Window
<1>2. InWindow(r, limiter.config, slot)
  BY RolledInWindow DEF IInv, RollsIntoWindow
<1>3. CurrentOutflow(r, slot) = Mul(f, r.prev_qty) + r.cur_qty
  BY <1>2 DEF CurrentOutflow, InWindow, Window
<1> HIDE DEF r, f
<1> DEFINE ws == r.window_start
<1>4. ws \in Nat /\ ws =< slot /\ slot < ws + w
  BY <1>1, <1>2, SMT DEF InWindow, Window, Slots
<1>5. /\ r.cur_qty = Before(slot) - Before(ws - 1)
      /\ r.prev_qty = Before(ws - 1) - Before(ws - w - 1)
      /\ Before(slot) = Before(slot - 2 * w - 1)
  <2>1. r.cur_qty = Before(slot) - Before(ws - 1)
    BY <1>2 DEF InWindow, ReleasedIn
  <2>2. r.prev_qty = Before(ws - 1) - Before(ws - w - 1)
    BY <1>2 DEF InWindow, ReleasedIn, Window
  <2>3. Before(slot) - Before(slot - 2 * w - 1) = 0
    BY DEF ReleasedIn
  <2>4. Before(slot) \in Nat /\ Before(slot - 2 * w - 1) \in Nat
    BY <1>1, SMT DEF Before, Slots
  <2> QED BY <2>1, <2>2, <2>3, <2>4, SMT
<1>6. \A s, t \in Int : s =< t /\ t =< slot => Before(s) =< Before(t)
  BY <1>1, SMT DEF Before, Slots, IInv, HInv, HistoryMonotone
<1>7. \A s \in Int : s =< slot => Before(s) \in Nat
  BY <1>1, SMT DEF Before, Slots
<1> HIDE DEF ws, w
<1>8. /\ Before(slot - 2 * w - 1) =< Before(ws - w - 1)
      /\ Before(ws - w - 1) =< Before(ws - 1) /\ Before(ws - 1) =< Before(slot)
  <2>1. /\ slot - 2 * w - 1 \in Int /\ ws - w - 1 \in Int /\ ws - 1 \in Int /\ slot \in Int
        /\ slot - 2 * w - 1 =< ws - w - 1 /\ ws - w - 1 =< ws - 1
        /\ ws - 1 =< slot /\ ws - w - 1 =< slot /\ slot =< slot
    BY <1>1, <1>4, SMT
  <2> QED BY <1>6, <2>1
<1>9. /\ Before(slot - 2 * w - 1) \in Nat /\ Before(ws - w - 1) \in Nat
      /\ Before(ws - 1) \in Nat /\ Before(slot) \in Nat
  BY <1>1, <1>4, <1>7, SMT
<1>10. r.cur_qty = 0 /\ r.prev_qty = 0
  BY <1>5, <1>8, <1>9, SMT
<1>11. Mul(f, 0) = 0
  <2>1. f \in Nat
    BY <1>1, <1>4, WeightFacts, SMT DEF f, w, ws
  <2> QED BY <2>1, WADAssumption, SMT DEF Mul
<1>12. CurrentOutflow(r, slot) = 0
  BY <1>3, <1>10, <1>11
<1> QED BY <1>1, <1>12, SMT DEF RemainingOutflow, MaxOutflow, r

\* After two windows without an outflow the whole maximum is available.
THEOREM Recovers == Spec => []RecoversAfterTwoWindows
BY Recovered, InitInvariant, NextInvariant, PTL DEF Spec

-----------------------------------------------------------------------------
\* The limiter implements what it promises: its initial states are those of
\* the promise, and each step is a step of the promise or changes nothing.

\* An outflow the limiter admits keeps within twice the maximum.
LEMMA AdmittedIsPromised ==
  ASSUME IInv, IInv', NEW qty \in Quantities, Outflow(qty)
  PROVE  Promise!Leave(qty)
<1>1. /\ slot \in Slots /\ slot \in Nat /\ MaxSlot \in Nat
      /\ released \in [Slots -> Nat] /\ released' \in [Slots -> Nat]
      /\ limiter'.config = limiter.config /\ slot' = slot
  BY BoundsAssumption, SMT
     DEF IInv, HInv, TypeOK, Slots, Outflow, Updated, Rolled
<1>2. released' = [s \in 0..MaxSlot |-> released[s] + IF s >= slot THEN qty ELSE 0]
  BY <1>1, QuantitiesAssumption, SMT DEF Outflow, Slots
<1>3. ASSUME limiter.config.window_duration > 0
      PROVE  Promise!Sum(released', slot - limiter.config.window_duration, slot)
                =< 2 * limiter.config.max_outflow * WAD
  <2> DEFINE w == limiter.config.window_duration
             m == limiter.config.max_outflow
  <2>1. AtMostTwiceMax'
    BY WithinTwiceMax, PTL
  <2>2. (Before(slot) - Before(slot - w - 1))' =< 2 * (m * WAD)
    BY <1>1, <1>3, <2>1 DEF AtMostTwiceMax, Enabled, Window, MaxOutflow, ReleasedIn, FromInt
  <2>3. w \in Nat /\ m \in Nat
    BY LimiterTypes, SMT DEF IInv, HInv, Window
  <2>4. 2 * (m * WAD) = 2 * m * WAD
    BY <2>3, WADAssumption, SMT
  <2>5. Promise!Sum(released', slot - w, slot) = (Before(slot) - Before(slot - w - 1))'
    <3>1. slot - w - 1 \in Int /\ slot - w \in Int /\ ~(slot < 0)
          /\ (slot - w < 1 <=> slot - w - 1 < 0)
      BY <1>1, <2>3, SMT
    <3> QED BY <1>1, <3>1 DEF Promise!Sum, Before
  <2> QED BY <2>2, <2>4, <2>5
<1> QED BY <1>1, <1>2, <1>3 DEF Promise!Leave, Outflow

\* The limiter with its two counters is one that judges every outflow by the
\* whole history (RateLimiter::update, remaining_outflow).
THEOREM ImplementsPromise == Spec => OutflowIsBounded
<1>1. Init => Promise!Init
  BY DEF Init, New, Slots, Promise!Init, Promise!Nothing
<1>2. ASSUME IInv, IInv', [Next]_vars
      PROVE  [Promise!Next]_(Promise!vars)
  <2>1. CASE Tick
    BY <2>1 DEF Tick, Promise!Next, Promise!Pass
  <2>2. CASE \E qty \in Quantities : Outflow(qty)
    BY <1>2, <2>2, AdmittedIsPromised DEF Promise!Next
  <2>3. CASE \E c \in Configs : Configure(c)
    BY <2>3 DEF Configure, New, Slots, Promise!Next, Promise!Replace, Promise!Nothing
  <2>4. CASE UNCHANGED vars
    BY <2>4 DEF vars, Promise!vars
  <2> QED BY <1>2, <2>1, <2>2, <2>3, <2>4 DEF Next
<1> QED BY <1>1, <1>2, InitInvariant, NextInvariant, PTL
        DEF Spec, OutflowIsBounded, Promise!Spec
=============================================================================
