-------------------------- MODULE Histories_proofs --------------------------
(***************************************************************************)
(* What the lending program achieves over many instructions, for every     *)
(* value of the constants.  Its rate limiters bound what users take out    *)
(* within a window (module LimitedLending); what a reserve says has been   *)
(* lent moves with what its obligations owe, but for the rounding of the   *)
(* interest (DebtsMatchTheReserve); and a flash loan (module FlashLoan) is *)
(* the transaction's own, leaves no debt and the vaults what the reserves  *)
(* count, and is paid for.                                                 *)
(***************************************************************************)
EXTENDS LimitedLending, FlashLoan, Lending_proofs

-----------------------------------------------------------------------------
\* One limiter and the history of what it should have counted.

\* A history counts up from slot to slot, and nothing after slot `at` yet.
Cumulative(h, at) ==
    /\ h \in [0..MaxSlot -> Nat]
    /\ \A s, t \in 0..MaxSlot : s =< t => h[s] =< h[t]
    /\ \A s \in 0..MaxSlot : s >= at => h[s] = h[at]

\* What a history counts up to a slot, possibly one before the first.
Upto(h, s) == IF s < 0 THEN 0 ELSE h[s]

\* An enabled limiter's two counters cover what has left, `unit` times, in its
\* window up to slot `at` and in the window before; neither exceeds the maximum,
\* and nothing has left after the window.
Meters(rl, h, at, unit) ==
    LET w  == rl.config.window_duration
        ws == rl.window_start
    IN  w > 0 =>
          /\ ws =< at /\ ws = WindowStart(ws, w)
          /\ rl.cur_qty =< FromInt(rl.config.max_outflow)
          /\ rl.prev_qty =< FromInt(rl.config.max_outflow)
          /\ unit * (Upto(h, at) - Upto(h, ws - 1)) =< rl.cur_qty
          /\ unit * (Upto(h, ws - 1) - Upto(h, ws - w - 1)) =< rl.prev_qty
          /\ \A s \in 0..MaxSlot : s >= ws + w - 1 /\ s =< at => h[s] = h[at]

\* The fields of a limiter.
LEMMA LimiterFields ==
    ASSUME NEW rl \in LimiterType
    PROVE  /\ rl.config \in LimiterConfigType
           /\ rl.config.window_duration \in Nat /\ rl.config.max_outflow \in Nat
           /\ FromInt(rl.config.max_outflow) \in Nat
           /\ rl.prev_qty \in Nat /\ rl.cur_qty \in Nat /\ rl.window_start \in Nat
<1>1. rl.config \in LimiterConfigType
  BY DEF LimiterType
<1>2. rl.config.window_duration \in Nat /\ rl.config.max_outflow \in Nat
  BY <1>1 DEF LimiterConfigType
<1>3. FromInt(rl.config.max_outflow) \in Nat
  BY <1>2, ConversionNat
<1> QED BY <1>1, <1>2, <1>3 DEF LimiterType

\* The values of a history up to its last slot.
LEMMA UptoFacts ==
    ASSUME NEW at \in 0..MaxSlot, NEW h, Cumulative(h, at)
    PROVE  /\ \A s \in Int : s =< at => Upto(h, s) \in Nat
           /\ \A s, t \in Int : s =< t /\ t =< at => Upto(h, s) =< Upto(h, t)
<1>1. \A s \in Int : s =< at => s < 0 \/ s \in 0..MaxSlot
  BY AmountsAssumption
<1> QED BY <1>1 DEF Upto, Cumulative

-----------------------------------------------------------------------------
\* A limiter made anew: its history is empty, or its maximum is zero and the
\* limiter it replaces let nothing through.
LEMMA MetersNew ==
    ASSUME NEW at \in 0..MaxSlot, NEW c \in LimiterConfigType, NEW unit \in Nat
    PROVE  Cumulative(None, at) /\ Meters(New(c, at), None, at, unit)
<1>1. Cumulative(None, at)
  BY DEF Cumulative, None
<1>2. PICK rl \in LimiterType : rl = New(c, at)
  BY NewLimiterType
<1>3. PICK w \in Nat : w = rl.config.window_duration
  BY LimiterFields
<1>4. /\ rl.config = c /\ rl.cur_qty = 0 /\ rl.prev_qty = 0
      /\ rl.window_start = WindowStart(at, w)
  BY <1>2, <1>3 DEF New
<1>5. ASSUME w > 0
      PROVE  Meters(rl, None, at, unit)
  <2>1. PICK ws \in Nat : ws = rl.window_start /\ ws =< at /\ ws = WindowStart(ws, w)
    BY <1>4, <1>5, WindowStartFacts
  <2>2. \A s \in Int : s =< at => Upto(None, s) = 0
    BY AmountsAssumption DEF Upto, None
  <2>3. /\ Upto(None, at) = 0 /\ Upto(None, ws - 1) = 0 /\ Upto(None, ws - w - 1) = 0
    BY <2>1, <2>2
  <2>4. \A s \in 0..MaxSlot : None[s] = None[at]
    BY DEF None
  <2>5. 0 =< FromInt(rl.config.max_outflow) /\ unit * (0 - 0) = 0
    BY LimiterFields
  <2> QED BY <1>3, <1>4, <2>1, <2>3, <2>4, <2>5 DEF Meters
<1>6. Meters(rl, None, at, unit)
  BY <1>3, <1>5 DEF Meters
<1> QED BY <1>1, <1>2, <1>6

\* A slot passes.
LEMMA MetersTick ==
    ASSUME NEW at \in 0..MaxSlot, at + 1 =< MaxSlot, NEW h, Cumulative(h, at),
           NEW rl \in LimiterType, NEW unit \in Nat, Meters(rl, h, at, unit)
    PROVE  Cumulative(h, at + 1) /\ Meters(rl, h, at + 1, unit)
<1>1. h[at + 1] = h[at] /\ at + 1 \in 0..MaxSlot
  BY DEF Cumulative
<1>2. Cumulative(h, at + 1)
  BY <1>1 DEF Cumulative
<1>3. Upto(h, at + 1) = Upto(h, at)
  BY <1>1 DEF Upto
<1>4. PICK w \in Nat, ws \in Nat : w = rl.config.window_duration /\ ws = rl.window_start
  BY LimiterFields
<1>5. ASSUME w > 0  PROVE Meters(rl, h, at + 1, unit)
  <2>1. \A s \in 0..MaxSlot : s >= ws + w - 1 /\ s =< at + 1 => h[s] = h[at + 1]
    BY <1>1, <1>4, <1>5 DEF Meters
  <2>2. ws =< at + 1
    BY <1>4, <1>5 DEF Meters
  <2> QED BY <1>3, <1>4, <1>5, <2>1, <2>2, Zenon DEF Meters
<1>6. Meters(rl, h, at + 1, unit)
  BY <1>4, <1>5 DEF Meters
<1> QED BY <1>2, <1>6

\* A limiter rolled to the slot: its window is the slot's.
LEMMA MetersRolled ==
    ASSUME NEW at \in 0..MaxSlot, NEW h, Cumulative(h, at), NEW rl \in LimiterType,
           NEW unit \in Nat, Meters(rl, h, at, unit),
           NEW w, w = rl.config.window_duration, w > 0,
           NEW r, r = Rolled(rl, at)
    PROVE  /\ r \in LimiterType /\ r.config = rl.config
           /\ r.window_start = WindowStart(at, w)
           /\ Meters(r, h, at, unit)
<1>1. /\ w \in Nat \ {0} /\ at \in Nat /\ at =< MaxSlot /\ MaxSlot \in Nat
      /\ rl.cur_qty \in Nat /\ rl.prev_qty \in Nat /\ FromInt(rl.config.max_outflow) \in Nat
  BY LimiterFields, AmountsAssumption
<1>2. PICK ws \in Nat : ws = rl.window_start
  BY LimiterFields
<1>3. PICK start \in Nat :
          /\ start = WindowStart(at, w) /\ start =< at /\ at < start + w
          /\ start = WindowStart(start, w)
  BY <1>1, WindowStartFacts
<1>4. /\ ws =< at /\ ws = WindowStart(ws, w)
      /\ rl.cur_qty =< FromInt(rl.config.max_outflow)
      /\ unit * (Upto(h, at) - Upto(h, ws - 1)) =< rl.cur_qty
      /\ \A s \in 0..MaxSlot : s >= ws + w - 1 /\ s =< at => h[s] = h[at]
  BY <1>1, <1>2 DEF Meters
<1>5. r \in LimiterType
  BY <1>1, RolledType
<1>6. CASE start < ws + w
  <2>1. start = ws
    BY <1>1, <1>3, <1>4, <1>6, SameWindow
  <2>2. r = rl
    BY <1>2, <1>3, <1>6 DEF Rolled
  <2> QED BY <1>2, <1>3, <1>5, <2>1, <2>2
<1>7. CASE ~(start < ws + w)
  <2>1. PICK p \in Nat : p = IF start = ws + w THEN rl.cur_qty ELSE 0
    BY <1>1
  <2>2. r = [rl EXCEPT !.window_start = start, !.prev_qty = p, !.cur_qty = 0]
    BY <1>2, <1>3, <1>7, <2>1 DEF Rolled
  <2>3. /\ r.config = rl.config /\ r.window_start = start /\ r.prev_qty = p /\ r.cur_qty = 0
    BY <2>2 DEF LimiterType
  <2>4. /\ start - 1 \in 0..MaxSlot /\ start - 1 >= ws + w - 1 /\ start - 1 =< at
        /\ start - w - 1 =< start - 1
    BY <1>1, <1>3, <1>7
  <2>5. h[start - 1] = h[at]
    BY <1>4, <2>4
  <2>6. Upto(h, start - 1) = Upto(h, at)
    BY <1>1, <2>4, <2>5 DEF Upto
  <2>7. unit * (Upto(h, at) - Upto(h, start - 1)) =< 0
    <3>1. Upto(h, at) \in Nat
      BY UptoFacts
    <3> QED BY <2>6, <3>1
  <2>8. unit * (Upto(h, start - 1) - Upto(h, start - w - 1)) =< p
    <3>1. CASE start = ws + w
      <4>1. start - w - 1 = ws - 1
        BY <1>1, <1>2, <3>1
      <4> QED BY <1>4, <2>1, <2>6, <3>1, <4>1
    <3>2. CASE start # ws + w
      <4>1. start > ws + w
        BY <1>1, <1>2, <1>3, <1>7, <3>2
      <4>2. start >= ws + 2 * w
        BY <1>1, <1>3, <1>4, <4>1, LaterWindow
      <4>3. PICK b : b = start - w - 1
        OBVIOUS
      <4>4. b \in 0..MaxSlot /\ b >= ws + w - 1 /\ b =< at
        BY <1>1, <1>2, <1>3, <2>4, <4>2, <4>3
      <4>5. h[b] = h[at]
        BY <1>4, <4>4
      <4>6. Upto(h, b) = Upto(h, at) /\ Upto(h, at) \in Nat
        BY <1>1, <4>4, <4>5, UptoFacts DEF Upto
      <4>7. unit * (Upto(h, at) - Upto(h, at)) = 0
        BY <4>6
      <4> QED BY <2>1, <2>6, <3>2, <4>3, <4>6, <4>7
    <3> QED BY <3>1, <3>2
  <2>9. \A s \in 0..MaxSlot : s >= start + w - 1 /\ s =< at => h[s] = h[at]
    <3>1. \A s \in 0..MaxSlot : s >= start + w - 1 /\ s =< at => s = at
      BY <1>1, <1>3
    <3> QED BY <3>1
  <2>10. p =< FromInt(rl.config.max_outflow) /\ 0 =< FromInt(rl.config.max_outflow)
    BY <1>1, <1>4, <2>1
  <2>11. Meters(r, h, at, unit)
    BY <1>3, <2>3, <2>7, <2>8, <2>9, <2>10 DEF Meters
  <2> QED BY <1>3, <1>5, <2>3, <2>11
<1> QED BY <1>6, <1>7

\* An outflow that the limiter admits, counted in both.
LEMMA MetersCounted ==
    ASSUME NEW at \in 0..MaxSlot, NEW h, Cumulative(h, at), NEW rl \in LimiterType,
           NEW unit \in Nat, Meters(rl, h, at, unit),
           NEW qty \in Nat, NEW out \in Nat, unit * out =< qty, Admits(rl, at, qty)
    PROVE  /\ Cumulative(From(h, at, out), at)
           /\ Meters(Updated(rl, at, qty), From(h, at, out), at, unit)
<1>1. PICK g : g = From(h, at, out)
  OBVIOUS
<1>2. \A s \in 0..MaxSlot : g[s] = IF s >= at THEN h[s] + out ELSE h[s]
  BY <1>1 DEF From
<1>3. Cumulative(g, at)
  <2>1. g \in [0..MaxSlot -> Nat]
    BY <1>1, <1>2 DEF Cumulative, From
  <2>2. \A s, t \in 0..MaxSlot : s =< t => g[s] =< g[t]
    <3> SUFFICES ASSUME NEW s \in 0..MaxSlot, NEW t \in 0..MaxSlot, s =< t
                 PROVE  g[s] =< g[t]
      OBVIOUS
    <3>1. h[s] \in Nat /\ h[t] \in Nat /\ h[s] =< h[t]
      BY DEF Cumulative
    <3> QED BY <1>2, <3>1
  <2>3. \A s \in 0..MaxSlot : s >= at => g[s] = g[at]
    BY <1>2 DEF Cumulative
  <2> QED BY <2>1, <2>2, <2>3 DEF Cumulative
<1>4. PICK w \in Nat : w = rl.config.window_duration
  BY LimiterFields
<1>5. CASE w = 0
  <2>1. Updated(rl, at, qty) = rl
    BY <1>4, <1>5 DEF Updated
  <2>2. Meters(rl, g, at, unit)
    BY <1>4, <1>5 DEF Meters
  <2> QED BY <1>1, <1>3, <2>1, <2>2
<1>6. CASE w # 0
  <2>1. PICK r : r = Rolled(rl, at)
    OBVIOUS
  <2>2. /\ r \in LimiterType /\ r.config = rl.config
        /\ r.window_start = WindowStart(at, w) /\ Meters(r, h, at, unit)
    BY <1>4, <1>6, <2>1, MetersRolled
  <2>3. PICK ws \in Nat : ws = r.window_start /\ ws =< at /\ at < ws + w
    BY <1>4, <1>6, <2>2, WindowStartFacts
  <2>4. /\ r.cur_qty \in Nat /\ r.prev_qty \in Nat /\ FromInt(rl.config.max_outflow) \in Nat
    BY <2>2, LimiterFields
  <2>5. r.cur_qty + qty =< FromInt(rl.config.max_outflow)
    <3>1. CurrentOutflow(r, at) + qty =< FromInt(rl.config.max_outflow)
      BY <1>4, <1>6, <2>1 DEF Admits
    <3>2. PICK f \in Nat : f = DivInt(FromInt(w) - FromInt(at - ws + 1), w)
      <4>1. at - ws + 1 \in 1..w /\ w \in Nat \ {0}
        BY <1>4, <1>6, <2>3
      <4> QED BY <4>1, WeightFacts
    <3>3. CurrentOutflow(r, at) = Mul(f, r.prev_qty) + r.cur_qty
      BY <1>4, <2>2, <2>3, <3>2 DEF CurrentOutflow
    <3>4. Mul(f, r.prev_qty) \in Nat
      BY <2>4, <3>2, DecimalNat
    <3> QED BY <2>4, <3>1, <3>3, <3>4
  <2>6. PICK n : n = Updated(rl, at, qty)
    OBVIOUS
  <2>7. n = [r EXCEPT !.cur_qty = r.cur_qty + qty]
    BY <1>4, <1>6, <2>1, <2>6 DEF Updated
  <2>8. /\ n.config = rl.config /\ n.window_start = ws /\ n.prev_qty = r.prev_qty
        /\ n.cur_qty = r.cur_qty + qty
    BY <2>2, <2>3, <2>7 DEF LimiterType
  <2>9. /\ ws = WindowStart(ws, w) /\ r.prev_qty =< FromInt(rl.config.max_outflow)
        /\ unit * (Upto(h, at) - Upto(h, ws - 1)) =< r.cur_qty
        /\ unit * (Upto(h, ws - 1) - Upto(h, ws - w - 1)) =< r.prev_qty
    BY <1>4, <1>6, <2>2, <2>3 DEF Meters
  <2>10. /\ Upto(g, at) = Upto(h, at) + out
         /\ Upto(g, ws - 1) = Upto(h, ws - 1)
         /\ Upto(g, ws - w - 1) = Upto(h, ws - w - 1)
    <3>1. \A s \in Int : s < at => Upto(g, s) = Upto(h, s)
      <4>1. \A s \in Int : s < at => s < 0 \/ s \in 0..MaxSlot
        BY AmountsAssumption
      <4> QED BY <1>2, <4>1 DEF Upto
    <3>2. ws - 1 \in Int /\ ws - 1 < at /\ ws - w - 1 \in Int /\ ws - w - 1 < at
      BY <1>4, <2>3
    <3>3. Upto(g, at) = Upto(h, at) + out
      BY <1>2 DEF Upto
    <3> QED BY <3>1, <3>2, <3>3
  <2>11. unit * (Upto(g, at) - Upto(g, ws - 1)) =< n.cur_qty
    <3>1. ws - 1 \in Int /\ ws - 1 =< at
      BY <2>3
    <3>2. PICK x \in Nat, y \in Nat : x = Upto(h, at) /\ y = Upto(h, ws - 1) /\ y =< x
      BY <3>1, UptoFacts
    <3>3. unit * (x + out - y) = unit * (x - y) + unit * out
      BY <3>2, SMT
    <3>4. unit * (x - y) \in Int /\ unit * out \in Int
      BY <3>2, SMT
    <3> QED BY <2>4, <2>8, <2>9, <2>10, <3>2, <3>3, <3>4
  <2>12. \A s \in 0..MaxSlot : s >= ws + w - 1 /\ s =< at => g[s] = g[at]
    <3>1. \A s \in 0..MaxSlot : s >= ws + w - 1 /\ s =< at => s = at
      BY <1>4, <2>3
    <3> QED BY <3>1
  <2>13. unit * (Upto(g, ws - 1) - Upto(g, ws - w - 1)) =< n.prev_qty
    BY <2>8, <2>9, <2>10
  <2>14. Meters(n, g, at, unit)
    BY <1>4, <2>3, <2>5, <2>8, <2>9, <2>11, <2>12, <2>13 DEF Meters
  <2> QED BY <1>1, <1>3, <2>6, <2>14
<1> QED BY <1>5, <1>6

\* The risk authority closes a limiter anew with the configuration it had: it
\* let nothing through, so that there is nothing to forget.
LEMMA MetersClosed ==
    ASSUME NEW at \in 0..MaxSlot, NEW h, Cumulative(h, at), NEW rl \in LimiterType,
           NEW unit \in Nat, Meters(rl, h, at, unit),
           rl.config.window_duration > 0, rl.config.max_outflow = 0
    PROVE  Meters(New(rl.config, at), h, at, unit)
<1>1. PICK w \in Nat : w = rl.config.window_duration
  BY LimiterFields
<1>2. PICK r : r = Rolled(rl, at)
  OBVIOUS
<1>3. /\ r \in LimiterType /\ r.config = rl.config
      /\ r.window_start = WindowStart(at, w) /\ Meters(r, h, at, unit)
  BY <1>1, <1>2, MetersRolled
<1>4. PICK n \in LimiterType : n = New(rl.config, at)
  BY LimiterFields, NewLimiterType
<1>5. /\ n.config = rl.config /\ n.cur_qty = 0 /\ n.prev_qty = 0
      /\ n.window_start = r.window_start
  BY <1>1, <1>3, <1>4 DEF New
<1>6. FromInt(rl.config.max_outflow) = 0
  BY WADAssumption DEF FromInt
<1>7. r.cur_qty = 0 /\ r.prev_qty = 0
  <2>1. r.cur_qty \in Nat /\ r.prev_qty \in Nat
    BY <1>3, LimiterFields
  <2> QED BY <1>3, <1>6, <2>1 DEF Meters
<1>8. Meters(n, h, at, unit)
  BY <1>3, <1>5, <1>7 DEF Meters
<1> QED BY <1>4, <1>8

\* What the counters cover: any slots of one window meet two of the limiter's.
LEMMA MetersRespects ==
    ASSUME NEW at \in 0..MaxSlot, NEW h, Cumulative(h, at), NEW rl \in LimiterType,
           NEW unit \in Nat, Meters(rl, h, at, unit),
           NEW w, w = rl.config.window_duration, w > 0
    PROVE  unit * (Upto(h, at) - Upto(h, at - w - 1)) =< 2 * FromInt(rl.config.max_outflow)
<1>1. w \in Nat /\ FromInt(rl.config.max_outflow) \in Nat
      /\ rl.cur_qty \in Nat /\ rl.prev_qty \in Nat
  BY LimiterFields
<1>2. PICK ws \in Nat : ws = rl.window_start
  BY LimiterFields
<1>3. /\ ws =< at
      /\ rl.cur_qty =< FromInt(rl.config.max_outflow)
      /\ rl.prev_qty =< FromInt(rl.config.max_outflow)
      /\ unit * (Upto(h, at) - Upto(h, ws - 1)) =< rl.cur_qty
      /\ unit * (Upto(h, ws - 1) - Upto(h, ws - w - 1)) =< rl.prev_qty
  BY <1>2 DEF Meters
<1>4. PICK a \in Nat, b \in Nat, c \in Nat, d \in Nat :
          /\ a = Upto(h, ws - w - 1) /\ b = Upto(h, ws - 1) /\ c = Upto(h, at - w - 1)
          /\ d = Upto(h, at)
          /\ a =< c
  <2>1. /\ ws - w - 1 \in Int /\ ws - 1 \in Int /\ at - w - 1 \in Int /\ at \in Int
        /\ ws - w - 1 =< at /\ ws - 1 =< at /\ at - w - 1 =< at /\ at =< at
        /\ ws - w - 1 =< at - w - 1
    BY <1>1, <1>3
  <2> QED BY <2>1, UptoFacts
<1>5. unit * (d - b) + unit * (b - a) = unit * (d - c) + unit * (c - a)
  BY <1>4, SMT
<1>6. unit * (c - a) \in Nat /\ unit * (d - c) \in Int
      /\ unit * (d - b) \in Int /\ unit * (b - a) \in Int
  <2>1. c - a \in Nat
    BY <1>4
  <2> QED BY <2>1, <1>4, ProductNat, SMT
<1>7. unit * (d - b) =< rl.cur_qty /\ unit * (b - a) =< rl.prev_qty
  BY <1>3, <1>4
<1>8. unit * (d - c) =< 2 * FromInt(rl.config.max_outflow)
  BY <1>1, <1>3, <1>5, <1>6, <1>7
<1> QED BY <1>4, <1>8

-----------------------------------------------------------------------------
\* The histories of LimitedLending and the limiters of the accounts.

\* A live reserve's limiter has counted what left its vault, and the market's
\* the value of what left them all.
HistoriesMetered ==
    /\ \A r \in Reserves : Cumulative(left[r], slot)
    /\ \A r \in Reserves : Live(reserve[r]) =>
          /\ reserve[r].mint_scale = MintScale[r]
          /\ Meters(reserve[r].rate_limiter, left[r], slot, One)
    /\ Cumulative(worth, slot)
    /\ Meters(market.rate_limiter, worth, slot, 1)

\* No limiter changes; that of a reserve opened in the step is disabled.
SameLimits(a, b) == b.rate_limiter = a.rate_limiter /\ b.mint_scale = a.mint_scale
LimitersKept ==
    /\ slot' = slot /\ market'.rate_limiter = market.rate_limiter
    /\ \A q \in Reserves :
          IF Live(reserve[q]) THEN SameLimits(reserve[q], reserve'[q])
          ELSE Live(reserve'[q]) => /\ reserve'[q].mint_scale = MintScale[q]
                                    /\ reserve'[q].rate_limiter.config.window_duration = 0

\* `out` tokens leave reserve r, which becomes X, and `amount` is counted.
Metered(r, X, out, amount) ==
    /\ slot' = slot /\ Live(reserve[r]) /\ Live(X)
    /\ amount \in Nat /\ out \in Nat /\ FromInt(out) =< amount
    /\ AdmitsOutflow(reserve[r], amount)
    /\ market'.rate_limiter =
          Updated(market.rate_limiter, slot, MarketValue(reserve[r], amount))
    /\ reserve' = [reserve EXCEPT ![r] = X]
    /\ X.rate_limiter = Updated(reserve[r].rate_limiter, slot, amount)
    /\ X.mint_scale = reserve[r].mint_scale
    /\ X.available_amount = reserve[r].available_amount - out

\* What LimitedLending records of a step of the users.
Recorded ==
    /\ left' = [r \in Reserves |-> From(left[r], slot, Outgoing(r))]
    /\ worth' = From(worth, slot,
                     SumFunctionOnSet([r \in Reserves |->
                                          DivInt(FromInt(Outgoing(r)), MintScale[r])], Reserves))

\* Nothing that leaves in a slot changes no history.
LEMMA NothingAdded ==
    ASSUME NEW at \in 0..MaxSlot, NEW h, Cumulative(h, at)
    PROVE  From(h, at, 0) = h
<1>1. \A s \in 0..MaxSlot : h[s] + 0 = h[s]
  BY DEF Cumulative
<1> QED BY <1>1 DEF From, Cumulative

\* The typed values of sound accounts.
LEMMA LimitersTyped ==
    ASSUME Accounts
    PROVE  /\ slot \in 0..MaxSlot /\ slot \in Nat
           /\ market.rate_limiter \in LimiterType
           /\ \A r \in Reserves : Live(reserve[r]) =>
                 /\ reserve[r] \in ReserveType
                 /\ reserve[r].rate_limiter \in LimiterType
                 /\ reserve[r].mint_scale \in Nat \ {0}
<1>1. \A r \in Reserves : Live(reserve[r]) => reserve[r] \in ReserveType
  BY LiveSound DEF Sound
<1> QED BY <1>1, AmountsAssumption DEF Accounts, MarketOK, ReserveType

\* What left a vault is what its reserve no longer counts.
LEMMA OutgoingFacts ==
    ASSUME Cash, Cash', NEW r \in Reserves
    PROVE  /\ Outgoing(r) \in Nat
           /\ Counted(r) =< Counted(r)' => Outgoing(r) = 0
           /\ \A n \in Nat : Counted(r)' = Counted(r) - n => Outgoing(r) = n
<1>1. PICK a \in Nat, b \in Nat : a = token[r][Vault] /\ b = token'[r][Vault]
  BY HoldersApart DEF Cash, TokensTyped
<1>2. a = Counted(r) /\ b = Counted(r)'
  BY <1>1 DEF Cash, InVault
<1> QED BY <1>1, <1>2 DEF Outgoing, Larger

\* Nothing leaves: the record stays the same.
LEMMA NothingRecorded ==
    ASSUME Accounts, HistoriesMetered, Cash, Cash', Recorded,
           \A r \in Reserves : Outgoing(r) = 0
    PROVE  worth' = worth /\ \A r \in Reserves : left'[r] = left[r]
<1>1. slot \in 0..MaxSlot
  BY LimitersTyped
<1>2. \A r \in Reserves : left'[r] = left[r]
  BY <1>1, NothingAdded DEF Recorded, HistoriesMetered
<1>3. \A r \in Reserves : DivInt(FromInt(Outgoing(r)), MintScale[r]) = 0
  <2> SUFFICES ASSUME NEW r \in Reserves
               PROVE  DivInt(FromInt(0), MintScale[r]) = 0
    OBVIOUS
  <2>1. PICK n \in Nat \ {0} : n = MintScale[r]
    BY AmountsAssumption
  <2>2. FromInt(0) = 0
    BY WADAssumption DEF FromInt
  <2>3. 0 \div n = 0
    BY <2>1, SMT
  <2> QED BY <2>1, <2>2, <2>3 DEF DivInt
<1>4. SumFunctionOnSet([r \in Reserves |-> DivInt(FromInt(Outgoing(r)), MintScale[r])], Reserves) = 0
  <2> DEFINE f == [r \in Reserves |-> DivInt(FromInt(Outgoing(r)), MintScale[r])]
  <2>1. \A r \in Reserves : f[r] = 0
    BY <1>3
  <2> HIDE DEF f
  <2>2. SumFunctionOnSet(f, Reserves) = 0
    BY <2>1, FinitelyManyReserves, SumZero
  <2> QED BY <2>2 DEF f
<1>5. worth' = worth
  BY <1>1, <1>4, NothingAdded DEF Recorded, HistoriesMetered
<1> QED BY <1>2, <1>5

\* A step that changes no limiter and no history.
LEMMA MeteredKept ==
    ASSUME Accounts, HistoriesMetered, LimitersKept, worth' = worth,
           \A r \in Reserves : left'[r] = left[r]
    PROVE  HistoriesMetered'
<1>1. \A r \in Reserves : Cumulative(left'[r], slot')
  BY DEF HistoriesMetered, LimitersKept
<1>2. ASSUME NEW r \in Reserves, Live(reserve'[r])
      PROVE  /\ reserve'[r].mint_scale = MintScale[r]
             /\ Meters(reserve'[r].rate_limiter, left'[r], slot', One)
  <2>1. CASE Live(reserve[r])
    BY <2>1 DEF HistoriesMetered, LimitersKept, SameLimits
  <2>2. CASE ~Live(reserve[r])
    <3>1. /\ reserve'[r].mint_scale = MintScale[r]
          /\ reserve'[r].rate_limiter.config.window_duration = 0
      BY <1>2, <2>2 DEF LimitersKept
    <3> QED BY <3>1 DEF Meters
  <2> QED BY <2>1, <2>2
<1>3. Cumulative(worth', slot') /\ Meters(market'.rate_limiter, worth', slot', 1)
  BY DEF HistoriesMetered, LimitersKept
<1> QED BY <1>1, <1>2, <1>3 DEF HistoriesMetered

\* A slot passes.
LEMMA MeteredTick ==
    ASSUME Accounts, HistoriesMetered, Cash, Cash', Tick, Recorded
    PROVE  HistoriesMetered'
<1>1. /\ slot \in 0..MaxSlot /\ slot + 1 =< MaxSlot /\ slot' = slot + 1
      /\ reserve' = reserve /\ market' = market /\ token' = token
  BY LimitersTyped, AmountsAssumption DEF Tick
<1>2. \A r \in Reserves : Outgoing(r) = 0
  <2>1. \A r \in Reserves : Counted(r)' = Counted(r) /\ Counted(r) \in Nat
    BY <1>1, HoldersApart DEF Counted, Cash, InVault, TokensTyped
  <2> QED BY <2>1, OutgoingFacts
<1>3. worth' = worth /\ \A r \in Reserves : left'[r] = left[r]
  BY <1>2, NothingRecorded
<1>4. \A r \in Reserves : Cumulative(left[r], slot + 1)
  <2> SUFFICES ASSUME NEW r \in Reserves  PROVE Cumulative(left[r], slot + 1)
    OBVIOUS
  <2>1. Cumulative(left[r], slot) /\ slot + 1 \in 0..MaxSlot
    BY <1>1 DEF HistoriesMetered
  <2> QED BY <1>1, <2>1 DEF Cumulative
<1>5. \A r \in Reserves : Live(reserve[r]) =>
          Meters(reserve[r].rate_limiter, left[r], slot + 1, One)
  BY <1>1, MetersTick, LimitersTyped, WADAssumption DEF HistoriesMetered, One
<1>6. Cumulative(worth, slot + 1) /\ Meters(market.rate_limiter, worth, slot + 1, 1)
  BY <1>1, MetersTick, LimitersTyped DEF HistoriesMetered
<1> QED BY <1>1, <1>3, <1>4, <1>5, <1>6 DEF HistoriesMetered

-----------------------------------------------------------------------------
\* The handlers that let nothing out, or are not counted: what they do to a
\* reserve leaves its limiter and its scale alone.

HasLimits(res) == {"rate_limiter", "mint_scale"} \subseteq DOMAIN res
KeepsLimits(a, b) == HasLimits(b) /\ SameLimits(a, b)

\* Two steps that keep the limits, one after the other.
LEMMA KeepsLimitsTransitive ==
    ASSUME NEW a, NEW b, NEW c, KeepsLimits(a, b), KeepsLimits(b, c)
    PROVE  KeepsLimits(a, c)
BY DEF KeepsLimits, SameLimits

\* Amounts, debts, fees and the update change; the limiter does not.
LEMMA AmountsKeepLimits ==
    ASSUME NEW res, HasLimits(res), NEW m, NEW n
    PROVE  /\ KeepsLimits(res, MarkStale(res))
           /\ KeepsLimits(res, DepositLiquidity(res, m, n))
           /\ KeepsLimits(res, RedeemCollateral(res, m, n))
           /\ KeepsLimits(res, Lend(res, m))
           /\ KeepsLimits(res, Settle(res, m, n))
           /\ KeepsLimits(res, Forgive(res, m))
           /\ KeepsLimits(res, RedeemFees(res, m))
BY DEF HasLimits, KeepsLimits, SameLimits, MarkStale, DepositLiquidity, RedeemCollateral, Lend,
       Settle, Forgive, RedeemFees

\* An interest charge leaves the limiter alone.
LEMMA RefreshKeepsLimits ==
    ASSUME NEW res, HasLimits(res), NEW s
    PROVE  KeepsLimits(res, RefreshInterest(res, s))
<1> DEFINE elapsed == s - res.last_update.slot
           rate == CompoundedRate(res, elapsed)
           grown == IF elapsed > 0 THEN Compound(res, rate) ELSE res
<1>1. KeepsLimits(res, Compound(res, rate))
  <2> HIDE DEF rate
  <2> QED BY DEF HasLimits, KeepsLimits, SameLimits, Compound
<1>2. KeepsLimits(res, grown)
  <2> HIDE DEF rate
  <2> QED BY <1>1 DEF KeepsLimits, SameLimits
<1>3. RefreshInterest(res, s) = [grown EXCEPT !.last_update = UpdatedAt(s)]
  BY DEF RefreshInterest
<1>4. KeepsLimits(grown, [grown EXCEPT !.last_update = UpdatedAt(s)])
  <2> HIDE DEF grown
  <2> QED BY <1>2 DEF HasLimits, KeepsLimits, SameLimits
<1> HIDE DEF grown
<1> QED BY <1>2, <1>3, <1>4, KeepsLimitsTransitive

\* What the marked handlers of one reserve leave of it.
LEMMA MarkedKeepsLimits ==
    ASSUME NEW a, NEW b, KeepsLimits(a, b)
    PROVE  KeepsLimits(a, MarkStale(b))
<1>1. KeepsLimits(b, MarkStale(b))
  BY AmountsKeepLimits DEF KeepsLimits
<1> QED BY <1>1, KeepsLimitsTransitive

\* A live reserve has a limiter and a scale.
LEMMA LiveHasLimits ==
    ASSUME Accounts, NEW r \in Reserves, Live(reserve[r])
    PROVE  HasLimits(reserve[r])
BY LimitersTyped DEF ReserveType, HasLimits

\* One reserve changes, and not its limiter.
LEMMA OneReserveKept ==
    ASSUME Accounts, slot' = slot, market' = market, NEW r \in Reserves, Live(reserve[r]),
           NEW X, KeepsLimits(reserve[r], X), reserve' = [reserve EXCEPT ![r] = X]
    PROVE  LimitersKept
<1>1. reserve'[r] = X /\ \A q \in Reserves \ {r} : reserve'[q] = reserve[q]
  BY DEF Accounts
<1>2. \A q \in Reserves :
         IF Live(reserve[q]) THEN SameLimits(reserve[q], reserve'[q]) ELSE ~Live(reserve'[q])
  BY <1>1 DEF KeepsLimits, SameLimits
<1> QED BY <1>2 DEF LimitersKept

\* No reserve changes.
LEMMA NoReserveChanged ==
    ASSUME Accounts, slot' = slot, market' = market, reserve' = reserve
    PROVE  LimitersKept
BY DEF LimitersKept, SameLimits

\* A reserve that takes tokens in lets none out.
LEMMA NothingOut ==
    ASSUME Accounts, Cash, Cash', NEW r \in Reserves, NEW X, NEW d \in Nat, Handled(r, X, d)
    PROVE  \A q \in Reserves : Outgoing(q) = 0
<1>1. /\ Live(reserve[r]) /\ Live(X) /\ X.available_amount = reserve[r].available_amount + d
      /\ reserve'[r] = X /\ \A q \in Reserves \ {r} : reserve'[q] = reserve[q]
  BY DEF Handled, Onward, Sound, ReserveType, Live, Accounts
<1>2. \A q \in Reserves : Counted(q) \in Nat
  BY HoldersApart DEF Cash, TokensTyped, InVault
<1>3. Counted(r) =< Counted(r)'
  BY <1>1, <1>2 DEF Counted
<1>4. \A q \in Reserves \ {r} : Counted(q) =< Counted(q)'
  BY <1>1, <1>2 DEF Counted
<1> QED BY <1>3, <1>4, OutgoingFacts

\* No vault is touched.
LEMMA NothingMoved ==
    ASSUME Cash, Cash', reserve' = reserve
    PROVE  \A q \in Reserves : Outgoing(q) = 0
<1>1. \A q \in Reserves : Counted(q)' = Counted(q) /\ Counted(q) \in Nat
  BY HoldersApart DEF Cash, TokensTyped, InVault, Counted
<1> QED BY <1>1, OutgoingFacts

\* A step that lets nothing out, recorded.
LEMMA MeteredNothing ==
    ASSUME Accounts, HistoriesMetered, Cash, Cash', Recorded, LimitersKept,
           \A q \in Reserves : Outgoing(q) = 0
    PROVE  HistoriesMetered'
BY NothingRecorded, MeteredKept

\* A reserve is opened with a disabled limiter and its scale.
LEMMA InitReserveMetered ==
    ASSUME Accounts, HistoriesMetered, Cash, Cash', Recorded,
           NEW r \in Reserves, NEW u, InitReserve(r, u)
    PROVE  HistoriesMetered'
<1>1. PICK res : res = NewReserve(slot, FirstConfig[r], MintScale[r])
  OBVIOUS
<1>2. PICK new : new = LiquidityToCollateral(res, FirstDeposit)
  OBVIOUS
<1>3. PICK X : X = DepositLiquidity(res, FirstDeposit, new)
  OBVIOUS
<1>4. /\ ~Live(reserve[r]) /\ reserve' = [reserve EXCEPT ![r] = X]
      /\ slot' = slot /\ market' = market
  BY <1>1, <1>2, <1>3 DEF InitReserve
<1>5. /\ HasLimits(res) /\ res.mint_scale = MintScale[r]
      /\ res.rate_limiter.config.window_duration = 0
  BY <1>1 DEF HasLimits, NewReserve, New, Config
<1>6. X.mint_scale = MintScale[r] /\ X.rate_limiter.config.window_duration = 0
  BY <1>3, <1>5, AmountsKeepLimits DEF KeepsLimits, SameLimits
<1>7. reserve'[r] = X /\ \A q \in Reserves \ {r} : reserve'[q] = reserve[q]
  BY <1>4 DEF Accounts
<1>8. LimitersKept
  BY <1>4, <1>6, <1>7 DEF LimitersKept, SameLimits
<1>9. \A q \in Reserves : Counted(q) =< Counted(q)'
  <2>1. \A q \in Reserves : Counted(q) \in Nat /\ Counted(q)' \in Nat
    BY HoldersApart DEF Cash, TokensTyped, InVault
  <2>2. Counted(r) = 0 /\ \A q \in Reserves \ {r} : Counted(q)' = Counted(q)
    BY <1>4, <1>7 DEF Counted
  <2> QED BY <2>1, <2>2
<1>10. \A q \in Reserves : Outgoing(q) = 0
  BY <1>9, OutgoingFacts
<1> QED BY <1>8, <1>10, MeteredNothing

\* A deposit refreshes the reserve and counts the tokens.
LEMMA DepositMetered ==
    ASSUME Accounts, HistoriesMetered, Cash, Cash', Recorded,
           NEW u, NEW r \in Reserves, NEW amount \in Nat, Deposit(u, r, amount)
    PROVE  HistoriesMetered'
<1>1. PICK res : res = RefreshInterest(reserve[r], slot)
  OBVIOUS
<1>2. PICK new : new = LiquidityToCollateral(res, amount)
  OBVIOUS
<1>3. PICK d : d = DepositLiquidity(res, amount, new)
  OBVIOUS
<1>4. /\ Live(reserve[r]) /\ reserve' = [reserve EXCEPT ![r] = MarkStale(d)]
      /\ slot' = slot /\ market' = market
  BY <1>1, <1>2, <1>3 DEF Deposit
<1>5. KeepsLimits(reserve[r], res)
  BY <1>1, <1>4, LiveHasLimits, RefreshKeepsLimits
<1>6. KeepsLimits(res, d)
  BY <1>3, <1>5, AmountsKeepLimits DEF KeepsLimits
<1>7. KeepsLimits(reserve[r], MarkStale(d))
  BY <1>5, <1>6, KeepsLimitsTransitive, MarkedKeepsLimits
<1>8. LimitersKept
  BY <1>4, <1>7, OneReserveKept
<1>9. \A q \in Reserves : Outgoing(q) = 0
  BY DepositDoes, NothingOut
<1> QED BY <1>8, <1>9, MeteredNothing

\* So does a deposit that is pledged at once.
LEMMA DepositAndPledgeMetered ==
    ASSUME Accounts, HistoriesMetered, Cash, Cash', Recorded,
           NEW o \in Obligations, NEW r \in Reserves, NEW amount \in Nat,
           DepositAndPledge(o, r, amount)
    PROVE  HistoriesMetered'
<1>1. PICK res : res = RefreshInterest(reserve[r], slot)
  OBVIOUS
<1>2. PICK new : new = LiquidityToCollateral(res, amount)
  OBVIOUS
<1>3. PICK d : d = DepositLiquidity(res, amount, new)
  OBVIOUS
<1>4. /\ Live(reserve[r]) /\ reserve' = [reserve EXCEPT ![r] = MarkStale(d)]
      /\ slot' = slot /\ market' = market
  BY <1>1, <1>2, <1>3 DEF DepositAndPledge
<1>5. KeepsLimits(reserve[r], res)
  BY <1>1, <1>4, LiveHasLimits, RefreshKeepsLimits
<1>6. KeepsLimits(res, d)
  BY <1>3, <1>5, AmountsKeepLimits DEF KeepsLimits
<1>7. KeepsLimits(reserve[r], MarkStale(d))
  BY <1>5, <1>6, KeepsLimitsTransitive, MarkedKeepsLimits
<1>8. LimitersKept
  BY <1>4, <1>7, OneReserveKept
<1>9. \A q \in Reserves : Outgoing(q) = 0
  BY DepositAndPledgeDoes, NothingOut
<1> QED BY <1>8, <1>9, MeteredNothing

\* A pledge only refreshes the reserve.
LEMMA DepositObligationMetered ==
    ASSUME Accounts, HistoriesMetered, Cash, Cash', Recorded,
           NEW o \in Obligations, NEW r \in Reserves, NEW coll \in Nat,
           DepositObligation(o, r, coll)
    PROVE  HistoriesMetered'
<1>1. PICK res : res = RefreshInterest(reserve[r], slot)
  OBVIOUS
<1>2. /\ Live(reserve[r]) /\ reserve' = [reserve EXCEPT ![r] = MarkStale(res)]
      /\ slot' = slot /\ market' = market
  BY <1>1 DEF DepositObligation
<1>3. KeepsLimits(reserve[r], res)
  BY <1>1, <1>2, LiveHasLimits, RefreshKeepsLimits
<1>4. LimitersKept
  BY <1>2, <1>3, MarkedKeepsLimits, OneReserveKept
<1>5. \A q \in Reserves : Outgoing(q) = 0
  BY DepositObligationDoes, NothingOut
<1> QED BY <1>4, <1>5, MeteredNothing

\* A repayment refreshes the reserve and counts the tokens.
LEMMA RepayMetered ==
    ASSUME Accounts, HistoriesMetered, Cash, Cash', Recorded,
           NEW u, NEW o \in Obligations, NEW r \in Reserves, NEW asked \in Nat,
           Repay(u, o, r, asked)
    PROVE  HistoriesMetered'
<1>1. PICK res : res = RefreshInterest(reserve[r], slot)
  OBVIOUS
<1>2. PICK debt : debt = Accrue(obligation[o].borrows[BorrowIndex(obligation[o], r)],
                                res.cumulative_borrow_rate_wads)
  OBVIOUS
<1>3. PICK settle : settle = IF asked = U64_MAX THEN debt.borrowed_amount_wads
                             ELSE Smaller(FromInt(asked), debt.borrowed_amount_wads)
  OBVIOUS
<1>4. PICK d : d = Settle(res, Ceil(settle), settle)
  OBVIOUS
<1>5. /\ Live(reserve[r]) /\ reserve' = [reserve EXCEPT ![r] = MarkStale(d)]
      /\ slot' = slot /\ market' = market
  BY <1>1, <1>2, <1>3, <1>4 DEF Repay
<1>6. KeepsLimits(reserve[r], res)
  BY <1>1, <1>5, LiveHasLimits, RefreshKeepsLimits
<1>7. KeepsLimits(res, d)
  BY <1>4, <1>6, AmountsKeepLimits DEF KeepsLimits
<1>8. LimitersKept
  BY <1>5, <1>6, <1>7, KeepsLimitsTransitive, MarkedKeepsLimits, OneReserveKept
<1>9. \A q \in Reserves : Outgoing(q) = 0
  BY RepayDoes, NothingOut
<1> QED BY <1>8, <1>9, MeteredNothing

\* Forgiving a debt moves nothing.
LEMMA ForgiveDebtMetered ==
    ASSUME Accounts, HistoriesMetered, Cash, Cash', Recorded,
           NEW o \in Obligations, NEW r \in Reserves, NEW asked \in Nat,
           ForgiveDebt(o, r, asked)
    PROVE  HistoriesMetered'
<1>1. PICK i : i = BorrowIndex(obligation[o], r)
  OBVIOUS
<1>2. PICK amount : amount = Smaller(FromInt(asked),
                                Smaller(obligation[o].borrows[i].borrowed_amount_wads,
                                        Forgivable(reserve[r])))
  OBVIOUS
<1>3. PICK d : d = Forgive(reserve[r], amount)
  OBVIOUS
<1>4. /\ Live(reserve[r]) /\ reserve' = [reserve EXCEPT ![r] = MarkStale(d)]
      /\ slot' = slot /\ market' = market
  BY <1>1, <1>2, <1>3 DEF ForgiveDebt, Fresh
<1>5. KeepsLimits(reserve[r], d)
  BY <1>3, <1>4, LiveHasLimits, AmountsKeepLimits
<1>6. LimitersKept
  BY <1>4, <1>5, MarkedKeepsLimits, OneReserveKept
<1>7. \A q \in Reserves : Outgoing(q) = 0
  BY ForgiveDebtDoes, NothingOut
<1> QED BY <1>6, <1>7, MeteredNothing

\* Opening an obligation and withdrawing collateral touch no reserve.
LEMMA NoReserveMetered ==
    ASSUME Accounts, HistoriesMetered, Cash, Cash', Recorded,
           slot' = slot, market' = market, reserve' = reserve
    PROVE  HistoriesMetered'
BY NoReserveChanged, NothingMoved, MeteredNothing

-----------------------------------------------------------------------------
\* The handlers that pass both limiters.

\* The market counts at least the value of the whole tokens that leave.
LEMMA ValueCovers ==
    ASSUME NEW res \in ReserveType, NEW amount \in Nat, NEW out \in Nat, FromInt(out) =< amount
    PROVE  /\ DivInt(FromInt(out), res.mint_scale) \in Nat
           /\ DivInt(FromInt(out), res.mint_scale) =< MarketValue(res, amount)
<1>1. PICK scale \in Nat \ {0} : scale = res.mint_scale
  BY DEF ReserveType
<1>2. WAD \in Nat \ {0} /\ FromInt(out) \in Nat
  BY WADAssumption, ConversionNat
<1>3. PICK d : d = FromInt(out) \div scale
  OBVIOUS
<1>4. d \in Nat /\ d * scale =< FromInt(out)
  BY <1>1, <1>2, <1>3, DivFacts
<1>5. Mul(MARKET_PRICE, amount) = amount
  <2>1. WAD * amount = amount * WAD
    BY <1>2, SMT
  <2> QED BY <2>1, FloorFromInt DEF Mul, MARKET_PRICE, One, Floor, FromInt
<1>6. MarketValue(res, amount) = (amount * WAD) \div (scale * WAD)
  BY <1>1, <1>5 DEF MarketValue, Div, FromInt
<1>7. d * scale \in Nat /\ d * scale =< amount
  BY <1>1, <1>2, <1>4, ProductNat
<1>8. (d * scale) * WAD =< amount * WAD
  BY <1>2, <1>7, ProductMonotone
<1>9. d * (scale * WAD) = (d * scale) * WAD
  BY <1>1, <1>2, <1>4, SMT
<1>10. PICK b \in Nat \ {0} : b = scale * WAD
  <2>1. scale * WAD \in Nat \ {0}
    BY <1>1, <1>2, SMT
  <2> QED BY <2>1
<1>11. PICK a \in Nat : a = amount * WAD
  <2>1. amount * WAD \in Nat
    BY <1>2, ProductNat
  <2> QED BY <2>1
<1>12. (d * b) \div b =< a \div b
  <2>1. d * b \in Nat /\ d * b =< a
    BY <1>4, <1>8, <1>9, <1>10, <1>11, ProductNat
  <2> QED BY <1>11, <2>1, DivMonotone
<1>13. (d * b) \div b = d
  BY <1>4, SMT
<1> QED BY <1>1, <1>3, <1>4, <1>6, <1>10, <1>11, <1>12, <1>13 DEF DivInt

\* What leaves in such a step, and what it is worth.
LEMMA MeteredOutgoing ==
    ASSUME Accounts, HistoriesMetered, Cash, Cash', NEW r \in Reserves, NEW X,
           NEW out, NEW amount, Metered(r, X, out, amount)
    PROVE  /\ Outgoing(r) = out /\ \A q \in Reserves \ {r} : Outgoing(q) = 0
           /\ SumFunctionOnSet([q \in Reserves |-> DivInt(FromInt(Outgoing(q)), MintScale[q])],
                               Reserves)
                 = DivInt(FromInt(out), reserve[r].mint_scale)
<1>1. /\ Live(reserve[r]) /\ Live(X) /\ out \in Nat
      /\ X.available_amount = reserve[r].available_amount - out
      /\ reserve'[r] = X /\ \A q \in Reserves \ {r} : reserve'[q] = reserve[q]
  BY DEF Metered, Accounts
<1>2. \A q \in Reserves : Counted(q) \in Nat
  BY HoldersApart DEF Cash, TokensTyped, InVault
<1>3. Outgoing(r) = out
  <2>1. Counted(r)' = Counted(r) - out
    BY <1>1 DEF Counted
  <2> QED BY <1>1, <2>1, OutgoingFacts
<1>4. \A q \in Reserves \ {r} : Outgoing(q) = 0
  <2>1. \A q \in Reserves \ {r} : Counted(q) =< Counted(q)'
    BY <1>1, <1>2 DEF Counted
  <2> QED BY <2>1, OutgoingFacts
<1> DEFINE f == [q \in Reserves |-> DivInt(FromInt(Outgoing(q)), MintScale[q])]
<1>5. MintScale[r] = reserve[r].mint_scale
  BY <1>1 DEF HistoriesMetered
<1>6. f[r] = DivInt(FromInt(out), reserve[r].mint_scale)
  BY <1>3, <1>5
<1>7. f[r] \in Nat
  <2>1. reserve[r].mint_scale \in Nat \ {0} /\ FromInt(out) \in Nat
    BY <1>1, LimitersTyped, ConversionNat
  <2> QED BY <1>6, <2>1, DivFacts DEF DivInt
<1>8. \A q \in Reserves \ {r} : f[q] = 0
  <2> SUFFICES ASSUME NEW q \in Reserves \ {r}  PROVE DivInt(FromInt(0), MintScale[q]) = 0
    BY <1>4
  <2>1. PICK n \in Nat \ {0} : n = MintScale[q]
    BY AmountsAssumption
  <2>2. FromInt(0) = 0
    BY WADAssumption DEF FromInt
  <2>3. 0 \div n = 0
    BY <2>1, SMT
  <2> QED BY <2>1, <2>2, <2>3 DEF DivInt
<1> HIDE DEF f
<1>9. SumFunctionOnSet(f, Reserves) = f[r] + SumFunctionOnSet(f, Reserves \ {r})
  BY <1>7, <1>8, FinitelyManyReserves, SumRemove
<1>10. SumFunctionOnSet(f, Reserves \ {r}) = 0
  <2>1. IsFiniteSet(Reserves \ {r})
    BY FinitelyManyReserves, FS_Difference
  <2> QED BY <1>8, <2>1, SumZero
<1>11. SumFunctionOnSet(f, Reserves) = f[r]
  BY <1>7, <1>9, <1>10
<1> QED BY <1>3, <1>4, <1>6, <1>11 DEF f

\* A counted outflow keeps both meters.
LEMMA MeteredOut ==
    ASSUME Accounts, HistoriesMetered, Cash, Cash', Recorded, NEW r \in Reserves, NEW X,
           NEW out, NEW amount, Metered(r, X, out, amount)
    PROVE  HistoriesMetered'
<1>1. PICK res : res = reserve[r]
  OBVIOUS
<1>2. /\ slot' = slot /\ Live(res) /\ amount \in Nat /\ out \in Nat /\ FromInt(out) =< amount
      /\ AdmitsOutflow(res, amount) /\ Live(X)
      /\ market'.rate_limiter = Updated(market.rate_limiter, slot, MarketValue(res, amount))
      /\ X.rate_limiter = Updated(res.rate_limiter, slot, amount)
      /\ X.mint_scale = res.mint_scale
      /\ reserve'[r] = X /\ \A q \in Reserves \ {r} : reserve'[q] = reserve[q]
  BY <1>1 DEF Metered, Accounts
<1>3. /\ slot \in 0..MaxSlot /\ market.rate_limiter \in LimiterType
      /\ res \in ReserveType /\ res.rate_limiter \in LimiterType
  BY <1>1, <1>2, LimitersTyped
<1>4. Outgoing(r) = out /\ \A q \in Reserves \ {r} : Outgoing(q) = 0
  BY MeteredOutgoing
<1>5. left'[r] = From(left[r], slot, out) /\ \A q \in Reserves \ {r} : left'[q] = left[q]
  BY <1>3, <1>4, NothingAdded DEF Recorded, HistoriesMetered
<1>6. /\ Cumulative(left[r], slot) /\ res.mint_scale = MintScale[r]
      /\ Meters(res.rate_limiter, left[r], slot, One)
  BY <1>1, <1>2 DEF HistoriesMetered
<1>7. /\ Cumulative(left'[r], slot)
      /\ Meters(Updated(res.rate_limiter, slot, amount), left'[r], slot, One)
  <2>1. PICK h : h = left[r]
    OBVIOUS
  <2>2. PICK rl \in LimiterType : rl = res.rate_limiter
    BY <1>3
  <2>3. One \in Nat /\ One * out =< amount
    <3>1. WAD * out = out * WAD
      BY <1>2, WADAssumption, SMT
    <3> QED BY <1>2, <3>1, WADAssumption DEF One, FromInt
  <2>4. Admits(rl, slot, amount)
    BY <1>2, <2>2 DEF AdmitsOutflow
  <2>5. Cumulative(h, slot) /\ Meters(rl, h, slot, One)
    BY <1>6, <2>1, <2>2
  <2>6. Cumulative(From(h, slot, out), slot)
        /\ Meters(Updated(rl, slot, amount), From(h, slot, out), slot, One)
    BY <1>2, <1>3, <2>3, <2>4, <2>5, MetersCounted
  <2> QED BY <1>5, <2>1, <2>2, <2>6
<1>8. PICK value \in Nat : value = MarketValue(res, amount)
  BY <1>2, <1>3, ValueNat
<1>9. PICK d \in Nat : d = DivInt(FromInt(out), res.mint_scale) /\ d =< value
  BY <1>2, <1>3, <1>8, ValueCovers
<1>10. worth' = From(worth, slot, d)
  BY <1>1, <1>9, MeteredOutgoing DEF Recorded
<1>11. /\ Cumulative(worth', slot)
       /\ Meters(Updated(market.rate_limiter, slot, value), worth', slot, 1)
  <2>1. PICK rl \in LimiterType : rl = market.rate_limiter
    BY <1>3
  <2>2. Admits(rl, slot, value) /\ 1 * d =< value
    BY <1>2, <1>8, <1>9, <2>1 DEF AdmitsOutflow
  <2>3. Cumulative(worth, slot) /\ Meters(rl, worth, slot, 1)
    BY <2>1 DEF HistoriesMetered
  <2> QED BY <1>3, <1>10, <2>1, <2>2, <2>3, MetersCounted
<1>12. \A q \in Reserves : Cumulative(left'[q], slot')
  BY <1>2, <1>5, <1>7 DEF HistoriesMetered
<1>13. ASSUME NEW q \in Reserves, Live(reserve'[q])
       PROVE  /\ reserve'[q].mint_scale = MintScale[q]
              /\ Meters(reserve'[q].rate_limiter, left'[q], slot', One)
  <2>1. CASE q = r
    BY <1>2, <1>6, <1>7, <2>1
  <2>2. CASE q # r
    BY <1>2, <1>5, <1>13, <2>2 DEF HistoriesMetered
  <2> QED BY <2>1, <2>2
<1>14. Cumulative(worth', slot') /\ Meters(market'.rate_limiter, worth', slot', 1)
  BY <1>2, <1>8, <1>11
<1> QED BY <1>12, <1>13, <1>14 DEF HistoriesMetered

\* Counting an outflow changes the limiter, and neither scale nor amounts.
LEMMA CountedLimits ==
    ASSUME NEW res, HasLimits(res), NEW amount
    PROVE  LET b == CountOutflow(res, amount)
           IN  /\ HasLimits(b) /\ b.mint_scale = res.mint_scale
               /\ b.rate_limiter = Updated(res.rate_limiter, slot, amount)
BY DEF HasLimits, CountOutflow

\* A redeemed reserve, counted.
LEMMA RedeemedLimits ==
    ASSUME NEW res, HasLimits(res), NEW liq, NEW coll, NEW amount
    PROVE  LET b == MarkStale(CountOutflow(RedeemCollateral(res, liq, coll), amount))
           IN  /\ b.mint_scale = res.mint_scale
               /\ b.rate_limiter = Updated(res.rate_limiter, slot, amount)
<1>1. PICK d : d = RedeemCollateral(res, liq, coll)
  OBVIOUS
<1>2. PICK c : c = CountOutflow(d, amount)
  OBVIOUS
<1>3. KeepsLimits(res, d)
  BY <1>1, AmountsKeepLimits
<1>4. /\ HasLimits(c) /\ c.mint_scale = d.mint_scale
      /\ c.rate_limiter = Updated(d.rate_limiter, slot, amount)
  BY <1>2, <1>3, CountedLimits DEF KeepsLimits
<1>5. SameLimits(c, MarkStale(c))
  BY <1>4, AmountsKeepLimits DEF KeepsLimits
<1> QED BY <1>1, <1>2, <1>3, <1>4, <1>5 DEF KeepsLimits, SameLimits

\* The market's limiter after an outflow.
LEMMA MarketCounts ==
    ASSUME Accounts, NEW res, NEW amount
    PROVE  MarketAfter(res, amount).rate_limiter =
              Updated(market.rate_limiter, slot, MarketValue(res, amount))
BY DEF Accounts, MarketOK, MarketAfter

\* A redemption is counted in full.
LEMMA RedeemMetered ==
    ASSUME Accounts, HistoriesMetered, Cash, Cash', Recorded,
           NEW u, NEW r \in Reserves, NEW coll \in Nat, Redeem(u, r, coll)
    PROVE  HistoriesMetered'
<1>1. PICK res : res = reserve[r]
  OBVIOUS
<1>2. PICK liq : liq = CollateralToLiquidity(res, coll)
  OBVIOUS
<1>3. PICK out : out = FromInt(liq)
  OBVIOUS
<1>4. PICK X : X = MarkStale(CountOutflow(RedeemCollateral(res, liq, coll), out))
  OBVIOUS
<1>5. /\ Live(res) /\ CanPay(res, coll) /\ AdmitsOutflow(res, out)
      /\ market' = MarketAfter(res, out) /\ slot' = slot
      /\ reserve' = [reserve EXCEPT ![r] = X]
  BY <1>1, <1>2, <1>3, <1>4 DEF Redeem, Fresh
<1>6. Sound(res, slot) /\ slot \in Nat
  BY <1>1, <1>5, LiveSound
<1>7. liq \in Nat /\ CanRedeem(res, liq, coll)
  BY <1>2, <1>5, <1>6, PaidNat
<1>8. out \in Nat
  BY <1>3, <1>7, ConversionNat
<1>9. Follows(res, X, slot) /\ X.available_amount = res.available_amount - liq
  BY <1>4, <1>6, <1>7, <1>8, RedeemHandled
<1>10. Live(X)
  BY <1>9 DEF Follows, ReserveType, Live
<1>11. /\ X.mint_scale = res.mint_scale
       /\ X.rate_limiter = Updated(res.rate_limiter, slot, out)
  BY <1>1, <1>4, <1>5, LiveHasLimits, RedeemedLimits
<1>12. Metered(r, X, liq, out)
  BY <1>1, <1>3, <1>5, <1>7, <1>8, <1>9, <1>10, <1>11, MarketCounts DEF Metered
<1> QED BY <1>12, MeteredOut

\* So is a withdrawal that redeems.
LEMMA WithdrawAndRedeemMetered ==
    ASSUME Accounts, HistoriesMetered, Cash, Cash', Recorded,
           NEW o \in Obligations, NEW r \in Reserves, NEW asked \in Nat,
           WithdrawAndRedeem(o, r, asked)
    PROVE  HistoriesMetered'
<1>1. PICK res : res = reserve[r]
  OBVIOUS
<1>2. PICK coll : coll = Withdrawable(obligation[o], r, asked, TRUE)
  OBVIOUS
<1>3. PICK liq : liq = CollateralToLiquidity(res, coll)
  OBVIOUS
<1>4. PICK out : out = FromInt(liq)
  OBVIOUS
<1>5. PICK X : X = MarkStale(CountOutflow(RedeemCollateral(res, liq, coll), out))
  OBVIOUS
<1>6. /\ CanWithdraw(o, r) /\ CanPay(res, coll) /\ AdmitsOutflow(res, out)
      /\ market' = MarketAfter(res, out) /\ slot' = slot
      /\ reserve' = [reserve EXCEPT ![r] = X]
  BY <1>1, <1>2, <1>3, <1>4, <1>5 DEF WithdrawAndRedeem
<1>7. /\ Live(res) /\ r \in DOMAIN obligation[o].deposits /\ Live(obligation[o])
      /\ coll \in 0..obligation[o].deposits[r].deposited_amount
  BY <1>1, <1>2, <1>6, WithdrawFacts
<1>8. Sound(res, slot) /\ slot \in Nat /\ coll \in Nat
  BY <1>1, <1>7, LiveSound
<1>9. liq \in Nat /\ CanRedeem(res, liq, coll)
  BY <1>3, <1>6, <1>8, PaidNat
<1>10. out \in Nat
  BY <1>4, <1>9, ConversionNat
<1>11. Follows(res, X, slot) /\ X.available_amount = res.available_amount - liq
  BY <1>5, <1>8, <1>9, <1>10, RedeemHandled
<1>12. Live(X)
  BY <1>11 DEF Follows, ReserveType, Live
<1>13. /\ X.mint_scale = res.mint_scale
       /\ X.rate_limiter = Updated(res.rate_limiter, slot, out)
  BY <1>1, <1>5, <1>7, LiveHasLimits, RedeemedLimits
<1>14. Metered(r, X, liq, out)
  BY <1>1, <1>4, <1>6, <1>7, <1>9, <1>10, <1>11, <1>12, <1>13, MarketCounts DEF Metered
<1> QED BY <1>14, MeteredOut

\* A loan is counted with its fee and the part of a token it owes.
LEMMA BorrowMetered ==
    ASSUME Accounts, HistoriesMetered, Cash, Cash', Recorded,
           NEW o \in Obligations, NEW r \in Reserves, NEW asked \in Nat,
           NEW hosted \in BOOLEAN, Borrow(o, r, asked, hosted)
    PROVE  HistoriesMetered'
<1>1. PICK res : res = reserve[r]
  OBVIOUS
<1>2. PICK loan : loan = LoanOf(obligation[o], res, asked)
  OBVIOUS
<1>3. Live(res) /\ loan.amount \in Nat \ {0}
  BY <1>1, <1>2, LoanFacts
<1>4. PICK amount \in Nat : amount = loan.amount
  BY <1>3
<1>5. PICK c : c = CountOutflow(res, amount)
  OBVIOUS
<1>6. PICK d : d = Lend(c, amount)
  OBVIOUS
<1>7. PICK X : X = MarkStale(d)
  OBVIOUS
<1>8. /\ CanLend(res, amount) /\ AdmitsOutflow(res, amount)
      /\ market' = MarketAfter(res, amount) /\ slot' = slot
      /\ reserve' = [reserve EXCEPT ![r] = X]
  BY <1>1, <1>2, <1>4, <1>5, <1>6, <1>7 DEF Borrow
<1>9. Sound(res, slot) /\ slot \in Nat
  BY <1>1, <1>3, LiveSound
<1>10. Follows(res, X, slot) /\ X.available_amount = res.available_amount - Floor(amount)
  BY <1>5, <1>6, <1>7, <1>8, <1>9, LendHandled
<1>11. Live(X)
  BY <1>10 DEF Follows, ReserveType, Live
<1>12. /\ HasLimits(c) /\ c.mint_scale = res.mint_scale
       /\ c.rate_limiter = Updated(res.rate_limiter, slot, amount)
  BY <1>1, <1>3, <1>5, LiveHasLimits, CountedLimits
<1>13. KeepsLimits(c, X)
  BY <1>6, <1>7, <1>12, AmountsKeepLimits, MarkedKeepsLimits
<1>14. /\ X.mint_scale = res.mint_scale
       /\ X.rate_limiter = Updated(res.rate_limiter, slot, amount)
  BY <1>12, <1>13 DEF KeepsLimits, SameLimits
<1>15. Floor(amount) \in Nat /\ FromInt(Floor(amount)) =< amount
  BY DecimalNat, FloorBounds
<1>16. Metered(r, X, Floor(amount), amount)
  BY <1>1, <1>3, <1>8, <1>10, <1>11, <1>14, <1>15, MarketCounts DEF Metered
<1> QED BY <1>16, MeteredOut

-----------------------------------------------------------------------------
\* Limiters made anew, by the market's owner or its risk authority.

\* A new limiter has another configuration, or is closed.
Replaced(old, new, at) ==
    \/ new = old
    \/ \E c \in LimiterConfigType :
          /\ new = New(c, at)
          /\ c = old.config => c.window_duration > 0 /\ c.max_outflow = 0

\* What LimitedLending keeps of the histories when limiters are replaced.
ResetAll ==
    /\ left' = [r \in Reserves |-> Reset(left[r], Limiter(reserve[r]), Limiter(reserve'[r]))]
    /\ worth' = Reset(worth, market.rate_limiter, market'.rate_limiter)

\* A limiter set anew, and its history with it, meters the window it begins.
LEMMA MetersReset ==
    ASSUME NEW at \in 0..MaxSlot, NEW h, Cumulative(h, at), NEW rl \in LimiterType,
           NEW unit \in Nat, Meters(rl, h, at, unit), NEW n, Replaced(rl, n, at)
    PROVE  Cumulative(Reset(h, rl, n), at) /\ Meters(n, Reset(h, rl, n), at, unit)
<1>1. CASE n = rl
  BY <1>1 DEF Reset
<1>2. ASSUME NEW c \in LimiterConfigType, n = New(c, at), c # rl.config
      PROVE  Cumulative(Reset(h, rl, n), at) /\ Meters(n, Reset(h, rl, n), at, unit)
  <2>1. n.config = c
    BY <1>2 DEF New
  <2>2. Reset(h, rl, n) = None
    BY <1>2, <2>1 DEF Reset
  <2> QED BY <1>2, <2>2, MetersNew
<1>3. ASSUME NEW c \in LimiterConfigType, n = New(c, at), c = rl.config,
             c.window_duration > 0, c.max_outflow = 0
      PROVE  Cumulative(Reset(h, rl, n), at) /\ Meters(n, Reset(h, rl, n), at, unit)
  <2>1. n.config = rl.config
    BY <1>3 DEF New
  <2>2. Reset(h, rl, n) = h
    BY <2>1 DEF Reset
  <2> QED BY <1>3, <2>2, MetersClosed
<1> QED BY <1>1, <1>2, <1>3 DEF Replaced

\* The market's owner or risk authority changes the market only.
LEMMA MarketReset ==
    ASSUME Accounts, HistoriesMetered, slot' = slot, reserve' = reserve, ResetAll,
           Replaced(market.rate_limiter, market'.rate_limiter, slot)
    PROVE  HistoriesMetered'
<1>1. \A r \in Reserves : left'[r] = left[r]
  BY DEF ResetAll, Reset
<1>2. PICK rl \in LimiterType, n \in {market'.rate_limiter} : rl = market.rate_limiter /\ n = market'.rate_limiter
  BY LimitersTyped
<1>3. Cumulative(worth', slot) /\ Meters(n, worth', slot, 1)
  <2>1. slot \in 0..MaxSlot
    BY LimitersTyped
  <2>2. Cumulative(worth, slot) /\ Meters(rl, worth, slot, 1) /\ Replaced(rl, n, slot)
    BY <1>2 DEF HistoriesMetered
  <2>3. worth' = Reset(worth, rl, n)
    BY <1>2 DEF ResetAll
  <2> QED BY <2>1, <2>2, <2>3, MetersReset
<1> QED BY <1>1, <1>2, <1>3 DEF HistoriesMetered

\* set_lending_market_owner_and_config resets the market's limiter if it changes it.
LEMMA SetOwnerAndConfigMetered ==
    ASSUME Accounts, HistoriesMetered, ResetAll, NEW owner, NEW risk, NEW u,
           NEW limits \in LimiterConfigs, SetOwnerAndConfig(owner, risk, u, limits)
    PROVE  HistoriesMetered'
<1>1. /\ slot' = slot /\ reserve' = reserve
      /\ market'.rate_limiter = IF limits = market.rate_limiter.config
                                THEN market.rate_limiter ELSE New(limits, slot)
  BY DEF SetOwnerAndConfig
<1>2. Replaced(market.rate_limiter, market'.rate_limiter, slot)
  BY <1>1, LimitsAssumption DEF Replaced
<1> QED BY <1>1, <1>2, MarketReset

\* The risk authority leaves the limiters alone.
LEMMA SetRiskAuthorityMetered ==
    ASSUME Accounts, HistoriesMetered, ResetAll, NEW risk, SetRiskAuthority(risk)
    PROVE  HistoriesMetered'
<1>1. slot' = slot /\ reserve' = reserve /\ market'.rate_limiter = market.rate_limiter
  BY DEF SetRiskAuthority, Accounts, MarketOK
<1> QED BY <1>1, MarketReset DEF Replaced

\* A reserve's limiter is replaced by the signer who may, or not at all.
LEMMA ReconfiguredLimiter ==
    ASSUME NEW res, HasLimits(res), "config" \in DOMAIN res, NEW signer, NEW config,
           NEW limits \in LimiterConfigType
    PROVE  LET b == Reconfigured(res, signer, config, limits)
           IN  /\ HasLimits(b) /\ b.mint_scale = res.mint_scale
               /\ Replaced(res.rate_limiter, b.rate_limiter, slot)
<1>1. PICK b : b = Reconfigured(res, signer, config, limits)
  OBVIOUS
<1>2. /\ HasLimits(b) /\ b.mint_scale = res.mint_scale
      /\ \/ b.rate_limiter = res.rate_limiter
         \/ /\ b.rate_limiter = New(limits, slot)
            /\ limits = res.rate_limiter.config =>
                  limits.window_duration > 0 /\ limits.max_outflow = 0
  <2>1. CASE signer = market.owner
    <3>1. PICK rl : rl = IF limits = res.rate_limiter.config THEN res.rate_limiter
                         ELSE New(limits, slot)
      OBVIOUS
    <3>2. b = [res EXCEPT !.config = config, !.rate_limiter = rl]
      BY <1>1, <2>1, <3>1 DEF Reconfigured
    <3>3. HasLimits(b) /\ b.mint_scale = res.mint_scale /\ b.rate_limiter = rl
      BY <3>2 DEF HasLimits
    <3> QED BY <3>1, <3>3
  <2>2. CASE signer # market.owner /\ signer = market.risk_authority
    <3>1. PICK rl : rl = IF limits.window_duration > 0 /\ limits.max_outflow = 0
                         THEN New(limits, slot) ELSE res.rate_limiter
      OBVIOUS
    <3>2. b = [res EXCEPT !.config = RiskConfig(res.config, config), !.rate_limiter = rl]
      BY <1>1, <2>2, <3>1 DEF Reconfigured
    <3>3. HasLimits(b) /\ b.mint_scale = res.mint_scale /\ b.rate_limiter = rl
      BY <3>2 DEF HasLimits
    <3> QED BY <3>1, <3>3
  <2>3. CASE signer # market.owner /\ signer # market.risk_authority
    <3>1. b = [res EXCEPT !.config = FeeConfig(res.config, config)]
      BY <1>1, <2>3 DEF Reconfigured
    <3> QED BY <3>1 DEF HasLimits
  <2> QED BY <2>1, <2>2, <2>3
<1> QED BY <1>1, <1>2 DEF Replaced

\* update_reserve_config resets the reserve's limiter if it changes it.
LEMMA UpdateReserveConfigMetered ==
    ASSUME Accounts, HistoriesMetered, ResetAll, NEW r \in Reserves, NEW signer,
           NEW config \in Reconfigs, NEW limits \in LimiterConfigs,
           UpdateReserveConfig(r, signer, config, limits)
    PROVE  HistoriesMetered'
<1>1. PICK res : res = reserve[r]
  OBVIOUS
<1>2. PICK b : b = Reconfigured(res, signer, config, limits)
  OBVIOUS
<1>3. PICK X : X = MarkStale(b)
  OBVIOUS
<1>4. /\ Live(res) /\ reserve' = [reserve EXCEPT ![r] = X]
      /\ slot' = slot /\ market' = market
  BY <1>1, <1>2, <1>3 DEF UpdateReserveConfig
<1>5. /\ slot \in 0..MaxSlot /\ res \in ReserveType /\ res.rate_limiter \in LimiterType
  BY <1>1, <1>4, LimitersTyped
<1>6. HasLimits(res) /\ "config" \in DOMAIN res
  BY <1>5 DEF ReserveType, HasLimits
<1>7. /\ HasLimits(b) /\ b.mint_scale = res.mint_scale
      /\ Replaced(res.rate_limiter, b.rate_limiter, slot)
  BY <1>2, <1>6, LimitsAssumption, ReconfiguredLimiter
<1>8. X.mint_scale = res.mint_scale /\ X.rate_limiter = b.rate_limiter
  BY <1>3, <1>7, AmountsKeepLimits DEF KeepsLimits, SameLimits
<1>9. reserve'[r] = X /\ \A q \in Reserves \ {r} : reserve'[q] = reserve[q]
  BY <1>4 DEF Accounts
<1>10. Live(X)
  <2>1. PICK Y : Handled(r, Y, 0)
    BY UpdateReserveConfigDoes
  <2>2. reserve'[r] = Y /\ Live(Y)
    BY <2>1 DEF Handled, Onward, Sound, ReserveType, Live, Accounts
  <2> QED BY <1>9, <2>2
<1>11. \A q \in Reserves \ {r} : left'[q] = left[q]
  BY <1>9 DEF ResetAll, Reset
<1>12. worth' = worth
  BY <1>4 DEF ResetAll, Reset
<1>13. Cumulative(left'[r], slot) /\ Meters(X.rate_limiter, left'[r], slot, One)
  <2>1. PICK rl \in LimiterType, n \in {X.rate_limiter} : rl = res.rate_limiter /\ n = X.rate_limiter
    BY <1>5
  <2>2. left'[r] = Reset(left[r], rl, n)
    BY <1>1, <1>4, <1>9, <1>10, <2>1 DEF ResetAll, Limiter
  <2>3. /\ Cumulative(left[r], slot) /\ Meters(rl, left[r], slot, One)
        /\ Replaced(rl, n, slot) /\ One \in Nat
    BY <1>1, <1>4, <1>7, <1>8, <2>1, WADAssumption DEF HistoriesMetered, One
  <2> QED BY <1>5, <2>1, <2>2, <2>3, MetersReset
<1>14. \A q \in Reserves : Cumulative(left'[q], slot')
  BY <1>4, <1>11, <1>13 DEF HistoriesMetered
<1>15. ASSUME NEW q \in Reserves, Live(reserve'[q])
       PROVE  /\ reserve'[q].mint_scale = MintScale[q]
              /\ Meters(reserve'[q].rate_limiter, left'[q], slot', One)
  <2>1. CASE q = r
    <3>1. res.mint_scale = MintScale[r]
      BY <1>1, <1>4 DEF HistoriesMetered
    <3> QED BY <1>4, <1>8, <1>9, <1>13, <2>1, <3>1
  <2>2. CASE q # r
    BY <1>4, <1>9, <1>11, <1>15, <2>2 DEF HistoriesMetered
  <2> QED BY <2>1, <2>2
<1>16. Cumulative(worth', slot') /\ Meters(market'.rate_limiter, worth', slot', 1)
  BY <1>4, <1>12 DEF HistoriesMetered
<1> QED BY <1>14, <1>15, <1>16 DEF HistoriesMetered

-----------------------------------------------------------------------------
\* The handlers that pass no limiter change none.

\* Refreshing, and paying out protocol fees, lets nothing out that a limiter counts.
LEMMA UpkeepMetered ==
    ASSUME Accounts, HistoriesMetered, Upkeep, left' = left, worth' = worth
    PROVE  HistoriesMetered'
<1>1. ASSUME NEW r \in Reserves, RefreshReserve(r)  PROVE LimitersKept
  <2>1. PICK X : X = RefreshInterest(reserve[r], slot)
    OBVIOUS
  <2>2. /\ Live(reserve[r]) /\ reserve' = [reserve EXCEPT ![r] = X]
        /\ slot' = slot /\ market' = market
    BY <1>1, <2>1 DEF RefreshReserve
  <2>3. KeepsLimits(reserve[r], X)
    BY <2>1, <2>2, LiveHasLimits, RefreshKeepsLimits
  <2> QED BY <2>2, <2>3, OneReserveKept
<1>2. ASSUME NEW o \in Obligations, RefreshAnObligation(o)  PROVE LimitersKept
  BY <1>2, NoReserveChanged DEF RefreshAnObligation
<1>3. ASSUME NEW r \in Reserves, RedeemProtocolFees(r)  PROVE LimitersKept
  <2>1. PICK amount : amount = RedeemableFees(reserve[r])
    OBVIOUS
  <2>2. PICK d : d = RedeemFees(reserve[r], amount)
    OBVIOUS
  <2>3. /\ Live(reserve[r]) /\ reserve' = [reserve EXCEPT ![r] = MarkStale(d)]
        /\ slot' = slot /\ market' = market
    BY <1>3, <2>1, <2>2 DEF RedeemProtocolFees, Fresh
  <2>4. KeepsLimits(reserve[r], MarkStale(d))
    BY <2>2, <2>3, LiveHasLimits, AmountsKeepLimits, MarkedKeepsLimits
  <2> QED BY <2>3, <2>4, OneReserveKept
<1>4. LimitersKept
  BY <1>1, <1>2, <1>3 DEF Upkeep
<1> QED BY <1>4, MeteredKept

\* A liquidation settles with one reserve and redeems from another.
LEMMA LiquidateMetered ==
    ASSUME Accounts, HistoriesMetered, left' = left, worth' = worth,
           NEW u, NEW o \in Obligations, NEW debt \in Reserves, NEW coll \in Reserves,
           NEW asked \in Nat, Liquidate(u, o, debt, coll, asked)
    PROVE  HistoriesMetered'
<1>1. PICK ob : ob = obligation[o]
  OBVIOUS
<1>2. PICK part : part = LiquidationOf(ob, BorrowIndex(ob, debt), coll, asked)
  OBVIOUS
<1>3. PICK d : d = MarkStale(Settle(reserve[debt], part.repay, part.settle))
  OBVIOUS
<1>4. PICK repaid : repaid = [reserve EXCEPT ![debt] = d]
  OBVIOUS
<1>5. PICK res : res = RefreshInterest(repaid[coll], slot)
  OBVIOUS
<1>6. PICK redeemed :
          redeemed = Smaller(part.withdraw, LiquidityToCollateral(res, res.available_amount))
  OBVIOUS
<1>7. PICK Z : Z = MarkStale(RedeemCollateral(res, CollateralToLiquidity(res, redeemed), redeemed))
  OBVIOUS
<1>8. /\ Live(reserve[debt]) /\ Live(reserve[coll]) /\ slot' = slot /\ market' = market
      /\ reserve' = [repaid EXCEPT ![coll] = res] \/ reserve' = [repaid EXCEPT ![coll] = Z]
  BY <1>1, <1>2, <1>3, <1>4, <1>5, <1>6, <1>7 DEF Liquidate, CanLiquidate, Fresh
<1>9. DOMAIN reserve = Reserves
  BY DEF Accounts
<1>10. KeepsLimits(reserve[debt], d)
  BY <1>3, <1>8, LiveHasLimits, AmountsKeepLimits, MarkedKeepsLimits DEF KeepsLimits
<1>11. KeepsLimits(reserve[coll], repaid[coll])
  BY <1>4, <1>8, <1>9, <1>10, LiveHasLimits DEF KeepsLimits, SameLimits
<1>12. KeepsLimits(reserve[coll], res)
  BY <1>5, <1>11, RefreshKeepsLimits, KeepsLimitsTransitive DEF KeepsLimits
<1>13. KeepsLimits(reserve[coll], Z)
  <2>1. PICK liq : liq = CollateralToLiquidity(res, redeemed)
    OBVIOUS
  <2>2. KeepsLimits(res, RedeemCollateral(res, liq, redeemed))
    BY <1>12, AmountsKeepLimits DEF KeepsLimits
  <2> QED BY <1>7, <1>12, <2>1, <2>2, MarkedKeepsLimits, KeepsLimitsTransitive
<1>14. ASSUME NEW q \in Reserves
       PROVE  IF Live(reserve[q]) THEN SameLimits(reserve[q], reserve'[q])
              ELSE ~Live(reserve'[q])
  <2>1. CASE q = coll
    <3>1. reserve'[q] = res \/ reserve'[q] = Z
      BY <1>4, <1>8, <1>9, <2>1
    <3> QED BY <1>8, <1>12, <1>13, <2>1, <3>1 DEF KeepsLimits
  <2>2. CASE q # coll /\ q = debt
    <3>1. reserve'[q] = d
      BY <1>4, <1>8, <1>9, <2>2
    <3> QED BY <1>8, <1>10, <2>2, <3>1 DEF KeepsLimits
  <2>3. CASE q # coll /\ q # debt
    <3>1. reserve'[q] = reserve[q]
      BY <1>4, <1>8, <1>9, <2>3
    <3> QED BY <3>1 DEF SameLimits
  <2> QED BY <2>1, <2>2, <2>3
<1>15. LimitersKept
  BY <1>8, <1>14 DEF LimitersKept
<1> QED BY <1>15, MeteredKept

-----------------------------------------------------------------------------
\* The invariant of LimitedLending.

\* Nothing has left at the beginning.
LEMMA HistoriesInit == LimitedInit => HistoriesMetered
<1> SUFFICES ASSUME LimitedInit  PROVE HistoriesMetered
  OBVIOUS
<1>1. /\ slot = 1 /\ 1 \in 0..MaxSlot /\ market.rate_limiter = New(MarketLimits, 1)
      /\ \A r \in Reserves : ~Live(reserve[r])
  BY AmountsAssumption DEF LimitedInit, Init, Live, Blank
<1>2. Cumulative(None, 1) /\ Meters(New(MarketLimits, 1), None, 1, 1)
  BY <1>1, LimitsAssumption, MetersNew
<1>3. worth = None /\ \A r \in Reserves : left[r] = None
  BY DEF LimitedInit
<1> QED BY <1>1, <1>2, <1>3 DEF HistoriesMetered

\* Every step keeps the histories metered: one lemma per handler above.
LEMMA LimitedStep ==
    ASSUME Accounts, HistoriesMetered, Cash, Cash', Limited
    PROVE  HistoriesMetered'
<1>1. Recorded
  BY DEF Limited, Recorded
<1>2. CASE Tick
  BY <1>1, <1>2, MeteredTick
<1>3. CASE OpenAccounts
  <2>1. ASSUME NEW o \in Obligations, InitObligation(o)  PROVE HistoriesMetered'
    BY <1>1, <2>1, NoReserveMetered DEF InitObligation
  <2> QED BY <1>1, <1>3, <2>1, InitReserveMetered DEF OpenAccounts
<1>4. CASE Pool
  <2>1. \A n \in DepositAmounts : n \in Nat
    BY AmountsAssumption
  <2>2. \A n \in RedeemAmounts : n \in Nat
    BY AmountsAssumption
  <2>3. PICK r \in Reserves :
           \/ \E u \in Users : \E n \in DepositAmounts : Deposit(u, r, n)
           \/ \E u \in Users : \E n \in RedeemAmounts : Redeem(u, r, n)
    BY <1>4 DEF Pool
  <2> QED BY <1>1, <2>1, <2>2, <2>3, DepositMetered, RedeemMetered
<1>5. CASE Collateral
  <2>1. (\A n \in PledgeAmounts : n \in Nat) /\ (\A n \in WithdrawAmounts : n \in Nat)
    BY AmountsAssumption
  <2>2. PICK o \in Obligations, r \in Reserves :
           \/ \E n \in PledgeAmounts : DepositObligation(o, r, n)
           \/ \E n \in PledgeAmounts : DepositAndPledge(o, r, n)
           \/ \E n \in WithdrawAmounts : WithdrawObligation(o, r, n)
           \/ \E n \in WithdrawAmounts : WithdrawAndRedeem(o, r, n)
    BY <1>5 DEF Collateral
  <2>3. ASSUME NEW n \in WithdrawAmounts, WithdrawObligation(o, r, n)
        PROVE  HistoriesMetered'
    <3>1. slot' = slot /\ market' = market /\ reserve' = reserve
      BY <2>3 DEF WithdrawObligation
    <3> QED BY <1>1, <3>1, NoReserveMetered
  <2>4. ASSUME NEW n \in PledgeAmounts, DepositObligation(o, r, n) \/ DepositAndPledge(o, r, n)
        PROVE  HistoriesMetered'
    BY <1>1, <2>1, <2>4, DepositObligationMetered, DepositAndPledgeMetered
  <2>5. ASSUME NEW n \in WithdrawAmounts, WithdrawAndRedeem(o, r, n)
        PROVE  HistoriesMetered'
    BY <1>1, <2>1, <2>5, WithdrawAndRedeemMetered
  <2> QED BY <2>2, <2>3, <2>4, <2>5
<1>6. CASE Debt
  <2>1. PICK o \in Obligations, r \in Reserves :
           \/ \E n \in BorrowAmounts, hosted \in BOOLEAN : Borrow(o, r, n, hosted)
           \/ \E u \in Users : \E n \in RepayAmounts : Repay(u, o, r, n)
           \/ \E n \in ForgiveAmounts : ForgiveDebt(o, r, n)
    BY <1>6 DEF Debt
  <2>2. ASSUME NEW n \in BorrowAmounts, NEW hosted \in BOOLEAN, Borrow(o, r, n, hosted)
        PROVE  HistoriesMetered'
    <3>1. n \in Nat
      BY AmountsAssumption
    <3> QED BY <1>1, <2>2, <3>1, BorrowMetered
  <2>3. ASSUME NEW u \in Users, NEW n \in RepayAmounts, Repay(u, o, r, n)
        PROVE  HistoriesMetered'
    <3>1. n \in Nat
      BY AmountsAssumption
    <3> QED BY <1>1, <2>3, <3>1, RepayMetered
  <2>4. ASSUME NEW n \in ForgiveAmounts, ForgiveDebt(o, r, n)
        PROVE  HistoriesMetered'
    <3>1. n \in Nat
      BY AmountsAssumption
    <3> QED BY <1>1, <2>4, <3>1, ForgiveDebtMetered
  <2> QED BY <2>1, <2>2, <2>3, <2>4
<1> QED BY <1>2, <1>3, <1>4, <1>5, <1>6 DEF Limited

\* The steps that no limiter counts.
LEMMA UnlimitedStep ==
    ASSUME Accounts, HistoriesMetered, Unlimited
    PROVE  HistoriesMetered'
<1>1. left' = left /\ worth' = worth
  BY DEF Unlimited
<1>2. CASE Upkeep
  BY <1>1, <1>2, UpkeepMetered
<1>3. CASE Liquidations
  <2>1. PICK u \in Users, o \in Obligations, debt \in Reserves, coll \in Reserves :
           \E n \in LiquidateAmounts : Liquidate(u, o, debt, coll, n)
    BY <1>3 DEF Liquidations
  <2>2. \A n \in LiquidateAmounts : n \in Nat
    BY AmountsAssumption
  <2> QED BY <1>1, <2>1, <2>2, LiquidateMetered
<1> QED BY <1>2, <1>3 DEF Unlimited

\* The steps of the market's owner.
LEMMA AdministeredStep ==
    ASSUME Accounts, HistoriesMetered, Administered
    PROVE  HistoriesMetered'
<1>1. ResetAll /\ Administration
  BY DEF Administered, ResetAll
<1>2. ASSUME NEW r \in Reserves, NEW signer \in Admins, NEW c \in Reconfigs,
             NEW l \in LimiterConfigs, UpdateReserveConfig(r, signer, c, l)
      PROVE  HistoriesMetered'
  BY <1>1, <1>2, UpdateReserveConfigMetered
<1>3. ASSUME NEW owner \in Admins, NEW risk \in Admins, NEW u \in Whitelists,
             NEW l \in LimiterConfigs, SetOwnerAndConfig(owner, risk, u, l)
      PROVE  HistoriesMetered'
  BY <1>1, <1>3, SetOwnerAndConfigMetered
<1>4. ASSUME NEW risk \in Admins, SetRiskAuthority(risk)
      PROVE  HistoriesMetered'
  BY <1>1, <1>4, SetRiskAuthorityMetered
<1> QED BY <1>1, <1>2, <1>3, <1>4 DEF Administration

\* Through every instruction, an enabled limiter's counters cover what has
\* left within its window and the one before.
THEOREM HistoriesInvariant == LimitedSpec => [](Accounts /\ Cash /\ HistoriesMetered)
<1>1. LimitedInit => Accounts /\ Cash /\ HistoriesMetered
  BY AccountsInit, CashInit, HistoriesInit DEF LimitedInit
<1>2. Accounts /\ Cash /\ HistoriesMetered /\ [LimitedNext]_<<vars, left, worth>>
          => (Accounts /\ Cash /\ HistoriesMetered)'
  <2> SUFFICES ASSUME Accounts, Cash, HistoriesMetered, [LimitedNext]_<<vars, left, worth>>
               PROVE  (Accounts /\ Cash /\ HistoriesMetered)'
    OBVIOUS
  <2>1. [Next]_vars
    BY DEF LimitedNext, Limited, Unlimited, Administered, Next
  <2>2. Accounts' /\ Cash'
    BY <2>1, AccountsStep, CashStep
  <2>3. CASE UNCHANGED <<vars, left, worth>>
    <3>1. /\ slot' = slot /\ market' = market /\ reserve' = reserve
          /\ left' = left /\ worth' = worth
      BY <2>3 DEF vars
    <3>2. HistoriesMetered'
      BY <3>1 DEF HistoriesMetered
    <3> QED BY <2>2, <3>2
  <2>4. CASE LimitedNext
    BY <2>2, <2>4, LimitedStep, UnlimitedStep, AdministeredStep DEF LimitedNext
  <2> QED BY <2>2, <2>3, <2>4
<1> QED BY <1>1, <1>2, PTL DEF LimitedSpec

\* A metered history respects its limiter.
LEMMA MeteredRespects ==
    ASSUME slot \in 0..MaxSlot, NEW h, Cumulative(h, slot), NEW rl \in LimiterType,
           NEW unit \in Nat, Meters(rl, h, slot, unit)
    PROVE  Respects(h, rl, unit)
<1>1. PICK w \in Nat : w = rl.config.window_duration
  BY LimiterFields
<1>2. ASSUME w > 0
      PROVE  unit * Since(h, slot - w) =< 2 * FromInt(rl.config.max_outflow)
  <2>1. unit * (Upto(h, slot) - Upto(h, slot - w - 1)) =< 2 * FromInt(rl.config.max_outflow)
    BY <1>1, <1>2, MetersRespects
  <2>2. Since(h, slot - w) = Upto(h, slot) - Upto(h, slot - w - 1)
    <3>1. slot - w > 0 <=> ~(slot - w - 1 < 0)
      BY <1>1, AmountsAssumption
    <3> QED BY <3>1, AmountsAssumption DEF Since, Upto
  <2> QED BY <2>1, <2>2
<1> QED BY <1>1, <1>2 DEF Respects

\* Over the slots of one window users take out of a reserve at most twice what
\* its limiter allows, whichever instructions they mix (rate_limiter.rs and
\* the handlers of processor.rs that must ask it).
THEOREM ReservesLimited == LimitedSpec => []ReserveOutflowLimited
<1>1. Accounts /\ HistoriesMetered => ReserveOutflowLimited
  <2> SUFFICES ASSUME Accounts, HistoriesMetered, NEW r \in Reserves, Live(reserve[r])
               PROVE  Respects(left[r], reserve[r].rate_limiter, One)
    BY DEF ReserveOutflowLimited, LiveReserves
  <2>1. /\ slot \in 0..MaxSlot /\ reserve[r].rate_limiter \in LimiterType /\ One \in Nat
    BY LimitersTyped, WADAssumption DEF One
  <2> QED BY <2>1, MeteredRespects DEF HistoriesMetered
<1> QED BY <1>1, HistoriesInvariant, PTL

\* What they take out of all reserves together is worth at most twice what
\* the market's limiter allows.
THEOREM MarketLimited == LimitedSpec => []MarketOutflowLimited
<1>1. Accounts /\ HistoriesMetered => MarketOutflowLimited
  <2> SUFFICES ASSUME Accounts, HistoriesMetered
               PROVE  Respects(worth, market.rate_limiter, 1)
    BY DEF MarketOutflowLimited
  <2> QED BY LimitersTyped, MeteredRespects DEF HistoriesMetered
<1> QED BY <1>1, HistoriesInvariant, PTL

-----------------------------------------------------------------------------
\* Debts and totals.  A charge of interest multiplies the reserve's total and
\* every debt by the same rate, each product truncated on its own.

\* Charging a debt of a, taken at rate c, in two steps: to the reserve's rate and
\* then to R times it.  What is due then is R times what was due but for two parts
\* in WAD of the debt and a unit.
LEMMA ChargedDebt ==
    ASSUME NEW a \in Nat, NEW c \in Nat, WAD =< c, NEW C \in Nat, c =< C,
           NEW R \in Nat, WAD =< R,
           NEW x, x = Mul(a, Div(C, c)), NEW y, y = Mul(a, Div(Mul(C, R), c)),
           NEW t, t = Ceil(2 * x) + 1
    PROVE  /\ x \in Nat /\ y \in Nat /\ t \in Nat
           /\ WAD * y =< R * x + R * t
           /\ R * x =< WAD * y + R * t
<1>w. WAD \in Nat /\ WAD > 0
  BY WADAssumption
<1>1. PICK d : d = Div(C, c)
  OBVIOUS
<1>2. PICK D : D = Mul(C, R)
  OBVIOUS
<1>3. PICK e : e = Div(D, c)
  OBVIOUS
<1>4. C * WAD \in Nat /\ C * R \in Nat
  BY <1>w, ProductNat
<1>5. d \in Nat /\ d * c =< C * WAD /\ C * WAD < d * c + c
  BY <1>w, <1>1, <1>4, DivFacts DEF Div
<1>6. D \in Nat /\ D * WAD =< C * R /\ C * R < D * WAD + WAD
  BY <1>w, <1>2, <1>4, DivFacts DEF Mul
<1>7. D * WAD \in Nat
  BY <1>w, <1>6, ProductNat
<1>8. e \in Nat /\ e * c =< D * WAD /\ D * WAD < e * c + c
  <2>1. c \in Nat \ {0}
    BY <1>w
  <2>2. e = (D * WAD) \div c
    BY <1>3 DEF Div
  <2> QED BY <1>7, <2>1, <2>2, DivFacts
<1>9. a * d \in Nat /\ a * e \in Nat
  BY <1>5, <1>8, ProductNat
<1>10. x \in Nat /\ x * WAD =< a * d /\ a * d < x * WAD + WAD
  BY <1>w, <1>1, <1>9, DivFacts DEF Mul
<1>11. y \in Nat /\ y * WAD =< a * e /\ a * e < y * WAD + WAD
  BY <1>w, <1>2, <1>3, <1>9, DivFacts DEF Mul
<1>12. t \in Nat /\ 2 * x + WAD =< t * WAD
  <2>1. 2 * x \in Nat
    BY <1>10
  <2>2. Ceil(2 * x) \in Nat /\ 2 * x =< Ceil(2 * x) * WAD
    BY <2>1, CeilBound DEF FromInt
  <2>3. (Ceil(2 * x) + 1) * WAD = Ceil(2 * x) * WAD + WAD
    BY <1>w, <2>2
  <2> QED BY <1>w, <1>10, <2>2, <2>3
\* The debt is not below what was taken.
<1>13. WAD =< d
  <2>1. c * WAD =< C * WAD
    BY <1>w
  <2>2. c * WAD < (d + 1) * c
    BY <1>w, <1>5, <2>1
  <2>3. (WAD - d - 1) * c < 0
    BY <1>w, <1>5, <2>2
  <2> QED BY <1>w, <1>5, <2>3
<1>14. a =< x
  <2>1. a * WAD =< a * d
    BY <1>w, <1>5, <1>13
  <2>2. (a - x - 1) * WAD < 0
    BY <1>w, <1>10, <1>9, <2>1
  <2> QED BY <1>w, <1>10, <2>2
<1>. HIDE DEF Mul, Div, Ceil
\* Above.
<1>15. e * WAD < (d + 1) * R
  <2>1. (e * c) * WAD =< (C * R) * WAD
    <3>1. e * c =< C * R /\ e * c \in Nat
      BY <1>6, <1>8, <1>4, <1>7, ProductNat
    <3> QED BY <1>w, <1>4, <3>1, ProductMonotone
  <2>2. (C * WAD) * R < ((d + 1) * c) * R
    <3>1. C * WAD < (d + 1) * c /\ (d + 1) * c \in Nat
      BY <1>4, <1>5
    <3>2. R > 0
      BY <1>w
    <3> QED BY <1>4, <3>1, <3>2
  <2>3. (e * WAD) * c < ((d + 1) * R) * c
    BY <1>w, <1>5, <1>8, <2>1, <2>2
  <2>4. PICK p : p = e * WAD
    OBVIOUS
  <2>5. PICK q : q = (d + 1) * R
    OBVIOUS
  <2>6. p \in Int /\ q \in Int
    BY <1>w, <1>5, <1>8, <2>4, <2>5
  <2>7. p * c < q * c
    BY <2>3, <2>4, <2>5
  <2>8. (p - q) * c < 0
    BY <2>6, <2>7
  <2>9. p < q
    BY <1>w, <2>6, <2>8
  <2> QED BY <2>4, <2>5, <2>9
<1>16. (WAD * y) * WAD =< (R * x + R * t) * WAD
  <2>1. (a * e) * WAD =< (a * d + a) * R
    <3>1. PICK p : p = e * WAD
      OBVIOUS
    <3>2. PICK q : q = (d + 1) * R
      OBVIOUS
    <3>3. p \in Int /\ q \in Int /\ p =< q
      BY <1>w, <1>5, <1>8, <1>15, <3>1, <3>2
    <3>4. p * a =< q * a
      BY <3>3, ProductMonotone
    <3>5. p * a = (a * e) * WAD
      BY <1>w, <1>8, <3>1
    <3>6. q * a = (a * d + a) * R
      BY <1>5, <3>2
    <3> QED BY <3>4, <3>5, <3>6
  <2>2. (y * WAD) * WAD =< (a * e) * WAD
    <3>1. y * WAD \in Int
      BY <1>w, <1>11
    <3> QED BY <1>w, <1>9, <1>11, <3>1, ProductMonotone
  <2>3. (a * d + a) * R =< (x * WAD + t * WAD) * R
    <3>1. a * d + a =< x * WAD + t * WAD
      BY <1>w, <1>9, <1>10, <1>12, <1>14
    <3>2. a * d + a \in Int /\ x * WAD + t * WAD \in Int
      BY <1>w, <1>9, <1>10, <1>12
    <3> QED BY <3>1, <3>2, ProductMonotone
  <2>4. (x * WAD + t * WAD) * R = (R * x + R * t) * WAD
    BY <1>w, <1>10, <1>12
  <2>5. (y * WAD) * WAD = (WAD * y) * WAD
    BY <1>w, <1>11
  <2>6. /\ (y * WAD) * WAD \in Int /\ (a * e) * WAD \in Int
        /\ (a * d + a) * R \in Int /\ (R * x + R * t) * WAD \in Int
    BY <1>w, <1>9, <1>10, <1>11, <1>12
  <2> QED BY <2>1, <2>2, <2>3, <2>4, <2>5, <2>6
<1>17. WAD * y =< R * x + R * t
  <2>1. PICK p : p = WAD * y
    OBVIOUS
  <2>2. PICK q : q = R * x + R * t
    OBVIOUS
  <2>3. p \in Int /\ q \in Int /\ p * WAD =< q * WAD
    BY <1>w, <1>10, <1>11, <1>12, <1>16, <2>1, <2>2
  <2>4. (q + 1 - p) * WAD > 0
    BY <1>w, <2>3
  <2>5. p =< q
    BY <1>w, <2>3, <2>4
  <2> QED BY <2>1, <2>2, <2>5
\* Below.
<1>18. d * R < (e + 2) * WAD
  <2>1. (d * c) * R =< (C * WAD) * R
    <3>1. d * c \in Int
      BY <1>5
    <3> QED BY <1>4, <1>5, <3>1, ProductMonotone
  <2>2. (C * R) * WAD < (D * WAD + WAD) * WAD
    BY <1>w, <1>4, <1>6, <1>7
  <2>3. (D * WAD + WAD) * WAD =< (e * c + 2 * c) * WAD
    <3>1. D * WAD + WAD =< e * c + 2 * c /\ e * c \in Int
      BY <1>w, <1>7, <1>8
    <3>2. D * WAD + WAD \in Int /\ e * c + 2 * c \in Int
      BY <1>w, <1>7, <3>1
    <3> QED BY <1>w, <3>1, <3>2, ProductMonotone
  <2>4. (d * R) * c < ((e + 2) * WAD) * c
    <3>1. (d * R) * c = (d * c) * R /\ (C * WAD) * R = (C * R) * WAD
      BY <1>w, <1>5
    <3>2. ((e + 2) * WAD) * c = (e * c + 2 * c) * WAD
      BY <1>w, <1>8
    <3>3. /\ (d * c) * R \in Int /\ (C * R) * WAD \in Int
          /\ (D * WAD + WAD) * WAD \in Int /\ (e * c + 2 * c) * WAD \in Int
      BY <1>w, <1>5, <1>6, <1>8
    <3> QED BY <2>1, <2>2, <2>3, <3>1, <3>2, <3>3
  <2>5. PICK p : p = d * R
    OBVIOUS
  <2>6. PICK q : q = (e + 2) * WAD
    OBVIOUS
  <2>7. p \in Int /\ q \in Int
    BY <1>w, <1>5, <1>8, <2>5, <2>6
  <2>8. (p - q) * c < 0
    BY <2>4, <2>5, <2>6, <2>7
  <2>9. p < q
    BY <1>w, <2>7, <2>8
  <2> QED BY <2>5, <2>6, <2>9
<1>19. R * x =< WAD * y + WAD + 2 * x
  <2>1. (R * x) * WAD =< (a * e + 2 * a) * WAD
    <3>1. (x * WAD) * R =< (a * d) * R
      <4>1. x * WAD \in Int
        BY <1>w, <1>10
      <4> QED BY <1>9, <1>10, <4>1, ProductMonotone
    <3>2. PICK p : p = d * R
      OBVIOUS
    <3>3. PICK q : q = (e + 2) * WAD
      OBVIOUS
    <3>4. p \in Int /\ q \in Int /\ p =< q
      BY <1>w, <1>5, <1>8, <1>18, <3>2, <3>3
    <3>5. p * a =< q * a
      BY <3>4, ProductMonotone
    <3>6. p * a = (a * d) * R
      BY <1>5, <3>2
    <3>7. q * a = (a * e + 2 * a) * WAD
      BY <1>w, <1>8, <3>3
    <3>8. (x * WAD) * R = (R * x) * WAD
      BY <1>w, <1>10
    <3>9. (R * x) * WAD \in Int /\ (a * d) * R \in Int /\ (a * e + 2 * a) * WAD \in Int
      BY <1>w, <1>9, <1>10
    <3> QED BY <3>1, <3>5, <3>6, <3>7, <3>8, <3>9
  <2>2. PICK p : p = R * x
    OBVIOUS
  <2>3. PICK q : q = a * e + 2 * a
    OBVIOUS
  <2>4. p \in Int /\ q \in Int /\ p * WAD =< q * WAD
    BY <1>9, <1>10, <2>1, <2>2, <2>3
  <2>5. (q + 1 - p) * WAD > 0
    BY <1>w, <2>4
  <2>6. p =< q
    BY <1>w, <2>4, <2>5
  <2>7. q =< WAD * y + WAD + 2 * x
    BY <1>w, <1>9, <1>10, <1>11, <1>14, <2>3
  <2>8. WAD * y \in Int
    BY <1>w, <1>11
  <2> QED BY <1>w, <1>10, <2>2, <2>4, <2>6, <2>7, <2>8
<1>20. WAD + 2 * x =< R * t
  <2>1. WAD * t =< R * t
    BY <1>w, <1>12
  <2>2. t * WAD = WAD * t /\ WAD * t \in Int /\ R * t \in Int
    BY <1>w, <1>12
  <2> QED BY <1>w, <1>10, <1>12, <2>1, <2>2
<1>21. R * x \in Int /\ WAD * y \in Int /\ R * t \in Int
  BY <1>w, <1>10, <1>11, <1>12
<1> QED BY <1>w, <1>10, <1>11, <1>12, <1>17, <1>19, <1>20, <1>21

\* What a loan of rate c owes when its reserve's rate is C; the accounts keep the
\* loans and the total apart, and this is where they meet.
OwedAt(ob, r, C) ==
    IF DebtOf(ob, r) = 0 THEN 0
    ELSE Accrue(ob.borrows[BorrowIndex(ob, r)], C).borrowed_amount_wads

\* accrue_interest at the rate a debt has is accruing a factor of one.
LEMMA AccruedAmount ==
    ASSUME NEW b \in BorrowType, WAD =< b.cumulative_borrow_rate_wads, NEW C \in Nat
    PROVE  Accrue(b, C).borrowed_amount_wads =
             Mul(b.borrowed_amount_wads, Div(C, b.cumulative_borrow_rate_wads))
<1>w. WAD \in Nat /\ WAD > 0
  BY WADAssumption
<1>1. PICK a, c : a = b.borrowed_amount_wads /\ c = b.cumulative_borrow_rate_wads
  OBVIOUS
<1>2. a \in Nat /\ c \in Nat /\ WAD =< c
  BY <1>1 DEF BorrowType
<1>3. CASE C = c
  <2>1. (c * WAD) \div c = WAD
    <3>1. c * WAD \in Nat /\ c \in Nat \ {0}
      BY <1>w, <1>2, ProductNat
    <3>2. PICK q : q = (c * WAD) \div c
      OBVIOUS
    <3>3. q \in Nat /\ q * c =< c * WAD /\ c * WAD < q * c + c
      BY <3>1, <3>2, DivFacts
    <3>4. (WAD - q) * c >= 0 /\ (WAD - q - 1) * c < 0
      BY <1>w, <1>2, <3>3
    <3>5. WAD - q \in Int /\ WAD - q >= 0 /\ WAD - q - 1 < 0
      BY <1>w, <1>2, <3>3, <3>4
    <3> QED BY <1>w, <3>2, <3>3, <3>5
  <2>2. (a * WAD) \div WAD = a
    BY <1>2, FloorFromInt DEF Floor, FromInt
  <2>3. Accrue(b, C) = b
    BY <1>1, <1>3 DEF Accrue
  <2> QED BY <1>1, <1>3, <2>1, <2>2, <2>3 DEF Mul, Div
<1>4. CASE C # c
  BY <1>1, <1>4 DEF Accrue, BorrowType
<1> QED BY <1>3, <1>4

\* A debt is owed as the one entry to its reserve is.
LEMMA OwedOfEntry ==
    ASSUME NEW ob, NEW R, NEW s, ObligationSound(ob, R, s), NEW r
    PROVE  \/ /\ DebtOf(ob, r) = 0
              /\ \A C : OwedAt(ob, r, C) = 0
              /\ \A i \in 1..Len(ob.borrows) : ob.borrows[i].borrow_reserve # r
           \/ \E i \in 1..Len(ob.borrows) :
                 /\ ob.borrows[i] \in BorrowType /\ ob.borrows[i].borrow_reserve = r
                 /\ DebtSound(ob.borrows[i], R)
                 /\ BorrowIndex(ob, r) = i
                 /\ DebtOf(ob, r) = ob.borrows[i].borrowed_amount_wads /\ DebtOf(ob, r) # 0
                 /\ \A C : OwedAt(ob, r, C) = Accrue(ob.borrows[i], C).borrowed_amount_wads
<1>1. /\ Live(ob) /\ ob.borrows \in Seq(BorrowType) /\ DebtsSound(ob.borrows, R)
  BY DEF ObligationSound, ObligationType, Live, DebtsSound
<1>2. CASE BorrowIndex(ob, r) = 0
  <2>1. DebtOf(ob, r) = 0
    BY <1>2 DEF DebtOf
  <2> QED BY <1>1, <1>2, <2>1, BorrowIndexFacts DEF OwedAt
<1>3. CASE BorrowIndex(ob, r) # 0
  <2>1. PICK i : i = BorrowIndex(ob, r)
    OBVIOUS
  <2>2. i \in 1..Len(ob.borrows) /\ ob.borrows[i].borrow_reserve = r
    BY <1>1, <1>3, <2>1, BorrowIndexFacts
  <2>3. ob.borrows[i] \in BorrowType /\ DebtSound(ob.borrows[i], R)
    BY <1>1, <2>2 DEF DebtsSound
  <2>4. DebtOf(ob, r) = ob.borrows[i].borrowed_amount_wads /\ DebtOf(ob, r) # 0
    BY <1>1, <1>3, <2>1, <2>3 DEF DebtOf, DebtSound
  <2>5. \A C : OwedAt(ob, r, C) = Accrue(ob.borrows[i], C).borrowed_amount_wads
    BY <2>1, <2>4 DEF OwedAt
  <2> QED BY <2>1, <2>2, <2>3, <2>4, <2>5
<1> QED BY <1>2, <1>3

\* The debts to a reserve at its rate C, before a step and after it.
SumAt(r, C) == SumFunctionOnSet([o \in Obligations |-> OwedAt(obligation[o], r, C)], Obligations)
SumThen(r, C) == SumFunctionOnSet([o \in Obligations |-> OwedAt(obligation'[o], r, C)], Obligations)

\* An account not open owes nothing; one that is owes naturals.
LEMMA OwedNat ==
    ASSUME Accounts, NEW r \in Reserves, NEW C \in Nat, NEW o \in Obligations
    PROVE  OwedAt(obligation[o], r, C) \in Nat
<1>1. CASE ~Live(obligation[o])
  BY <1>1 DEF OwedAt, DebtOf
<1>2. CASE Live(obligation[o])
  <2>1. ObligationSound(obligation[o], reserve, slot)
    BY <1>2, LiveSound
  <2>2. PICK ob : ob = obligation[o]
    OBVIOUS
  <2>3. CASE \E i \in 1..Len(ob.borrows) :
                 /\ ob.borrows[i] \in BorrowType
                 /\ DebtSound(ob.borrows[i], reserve)
                 /\ OwedAt(ob, r, C) = Accrue(ob.borrows[i], C).borrowed_amount_wads
    <3>1. PICK b \in BorrowType : /\ DebtSound(b, reserve)
                                  /\ OwedAt(ob, r, C) = Accrue(b, C).borrowed_amount_wads
      BY <2>3
    <3>2. b.cumulative_borrow_rate_wads \in Nat /\ WAD =< b.cumulative_borrow_rate_wads
          /\ b.borrowed_amount_wads \in Nat /\ WAD \in Nat /\ WAD > 0
      BY <3>1, WADAssumption DEF DebtSound, One, BorrowType
    <3>3. PICK a, c : a = b.borrowed_amount_wads /\ c = b.cumulative_borrow_rate_wads
      OBVIOUS
    <3>4. a \in Nat /\ c \in Nat /\ c # 0
      BY <3>2, <3>3
    <3>5. Div(C, c) \in Nat
      BY <3>4, DecimalNat
    <3>6. Mul(a, Div(C, c)) \in Nat
      BY <3>4, <3>5, DecimalNat
    <3>7. OwedAt(ob, r, C) = Mul(a, Div(C, c))
      BY <3>1, <3>2, <3>3, AccruedAmount
    <3> QED BY <2>2, <3>6, <3>7
  <2>4. \/ OwedAt(ob, r, C) = 0
        \/ \E i \in 1..Len(ob.borrows) :
                 /\ ob.borrows[i] \in BorrowType
                 /\ DebtSound(ob.borrows[i], reserve)
                 /\ OwedAt(ob, r, C) = Accrue(ob.borrows[i], C).borrowed_amount_wads
    <3>1. ObligationSound(ob, reserve, slot)
      BY <2>1, <2>2
    <3>2. CASE DebtOf(ob, r) = 0
      BY <3>2 DEF OwedAt
    <3>3. CASE DebtOf(ob, r) # 0
      <4>1. PICK i \in 1..Len(ob.borrows) :
               /\ ob.borrows[i] \in BorrowType
               /\ DebtSound(ob.borrows[i], reserve)
               /\ \A D : OwedAt(ob, r, D) = Accrue(ob.borrows[i], D).borrowed_amount_wads
        BY <3>1, <3>3, OwedOfEntry
      <4> QED BY <4>1
    <3> QED BY <3>2, <3>3
  <2> QED BY <2>2, <2>3, <2>4
<1> QED BY <1>1, <1>2

\* What a charge of R makes of one obligation's debt.
LEMMA OwedCharged ==
    ASSUME Accounts, NEW r \in Reserves, Live(reserve[r]), NEW o \in Obligations,
           NEW R \in Nat, WAD =< R, NEW C, C = reserve[r].cumulative_borrow_rate_wads
    PROVE  LET x == OwedAt(obligation[o], r, C)
               y == OwedAt(obligation[o], r, Mul(C, R))
               t == Truncated(obligation[o], r)
           IN  /\ x \in Nat /\ y \in Nat /\ t \in Nat
               /\ WAD * y =< R * x + R * t
               /\ R * x =< WAD * y + R * t
<1>w. WAD \in Nat /\ WAD > 0
  BY WADAssumption
<1>1. PICK ob : ob = obligation[o]
  OBVIOUS
<1>2. CASE DebtOf(ob, r) = 0
  <2>1. /\ OwedAt(ob, r, C) = 0 /\ OwedAt(ob, r, Mul(C, R)) = 0 /\ Truncated(ob, r) = 0
    BY <1>2 DEF OwedAt, Truncated
  <2> QED BY <1>w, <1>1, <2>1
<1>3. CASE DebtOf(ob, r) # 0
  <2>1. Live(ob)
    BY <1>3 DEF DebtOf
  <2>2. ObligationSound(ob, reserve, slot)
    BY <1>1, <2>1, LiveSound
  <2>3. PICK b \in BorrowType :
           /\ b.borrow_reserve = r /\ DebtSound(b, reserve) /\ b = ob.borrows[BorrowIndex(ob, r)]
           /\ \A D : OwedAt(ob, r, D) = Accrue(b, D).borrowed_amount_wads
    <3>1. PICK i \in 1..Len(ob.borrows) :
             /\ ob.borrows[i] \in BorrowType /\ ob.borrows[i].borrow_reserve = r
             /\ DebtSound(ob.borrows[i], reserve)
             /\ BorrowIndex(ob, r) = i
             /\ \A D : OwedAt(ob, r, D) = Accrue(ob.borrows[i], D).borrowed_amount_wads
      BY <1>3, <2>2, OwedOfEntry
    <3> QED BY <3>1
  <2>4. PICK a, c : a = b.borrowed_amount_wads /\ c = b.cumulative_borrow_rate_wads
    OBVIOUS
  <2>5. a \in Nat /\ c \in Nat /\ WAD =< c /\ c =< C
    BY <1>1, <2>3, <2>4 DEF DebtSound, One, BorrowType
  <2>6. C \in Nat
    <3>1. Sound(reserve[r], slot)
      BY LiveSound
    <3> QED BY <3>1 DEF Sound, ReserveType
  <2>7. Mul(C, R) \in Nat
    BY <2>6, DecimalNat
  <2>8. PICK x : x = Mul(a, Div(C, c))
    OBVIOUS
  <2>9. PICK y : y = Mul(a, Div(Mul(C, R), c))
    OBVIOUS
  <2>10. OwedAt(ob, r, C) = x /\ OwedAt(ob, r, Mul(C, R)) = y
    BY <2>3, <2>4, <2>5, <2>6, <2>7, <2>8, <2>9, AccruedAmount
  <2>11. AccruedDebt(ob, r) = x
    BY <1>3, <2>10 DEF AccruedDebt, OwedAt
  <2>12. Truncated(ob, r) = Ceil(2 * x) + 1
    BY <1>3, <2>11 DEF Truncated
  <2>13. PICK t : t = Ceil(2 * x) + 1
    OBVIOUS
  <2>14. /\ x \in Nat /\ y \in Nat /\ t \in Nat
         /\ WAD * y =< R * x + R * t
         /\ R * x =< WAD * y + R * t
    BY ONLY <2>5, <2>6, <2>8, <2>9, <2>13, R \in Nat, WAD =< R, ChargedDebt
  <2> QED BY <1>1, <2>10, <2>12, <2>13, <2>14
<1> QED BY <1>2, <1>3

\* ...and of them all.
LEMMA SumCharged ==
    ASSUME Accounts, NEW r \in Reserves, Live(reserve[r]),
           NEW R \in Nat, WAD =< R, NEW C, C = reserve[r].cumulative_borrow_rate_wads
    PROVE  /\ SumAt(r, C) \in Nat /\ SumAt(r, Mul(C, R)) \in Nat
           /\ Rounding(r) - 1 \in Nat
           /\ WAD * SumAt(r, Mul(C, R)) =< R * SumAt(r, C) + R * (Rounding(r) - 1)
           /\ R * SumAt(r, C) =< WAD * SumAt(r, Mul(C, R)) + R * (Rounding(r) - 1)
<1> DEFINE f == [o \in Obligations |-> OwedAt(obligation[o], r, C)]
           g == [o \in Obligations |-> OwedAt(obligation[o], r, Mul(C, R))]
           t == [o \in Obligations |-> Truncated(obligation[o], r)]
<1>1. IsFiniteSet(Obligations) /\ WAD \in Int /\ R \in Int
  BY AccountsAssumption, WADAssumption
<1>2. \A o \in Obligations : /\ f[o] \in Nat /\ g[o] \in Nat /\ t[o] \in Nat
                             /\ WAD * g[o] =< R * f[o] + R * t[o]
                             /\ R * f[o] =< WAD * g[o] + R * t[o]
  BY OwedCharged
<1>3. /\ SumAt(r, C) = SumFunctionOnSet(f, Obligations)
      /\ SumAt(r, Mul(C, R)) = SumFunctionOnSet(g, Obligations)
      /\ Rounding(r) = SumFunctionOnSet(t, Obligations) + 1
  BY DEF SumAt, Rounding
<1> HIDE DEF f, g, t
<1>4. /\ SumFunctionOnSet(f, Obligations) \in Nat
      /\ SumFunctionOnSet(g, Obligations) \in Nat
      /\ SumFunctionOnSet(t, Obligations) \in Nat
  BY <1>1, <1>2, SumNat
<1>5. WAD * SumFunctionOnSet(g, Obligations)
         =< R * SumFunctionOnSet(f, Obligations) + R * SumFunctionOnSet(t, Obligations)
  <2>1. \A o \in Obligations : /\ g[o] \in Int /\ f[o] \in Int /\ t[o] \in Int
                               /\ WAD * g[o] =< R * f[o] + R * t[o]
    BY <1>2
  <2> QED BY ONLY <1>1, <2>1, SumWithin
<1>6. R * SumFunctionOnSet(f, Obligations)
         =< WAD * SumFunctionOnSet(g, Obligations) + R * SumFunctionOnSet(t, Obligations)
  <2>1. \A o \in Obligations : /\ f[o] \in Int /\ g[o] \in Int /\ t[o] \in Int
                               /\ R * f[o] =< WAD * g[o] + R * t[o]
    BY <1>2
  <2> QED BY ONLY <1>1, <2>1, SumWithin
<1>7. PICK a, b, k : /\ a = SumFunctionOnSet(f, Obligations)
                     /\ b = SumFunctionOnSet(g, Obligations)
                     /\ k = SumFunctionOnSet(t, Obligations)
  OBVIOUS
<1>8. Rounding(r) - 1 = k
  BY <1>3, <1>4, <1>7
<1> QED BY <1>3, <1>4, <1>5, <1>6, <1>7, <1>8

-----------------------------------------------------------------------------
\* K is reserve r charged, or not, by the step.
Charges(r, K) ==
    \/ K = reserve[r] /\ reserve'[r].last_update.slot = reserve[r].last_update.slot
    \/ K = RefreshInterest(reserve[r], slot) /\ reserve'[r].last_update.slot = slot

\* The step charges the reserve or not, and then moves the debts and the total by
\* the same amount, m, and the total by d besides; a fall it cannot make takes
\* the total to zero.
Booked(r, d) ==
    \E K : \E m \in Int :
        /\ Charges(r, K)
        /\ reserve'[r].cumulative_borrow_rate_wads = K.cumulative_borrow_rate_wads
        /\ SumThen(r, K.cumulative_borrow_rate_wads) = SumAt(r, K.cumulative_borrow_rate_wads) + m
        /\ \/ reserve'[r].borrowed_amount_wads = K.borrowed_amount_wads + m + d
           \/ /\ reserve'[r].borrowed_amount_wads = 0
              /\ m + d =< -K.borrowed_amount_wads

\* What an interest charge does to rate and total.
LEMMA ChargeFacts ==
    ASSUME Accounts, NEW r \in Reserves, Live(reserve[r]), NEW K, Charges(r, K)
    PROVE  /\ ChargedFor(r) \in Nat
           /\ ChargedRate(r) \in Nat /\ WAD =< ChargedRate(r)
           /\ ChargedFor(r) = 0 =>
                 /\ ChargedRate(r) = WAD
                 /\ K.cumulative_borrow_rate_wads = reserve[r].cumulative_borrow_rate_wads
                 /\ K.borrowed_amount_wads = reserve[r].borrowed_amount_wads
           /\ ChargedFor(r) > 0 =>
                 /\ K.cumulative_borrow_rate_wads =
                       Mul(reserve[r].cumulative_borrow_rate_wads, ChargedRate(r))
                 /\ K.borrowed_amount_wads =
                       Mul(reserve[r].borrowed_amount_wads, ChargedRate(r))
<1>1. PICK res : res = reserve[r]
  OBVIOUS
<1>2. Sound(res, slot) /\ slot \in Nat
  BY <1>1, LiveSound
<1>3. res \in ReserveType /\ ConsistentConfig(res.config) /\ res.last_update.slot \in Nat
      /\ res.last_update.slot =< slot
  BY <1>2 DEF Sound, ReserveType, UpdateType
<1>4. ChargedFor(r) \in Nat
  BY <1>1, <1>2, <1>3 DEF Charges, ChargedFor
<1>5. PICK R : R = CompoundedRate(res, ChargedFor(r))
  OBVIOUS
<1>6. R \in Nat /\ R >= WAD
  BY <1>3, <1>4, <1>5, CompoundedAtLeastOne
<1>7. CASE ChargedFor(r) = 0
  <2>1. ChargedRate(r) = WAD
    BY <1>7 DEF ChargedRate, One
  <2>2. CASE K = reserve[r]
    BY <1>4, <1>7, <2>1, <2>2, WADAssumption
  <2>3. CASE K = RefreshInterest(reserve[r], slot) /\ reserve'[r].last_update.slot = slot
    <3>1. slot = res.last_update.slot
      BY <1>1, <1>2, <1>3, <1>7, <2>3 DEF ChargedFor
    <3>2. /\ K.cumulative_borrow_rate_wads = res.cumulative_borrow_rate_wads
          /\ K.borrowed_amount_wads = res.borrowed_amount_wads
      BY <1>1, <1>2, <1>3, <2>3, <3>1, RefreshFacts
    <3> QED BY <1>1, <1>4, <1>7, <2>1, <3>2, WADAssumption
  <2> QED BY <2>2, <2>3 DEF Charges
<1>8. CASE ChargedFor(r) > 0
  <2>1. ChargedRate(r) = R
    BY <1>1, <1>5, <1>8 DEF ChargedRate
  <2>2. K = RefreshInterest(reserve[r], slot) /\ reserve'[r].last_update.slot = slot
    BY <1>1, <1>3, <1>8 DEF Charges, ChargedFor
  <2>3. slot - res.last_update.slot = ChargedFor(r)
    BY <1>1, <2>2 DEF ChargedFor
  <2>4. K = [Compound(res, R) EXCEPT !.last_update = UpdatedAt(slot)]
    BY <1>1, <1>5, <1>8, <2>2, <2>3 DEF RefreshInterest
  <2>5. /\ K.cumulative_borrow_rate_wads = Compound(res, R).cumulative_borrow_rate_wads
        /\ K.borrowed_amount_wads = Compound(res, R).borrowed_amount_wads
    <3>1. Compound(res, R) \in ReserveType
      BY <1>3, <1>6, CompoundFacts
    <3> QED BY <2>4, <3>1 DEF ReserveType
  <2>6. Compound(res, R).cumulative_borrow_rate_wads = Mul(res.cumulative_borrow_rate_wads, R)
    BY <1>3 DEF Compound, ReserveType
  <2>7. Compound(res, R).borrowed_amount_wads = res.borrowed_amount_wads + NetNewDebt(res, R)
    BY <1>3 DEF Compound, ReserveType
  <2>8. res.borrowed_amount_wads \in Nat /\ Mul(res.borrowed_amount_wads, R) \in Nat
    BY <1>3, <1>6, DecimalNat DEF ReserveType
  <2>9. res.borrowed_amount_wads + NetNewDebt(res, R) = Mul(res.borrowed_amount_wads, R)
    BY <2>8 DEF NetNewDebt
  <2> QED BY <1>1, <1>4, <1>6, <1>8, <2>1, <2>5, <2>6, <2>7, <2>9
<1> QED BY <1>4, <1>7, <1>8

\* What a step so booked keeps, where L tokens are counted beside the debts and d
\* more after it.
LEMMA BookedKept ==
    ASSUME Accounts, Accounts', NEW r \in Reserves, Live(reserve[r]), Live(reserve'[r]),
           NEW d \in Int, Booked(r, d), NEW L \in Int, L = 0 \/ ChargedFor(r) = 0,
           NEW before, before = Unmatched(r) + L,
           NEW after, after = Unmatched(r)' + (L + d)
    PROVE  MatchKept(r, before, after)
<1>w. WAD \in Nat /\ WAD > 0
  BY WADAssumption
<1>1. PICK K, m : /\ m \in Int /\ Charges(r, K)
                  /\ reserve'[r].cumulative_borrow_rate_wads = K.cumulative_borrow_rate_wads
                  /\ SumThen(r, K.cumulative_borrow_rate_wads)
                        = SumAt(r, K.cumulative_borrow_rate_wads) + m
                  /\ \/ reserve'[r].borrowed_amount_wads = K.borrowed_amount_wads + m + d
                     \/ /\ reserve'[r].borrowed_amount_wads = 0
                        /\ m + d =< -K.borrowed_amount_wads
  BY DEF Booked
<1>2. PICK C, B : C = reserve[r].cumulative_borrow_rate_wads /\ B = reserve[r].borrowed_amount_wads
  OBVIOUS
<1>3. C \in Nat /\ B \in Nat
  <2>1. Sound(reserve[r], slot)
    BY LiveSound
  <2> QED BY <1>2, <2>1 DEF Sound, ReserveType
<1>4. PICK D, E : D = K.cumulative_borrow_rate_wads /\ E = K.borrowed_amount_wads
  OBVIOUS
<1>5. PICK X, Y : X = SumAt(r, C) /\ Y = SumAt(r, D)
  OBVIOUS
<1>6. before = X - B + L
  <2>1. OwedTo(r) = X
    BY <1>2, <1>5 DEF OwedTo, AccruedDebt, SumAt, OwedAt
  <2> QED BY <1>2, <2>1 DEF Unmatched
<1>20. m \in Int /\ reserve'[r].borrowed_amount_wads \in Int
  <2>1. Sound(reserve'[r], slot')
    BY DEF Accounts, AllSound
  <2> QED BY <1>1, <2>1 DEF Sound, ReserveType
<1>21. D \in Nat
  <2>1. CASE ChargedFor(r) = 0
    BY <1>1, <1>2, <1>3, <1>4, <2>1, ChargeFacts
  <2>2. CASE ChargedFor(r) # 0
    <3>1. ChargedFor(r) > 0 /\ ChargedRate(r) \in Nat
      BY <1>1, <2>2, ChargeFacts
    <3>2. D = Mul(C, ChargedRate(r))
      BY <1>1, <1>2, <1>4, <3>1, ChargeFacts
    <3> QED BY <1>3, <3>1, <3>2, DecimalNat
  <2> QED BY <2>1, <2>2
<1>22. Y \in Nat
  <2>1. \A o \in Obligations : OwedAt(obligation[o], r, D) \in Nat
    BY <1>21, OwedNat
  <2>2. IsFiniteSet(Obligations)
    BY AccountsAssumption
  <2>3. SumFunctionOnSet([o \in Obligations |-> OwedAt(obligation[o], r, D)], Obligations) \in Nat
    BY <2>1, <2>2, SumNat
  <2> QED BY <1>5, <2>3 DEF SumAt
<1>7. after = Y + m - reserve'[r].borrowed_amount_wads + (L + d)
  <2>1. OwedTo(r)' = SumThen(r, D)
    BY <1>1, <1>4 DEF OwedTo, AccruedDebt, SumThen, OwedAt
  <2>2. Unmatched(r)' = OwedTo(r)' - reserve'[r].borrowed_amount_wads
    BY DEF Unmatched
  <2>3. SumThen(r, D) = Y + m
    BY <1>1, <1>4, <1>5
  <2>4. Unmatched(r)' = Y + m - reserve'[r].borrowed_amount_wads
    BY <1>20, <1>22, <2>1, <2>2, <2>3
  <2> QED BY <1>20, <1>22, <2>4
<1>8. PICK R : R = ChargedRate(r)
  OBVIOUS
<1>9. PICK G : G = reserve'[r].borrowed_amount_wads
  OBVIOUS
<1>10. CASE ChargedFor(r) = 0
  <2>1. R = WAD /\ D = C /\ E = B
    BY <1>1, <1>2, <1>4, <1>8, <1>10, ChargeFacts
  <2>2. X \in Nat /\ Y = X
    <3>1. X \in Nat
      BY <1>2, <1>5, <1>w, SumCharged
    <3> QED BY <1>5, <2>1, <3>1
  <2>3. MatchKept(r, before, after) <=>
           /\ WAD * after - WAD * before =< 0
           /\ WAD * before - WAD * after =< 0 \/ G = 0
    BY <1>8, <1>9, <1>10, <2>1 DEF MatchKept
  <2>4. \/ after = before
        \/ G = 0 /\ after =< before
    BY <1>1, <1>3, <1>4, <1>6, <1>7, <1>9, <2>1, <2>2
  <2>5. before \in Int /\ after \in Int
    BY <1>1, <1>3, <1>4, <1>6, <1>7, <1>9, <2>1, <2>2
  <2>6. CASE after = before
    BY <1>w, <2>3, <2>5, <2>6
  <2>7. CASE G = 0 /\ after =< before
    <3>1. after * WAD =< before * WAD
      BY <1>w, <2>5, <2>7, ProductMonotone
    <3>2. WAD * after =< WAD * before /\ WAD * after \in Int /\ WAD * before \in Int
      BY <1>w, <2>5, <3>1
    <3> QED BY <2>3, <2>7, <3>2
  <2> QED BY <2>4, <2>6, <2>7
<1>11. CASE ChargedFor(r) # 0
  <2>1. /\ R \in Nat /\ WAD =< R /\ D = Mul(C, R) /\ E = Mul(B, R) /\ ChargedFor(r) > 0
    BY <1>1, <1>2, <1>4, <1>8, <1>11, ChargeFacts
  <2>2. L = 0
    BY <1>11
  <2>3. PICK k : k = Rounding(r) - 1
    OBVIOUS
  <2>4. X \in Nat /\ Y \in Nat /\ k \in Nat
        /\ WAD * Y =< R * X + R * k /\ R * X =< WAD * Y + R * k
    BY <1>2, <1>5, <2>1, <2>3, SumCharged
  <2>5. Rounding(r) = k + 1
    <3>1. Rounding(r) \in Int
      <4>1. \A o \in Obligations : Truncated(obligation[o], r) \in Nat
        BY <1>2, <2>1, OwedCharged
      <4>2. IsFiniteSet(Obligations)
        BY AccountsAssumption
      <4>3. SumFunctionOnSet([o \in Obligations |-> Truncated(obligation[o], r)], Obligations) \in Nat
        BY <4>1, <4>2, SumNat
      <4> QED BY <4>3 DEF Rounding
    <3> QED BY <2>3, <3>1
  <2>6. E \in Nat /\ E * WAD =< B * R /\ B * R < E * WAD + WAD
    <3>1. B * R \in Nat
      BY <1>3, <2>1, ProductNat
    <3>2. E = (B * R) \div WAD
      BY <2>1 DEF Mul
    <3>3. PICK p : p = B * R
      OBVIOUS
    <3>4. WAD \in Nat \ {0} /\ p \in Nat /\ E = p \div WAD
      BY <1>w, <3>1, <3>2, <3>3
    <3>5. E \in Nat /\ E * WAD =< p /\ p < E * WAD + WAD
      BY ONLY <3>4, DivFacts
    <3> QED BY <3>3, <3>5
  <2>7. MatchKept(r, before, after) <=>
           /\ WAD * after - R * before =< R * (k + 1)
           /\ R * before - WAD * after =< R * (k + 1) \/ G = 0
    BY <1>8, <1>9, <2>1, <2>5 DEF MatchKept
  <2>8. /\ after = Y - E \/ (G = 0 /\ after =< Y - E)
        /\ after \in Int
    <3>1. /\ m \in Int /\ d \in Int /\ G \in Int /\ Y \in Int /\ E \in Int
          /\ after = Y + m - G + (L + d) /\ L = 0
          /\ \/ G = E + m + d
             \/ G = 0 /\ m + d =< -E
      BY <1>1, <1>4, <1>7, <1>9, <1>20, <2>2, <2>4, <2>6
    <3> QED BY ONLY <3>1
  <2>9. before = X - B /\ before \in Int /\ after \in Int
    <3>1. X \in Nat
      BY ONLY <2>4
    <3>2. B \in Nat
      BY ONLY <1>3
    <3>3. before = X - B /\ before \in Int
      BY ONLY <1>6, <2>2, <3>1, <3>2
    <3> QED BY <2>8, <3>3
  <2>10. /\ R * before = R * X - B * R
         /\ WAD * (Y - E) = WAD * Y - E * WAD
         /\ R * (k + 1) = R * k + R
         /\ R * X \in Int /\ B * R \in Int /\ WAD * Y \in Int /\ E * WAD \in Int /\ R * k \in Int
    <3>1. R * (X - B) = R * X - B * R
      BY <1>3, <2>1, <2>4
    <3>2. /\ WAD * (Y - E) = WAD * Y - E * WAD
          /\ R * (k + 1) = R * k + R
      BY <1>w, <2>1, <2>4, <2>6
    <3>3. R * X \in Int /\ B * R \in Int /\ WAD * Y \in Int /\ E * WAD \in Int /\ R * k \in Int
      BY <1>w, <1>3, <2>1, <2>4, <2>6
    <3> QED BY <2>9, <3>1, <3>2, <3>3
  <2>11. WAD * after =< WAD * (Y - E) /\ WAD * after \in Int
    <3>1. after =< Y - E /\ Y - E \in Int
      BY <2>4, <2>6, <2>8, <2>9
    <3>2. after * WAD =< (Y - E) * WAD
      BY <1>w, <2>9, <3>1, ProductMonotone
    <3> QED BY <1>w, <2>9, <3>1, <3>2
  <2>12. WAD * after - R * before =< R * (k + 1)
    BY <1>w, <2>1, <2>4, <2>6, <2>10, <2>11
  <2>13. after = Y - E => R * before - WAD * after =< R * (k + 1)
    BY <1>w, <2>1, <2>4, <2>6, <2>10
  <2> QED BY <2>7, <2>8, <2>12, <2>13
<1> QED BY <1>10, <1>11

-----------------------------------------------------------------------------
\* What an obligation owes a reserve, at a rate, after each thing that is done
\* to its list of debts.

\* The debt to a reserve is what its entry accrues to, and nothing without one.
LEMMA OwedEntry ==
    ASSUME NEW ob, NEW R, NEW s, ObligationSound(ob, R, s), NEW i \in 1..Len(ob.borrows), NEW C
    PROVE  OwedAt(ob, ob.borrows[i].borrow_reserve, C)
             = Accrue(ob.borrows[i], C).borrowed_amount_wads
<1>1. PICK r : r = ob.borrows[i].borrow_reserve
  OBVIOUS
<1>2. DebtsSound(ob.borrows, R) /\ ob.borrows \in Seq(BorrowType)
  BY DEF ObligationSound, DebtsSound
<1>3. BorrowIndex(ob, r) = i
  <2>1. BorrowIndex(ob, r) # 0
    BY <1>1, <1>2, BorrowIndexFacts
  <2>2. PICK j \in 1..Len(ob.borrows) : j = BorrowIndex(ob, r) /\ ob.borrows[j].borrow_reserve = r
    BY <1>2, <2>1, BorrowIndexFacts
  <2> QED BY <1>1, <1>2, <2>2 DEF DebtsSound
<1>4. DebtOf(ob, r) # 0
  <2>1. DebtOf(ob, r) = ob.borrows[i].borrowed_amount_wads
    BY <1>1, DebtOfEntry
  <2> QED BY <1>2, <2>1 DEF DebtsSound, DebtSound
<1> QED BY <1>1, <1>3, <1>4 DEF OwedAt

\* An obligation without an entry for a reserve owes it nothing, at any rate.
LEMMA OwedNone ==
    ASSUME NEW ob, NEW R, NEW s, ObligationSound(ob, R, s), NEW r, NEW C,
           \A i \in 1..Len(ob.borrows) : ob.borrows[i].borrow_reserve # r
    PROVE  OwedAt(ob, r, C) = 0
<1>1. DebtOf(ob, r) = 0
  BY DebtOfEntry
<1> QED BY <1>1 DEF OwedAt

\* What is owed depends on the list of debts alone.
LEMMA OwedBorrows ==
    ASSUME NEW a, NEW b, Live(a), Live(b), a.borrows = b.borrows
    PROVE  \A r, C : OwedAt(a, r, C) = OwedAt(b, r, C)
BY DEF OwedAt, DebtOf, BorrowIndex

\* The same entry for a reserve, in whatever place, is the same debt.
LEMMA SameEntries ==
    ASSUME NEW a, NEW R, NEW s, ObligationSound(a, R, s),
           NEW b, NEW Q, NEW t, ObligationSound(b, Q, t), NEW r,
           \A i \in 1..Len(a.borrows) : a.borrows[i].borrow_reserve = r =>
              \E j \in 1..Len(b.borrows) : b.borrows[j] = a.borrows[i],
           \A j \in 1..Len(b.borrows) : b.borrows[j].borrow_reserve = r =>
              \E i \in 1..Len(a.borrows) : a.borrows[i] = b.borrows[j]
    PROVE  \A C : OwedAt(b, r, C) = OwedAt(a, r, C)
<1>1. TAKE C
<1>2. CASE \E i \in 1..Len(a.borrows) : a.borrows[i].borrow_reserve = r
  <2>1. PICK i \in 1..Len(a.borrows) : a.borrows[i].borrow_reserve = r
    BY <1>2
  <2>2. PICK j \in 1..Len(b.borrows) : b.borrows[j] = a.borrows[i]
    BY <2>1
  <2>3. OwedAt(a, a.borrows[i].borrow_reserve, C) = Accrue(a.borrows[i], C).borrowed_amount_wads
    BY ONLY ObligationSound(a, R, s), i \in 1..Len(a.borrows), OwedEntry
  <2>4. OwedAt(b, b.borrows[j].borrow_reserve, C) = Accrue(b.borrows[j], C).borrowed_amount_wads
    BY ONLY ObligationSound(b, Q, t), j \in 1..Len(b.borrows), OwedEntry
  <2> QED BY <2>1, <2>2, <2>3, <2>4
<1>3. CASE \A i \in 1..Len(a.borrows) : a.borrows[i].borrow_reserve # r
  <2>1. \A j \in 1..Len(b.borrows) : b.borrows[j].borrow_reserve # r
    BY <1>3
  <2>2. OwedAt(a, r, C) = 0
    BY <1>3, OwedNone
  <2>3. OwedAt(b, r, C) = 0
    BY <2>1, OwedNone
  <2> QED BY <2>2, <2>3
<1> QED BY <1>2, <1>3

\* An amount at its reserve's rate accrues to itself.
LEMMA AccruedAlready ==
    ASSUME NEW b, NEW C, b.cumulative_borrow_rate_wads = C
    PROVE  Accrue(b, C).borrowed_amount_wads = b.borrowed_amount_wads
BY DEF Accrue

\* A payment of n on entry i, when that is at the rate C, is n off that debt and
\* off no other.
LEMMA PayOffOwed ==
    ASSUME NEW ob, NEW R, NEW s, ObligationSound(ob, R, s), NEW i \in 1..Len(ob.borrows),
           NEW n \in 0..ob.borrows[i].borrowed_amount_wads,
           NEW d, d = ob.borrows[i].borrow_reserve,
           NEW C, C = ob.borrows[i].cumulative_borrow_rate_wads
    PROVE  LET b == PayOff(ob, i, n)
           IN  /\ OwedAt(b, d, C) = OwedAt(ob, d, C) - n
               /\ OwedAt(ob, d, C) = ob.borrows[i].borrowed_amount_wads
               /\ \A q : q # d => \A D : OwedAt(b, q, D) = OwedAt(ob, q, D)
<1>1. PICK bs : bs = ob.borrows
  OBVIOUS
<1>2. /\ DebtsSound(bs, R) /\ bs \in Seq(BorrowType) /\ i \in 1..Len(bs)
      /\ \A j, k \in 1..Len(bs) : j # k => bs[j].borrow_reserve # bs[k].borrow_reserve
  BY <1>1 DEF ObligationSound, DebtsSound
<1>3. PICK b : b = PayOff(ob, i, n)
  OBVIOUS
<1>4. ObligationSound(b, R, s)
  BY <1>3, PayOffSound
<1>5. /\ OwedAt(ob, d, C) = bs[i].borrowed_amount_wads
      /\ bs[i].borrowed_amount_wads \in Nat /\ n \in Nat /\ bs[i] \in BorrowType
  <2>1. bs[i] \in BorrowType
    BY <1>2
  <2>2. OwedAt(ob, d, C) = Accrue(bs[i], C).borrowed_amount_wads
    BY <1>1, OwedEntry
  <2> QED BY <1>1, <2>1, <2>2, AccruedAlready DEF BorrowType
<1>6. CASE n = bs[i].borrowed_amount_wads
  <2>1. PICK both : both = RemoveAt(bs, i)
    OBVIOUS
  <2>2. b.borrows = both
    BY <1>1, <1>3, <1>6, <2>1 DEF PayOff, ObligationSound, ObligationType
  <2>3. /\ both \in Seq(BorrowType) /\ Len(bs) \in Nat /\ Len(both) = Len(bs) - 1
        /\ \A j \in 1..(Len(bs) - 1) : /\ both[j] = bs[IF j < i THEN j ELSE j + 1]
                                       /\ (IF j < i THEN j ELSE j + 1) \in 1..Len(bs)
    BY <1>2, <2>1, RemoveEntries
  <2>4. ASSUME NEW j \in 1..Len(both)
        PROVE  \E k \in 1..Len(bs) : k # i /\ both[j] = bs[k]
    <3>1. PICK k \in 1..Len(bs) : k = (IF j < i THEN j ELSE j + 1) /\ both[j] = bs[k]
      BY <2>3
    <3>2. k # i
      BY <2>3, <3>1
    <3> QED BY <3>1, <3>2
  <2>5. ASSUME NEW k \in 1..Len(bs), k # i
        PROVE  \E j \in 1..Len(both) : both[j] = bs[k]
    <3>1. CASE k < i
      <4>1. k \in 1..(Len(bs) - 1)
        <5>1. PICK l \in Nat : l = Len(bs)
          BY <2>3
        <5>2. k \in 1..l /\ i \in 1..l
          BY <1>2, <5>1
        <5> QED BY <3>1, <5>1, <5>2
      <4> QED BY <2>3, <3>1, <4>1
    <3>2. CASE k > i
      <4>1. k - 1 \in 1..(Len(bs) - 1) /\ ~(k - 1 < i) /\ k - 1 + 1 = k
        BY <2>3, <3>2
      <4> QED BY <2>3, <4>1
    <3> QED BY <2>3, <2>5, <3>1, <3>2
  <2>6. \A j \in 1..Len(both) : both[j].borrow_reserve # d
    BY <1>1, <1>2, <2>4
  <2>7. OwedAt(b, d, C) = 0
    BY <1>4, <2>2, <2>6, OwedNone
  <2>8. ASSUME NEW q, q # d  PROVE \A D : OwedAt(b, q, D) = OwedAt(ob, q, D)
    <3>1. \A k \in 1..Len(ob.borrows) : ob.borrows[k].borrow_reserve = q =>
             \E j \in 1..Len(b.borrows) : b.borrows[j] = ob.borrows[k]
      BY <1>1, <2>2, <2>5, <2>8
    <3>2. \A j \in 1..Len(b.borrows) : b.borrows[j].borrow_reserve = q =>
             \E k \in 1..Len(ob.borrows) : ob.borrows[k] = b.borrows[j]
      BY <1>1, <2>2, <2>4
    <3> QED BY <1>4, <3>1, <3>2, SameEntries
  <2>9. OwedAt(b, d, C) = OwedAt(ob, d, C) - n
    BY <1>5, <1>6, <2>7
  <2> QED BY <1>1, <1>3, <1>5, <2>8, <2>9
<1>7. CASE n # bs[i].borrowed_amount_wads
  <2>1. PICK m : m = [bs[i] EXCEPT !.borrowed_amount_wads = @ - n]
    OBVIOUS
  <2>2. b.borrows = [bs EXCEPT ![i] = m]
    BY <1>1, <1>3, <1>7, <2>1 DEF PayOff, ObligationSound, ObligationType
  <2>3. PICK cs : cs = [bs EXCEPT ![i] = m]
    OBVIOUS
  <2>4. Len(cs) = Len(bs) /\ cs[i] = m /\ \A k \in 1..Len(bs) : k # i => cs[k] = bs[k]
    BY <1>2, <2>3
  <2>5. /\ m.borrow_reserve = d /\ m.cumulative_borrow_rate_wads = C
        /\ m.borrowed_amount_wads = bs[i].borrowed_amount_wads - n
    BY <1>1, <1>5, <2>1 DEF BorrowType
  <2>6. OwedAt(b, d, C) = bs[i].borrowed_amount_wads - n
    <3>1. i \in 1..Len(b.borrows) /\ b.borrows[i] = m
      BY <1>2, <2>2, <2>3, <2>4
    <3>2. OwedAt(b, b.borrows[i].borrow_reserve, C) = Accrue(b.borrows[i], C).borrowed_amount_wads
      BY <1>4, <3>1, OwedEntry
    <3> QED BY <2>5, <3>1, <3>2, AccruedAlready
  <2>7. ASSUME NEW q, q # d  PROVE \A D : OwedAt(b, q, D) = OwedAt(ob, q, D)
    <3>1. \A k \in 1..Len(ob.borrows) : ob.borrows[k].borrow_reserve = q =>
             \E j \in 1..Len(b.borrows) : b.borrows[j] = ob.borrows[k]
      BY <1>1, <2>2, <2>3, <2>4, <2>7
    <3>2. \A j \in 1..Len(b.borrows) : b.borrows[j].borrow_reserve = q =>
             \E k \in 1..Len(ob.borrows) : ob.borrows[k] = b.borrows[j]
      BY <1>1, <2>2, <2>3, <2>4, <2>5, <2>7
    <3> QED BY <1>4, <3>1, <3>2, SameEntries
  <2> QED BY <1>1, <1>3, <1>5, <2>6, <2>7
<1> QED BY <1>6, <1>7

\* Obligation ob, sound beside the reserves R, may owe n more to r: what it owes
\* to r already is at the rate C.
MayOwe(ob, R, s, r, C, n) ==
    /\ ObligationSound(ob, R, s) /\ r \in Reserves /\ Live(R[r])
    /\ C \in Nat /\ One =< C /\ C = R[r].cumulative_borrow_rate_wads /\ n \in Nat \ {0}
    /\ \A i \in 1..Len(ob.borrows) : ob.borrows[i].borrow_reserve = r =>
          ob.borrows[i].cumulative_borrow_rate_wads = C

\* A loan of n is then n more owed to r.
LEMMA OweOwed ==
    ASSUME NEW ob, NEW R, NEW s, NEW r, NEW C, NEW n, MayOwe(ob, R, s, r, C, n)
    PROVE  LET b == Owe(ob, r, C, n)
           IN  /\ OwedAt(b, r, C) = OwedAt(ob, r, C) + n
               /\ OwedAt(ob, r, C) \in Nat
               /\ \A q : q # r => \A D : OwedAt(b, q, D) = OwedAt(ob, q, D)
<1>0. /\ ObligationSound(ob, R, s) /\ r \in Reserves /\ Live(R[r])
      /\ C \in Nat /\ One =< C /\ C = R[r].cumulative_borrow_rate_wads /\ n \in Nat \ {0}
      /\ \A i \in 1..Len(ob.borrows) : ob.borrows[i].borrow_reserve = r =>
            ob.borrows[i].cumulative_borrow_rate_wads = C
  BY DEF MayOwe
<1> USE <1>0
<1>s. ObligationSound(ob, R, s)
  OBVIOUS
<1>1. PICK bs : bs = ob.borrows
  OBVIOUS
<1>2. DebtsSound(bs, R) /\ bs \in Seq(BorrowType)
  BY <1>1 DEF ObligationSound, DebtsSound
<1>3. PICK b : b = Owe(ob, r, C, n)
  OBVIOUS
<1>4. ObligationSound(b, R, s)
  <2>1. C =< R[r].cumulative_borrow_rate_wads /\ R[r].cumulative_borrow_rate_wads \in Nat
    OBVIOUS
  <2> QED BY <1>3, <2>1, OweSound
<1>5. CASE BorrowIndex(ob, r) # 0
  <2>1. PICK i \in 1..Len(bs) : i = BorrowIndex(ob, r) /\ bs[i].borrow_reserve = r
    BY <1>1, <1>2, <1>5, BorrowIndexFacts
  <2>2. PICK m : m = [bs[i] EXCEPT !.borrowed_amount_wads = @ + n]
    OBVIOUS
  <2>3. bs[i] \in BorrowType
    BY <1>2 DEF DebtsSound
  <2>4. /\ m.borrow_reserve = r /\ m.cumulative_borrow_rate_wads = C
        /\ m.borrowed_amount_wads = bs[i].borrowed_amount_wads + n
        /\ bs[i].borrowed_amount_wads \in Nat /\ bs[i].cumulative_borrow_rate_wads = C
    BY <1>1, <2>1, <2>2, <2>3 DEF BorrowType
  <2>5. PICK cs : cs = [bs EXCEPT ![i] = m]
    OBVIOUS
  <2>6. b.borrows = cs
    BY <1>1, <1>3, <1>5, <2>1, <2>2, <2>5 DEF Owe, ObligationSound, ObligationType
  <2>7. Len(cs) = Len(bs) /\ cs[i] = m /\ \A k \in 1..Len(bs) : k # i => cs[k] = bs[k]
    BY <1>2, <2>5
  <2>8. OwedAt(ob, r, C) = bs[i].borrowed_amount_wads
    <3>1. OwedAt(ob, bs[i].borrow_reserve, C) = Accrue(bs[i], C).borrowed_amount_wads
      BY <1>1, OwedEntry
    <3> QED BY <2>1, <2>4, <3>1, AccruedAlready
  <2>9. OwedAt(b, r, C) = m.borrowed_amount_wads
    <3>1. i \in 1..Len(b.borrows) /\ b.borrows[i] = m
      BY <2>6, <2>7
    <3>2. OwedAt(b, b.borrows[i].borrow_reserve, C) = Accrue(b.borrows[i], C).borrowed_amount_wads
      BY <1>4, <3>1, OwedEntry
    <3> QED BY <2>4, <3>1, <3>2, AccruedAlready
  <2>10. ASSUME NEW q, q # r  PROVE \A D : OwedAt(b, q, D) = OwedAt(ob, q, D)
    <3>1. \A k \in 1..Len(ob.borrows) : ob.borrows[k].borrow_reserve = q =>
             \E j \in 1..Len(b.borrows) : b.borrows[j] = ob.borrows[k]
      BY <1>1, <2>1, <2>6, <2>7, <2>10
    <3>2. \A j \in 1..Len(b.borrows) : b.borrows[j].borrow_reserve = q =>
             \E k \in 1..Len(ob.borrows) : ob.borrows[k] = b.borrows[j]
      BY <1>1, <2>4, <2>6, <2>7, <2>10
    <3> QED BY <1>4, <3>1, <3>2, SameEntries
  <2> QED BY <1>3, <2>4, <2>8, <2>9, <2>10
<1>6. CASE BorrowIndex(ob, r) = 0
  <2>1. PICK m : m = [borrow_reserve |-> r, cumulative_borrow_rate_wads |-> C,
                      borrowed_amount_wads |-> n, market_value |-> 0]
    OBVIOUS
  <2>2. PICK cs : cs = Append(bs, m)
    OBVIOUS
  <2>3. b.borrows = cs
    BY <1>1, <1>3, <1>6, <2>1, <2>2 DEF Owe, ObligationSound, ObligationType
  <2>4. /\ Len(bs) \in Nat /\ Len(cs) = Len(bs) + 1 /\ cs[Len(bs) + 1] = m
        /\ \A k \in 1..Len(bs) : cs[k] = bs[k]
    <3>1. m \in BorrowType
      BY <2>1 DEF BorrowType
    <3> QED BY <1>2, <2>2, <3>1
  <2>5. \A k \in 1..Len(bs) : bs[k].borrow_reserve # r
    BY <1>1, <1>2, <1>6, BorrowIndexFacts
  <2>6. OwedAt(ob, r, C) = 0
    BY <1>1, <2>5, OwedNone
  <2>7. OwedAt(b, r, C) = n
    <3>1. Len(bs) + 1 \in 1..Len(b.borrows) /\ b.borrows[Len(bs) + 1] = m
      BY <2>3, <2>4
    <3>2. PICK j \in 1..Len(b.borrows) : b.borrows[j] = m
      BY <3>1
    <3>3. OwedAt(b, b.borrows[j].borrow_reserve, C) = Accrue(b.borrows[j], C).borrowed_amount_wads
      BY <1>4, <3>2, OwedEntry
    <3>4. m.borrow_reserve = r /\ m.cumulative_borrow_rate_wads = C /\ m.borrowed_amount_wads = n
      BY <2>1
    <3> QED BY <3>2, <3>3, <3>4, AccruedAlready
  <2>8. ASSUME NEW q, q # r  PROVE \A D : OwedAt(b, q, D) = OwedAt(ob, q, D)
    <3>1. \A k \in 1..Len(ob.borrows) : ob.borrows[k].borrow_reserve = q =>
             \E j \in 1..Len(b.borrows) : b.borrows[j] = ob.borrows[k]
      BY <1>1, <2>3, <2>4, <2>8
    <3>2. \A j \in 1..Len(b.borrows) : b.borrows[j].borrow_reserve = q =>
             \E k \in 1..Len(ob.borrows) : ob.borrows[k] = b.borrows[j]
      <4>1. ASSUME NEW j \in 1..Len(cs), cs[j].borrow_reserve = q
            PROVE  j \in 1..Len(bs) /\ bs[j] = cs[j]
        <5>1. j # Len(bs) + 1
          BY <2>1, <2>4, <2>8, <4>1
        <5> QED BY <2>4, <5>1
      <4> QED BY <1>1, <2>3, <4>1
    <3> QED BY ONLY <1>s, <1>4, <3>1, <3>2, SameEntries
  <2> QED BY <1>3, <2>6, <2>7, <2>8
<1> QED BY <1>5, <1>6

\* refresh_obligation values the debts at the rates of their reserves, and they
\* are owed at those rates as they were.
LEMMA RefreshOwed ==
    ASSUME NEW ob, NEW R, NEW s \in Nat, ObligationSound(ob, R, s), AllSound(R, s),
           CanRefreshObligation(ob, R, s), NEW q, NEW C, C = R[q].cumulative_borrow_rate_wads
    PROVE  OwedAt(RefreshObligation(ob, R, s), q, C) = OwedAt(ob, q, C)
<1>1. PICK b : b = RefreshObligation(ob, R, s)
  OBVIOUS
<1>2. PICK now : now = OwedNow(ob, R)
  OBVIOUS
<1>3. PICK led : led = HeaviestToFront(now, R)
  OBVIOUS
<1>4. ObligationSound(b, R, s)
  BY <1>1, RefreshObligationSound
<1>5. b.borrows = led
  BY <1>1, <1>2, <1>3, RefreshFields DEF ObligationSound, ObligationType
<1>6. DebtsSound(now, R) /\ Len(now) = Len(ob.borrows) /\ ob.borrows \in Seq(BorrowType)
  BY <1>2, OwedNowSound DEF ObligationSound, DebtsSound
<1>7. /\ Len(led) = Len(now)
      /\ \A i \in 1..Len(led) : \E j \in 1..Len(now) : led[i] = now[j]
      /\ \A j \in 1..Len(now) : \E i \in 1..Len(led) : led[i] = now[j]
  <2>1. \A r \in Reserves : Live(R[r]) => R[r] \in ReserveType
    BY DEF AllSound, Sound
  <2>2. DebtsSound(now, R)
    BY <1>6
  <2>3. LET l == HeaviestToFront(now, R)
        IN  /\ DebtsSound(l, R) /\ Len(l) = Len(now)
            /\ \A i \in 1..Len(l) : \E j \in 1..Len(now) : l[i] = now[j]
            /\ \A j \in 1..Len(now) : \E i \in 1..Len(l) : l[i] = now[j]
            /\ \A i \in 2..Len(l) : Heavier(l[1], l[i], R)
    BY ONLY <2>1, <2>2, HeaviestToFrontSound
  <2> QED BY <1>3, <2>3
<1>8. ASSUME NEW i \in 1..Len(ob.borrows)
      PROVE  /\ now[i].borrow_reserve = ob.borrows[i].borrow_reserve
             /\ now[i].borrow_reserve = q =>
                   /\ now[i].cumulative_borrow_rate_wads = C
                   /\ now[i].borrowed_amount_wads = Accrue(ob.borrows[i], C).borrowed_amount_wads
  <2>1. PICK e : e = ob.borrows[i]
    OBVIOUS
  <2>2. e \in BorrowType /\ DebtSound(e, R)
    BY <1>6, <2>1 DEF ObligationSound, DebtsSound
  <2>3. PICK res : res = R[e.borrow_reserve]
    OBVIOUS
  <2>4. Sound(res, s) /\ e.borrow_reserve \in Reserves
    BY <2>2, <2>3 DEF AllSound, DebtSound, BorrowType
  <2>5. CanAccrue(e, res.cumulative_borrow_rate_wads)
    BY <2>2, <2>3 DEF CanAccrue, DebtSound
  <2>6. PICK D : D = res.cumulative_borrow_rate_wads
    OBVIOUS
  <2>7. PICK a : a = Accrue(e, D)
    OBVIOUS
  <2>8. /\ a \in BorrowType /\ a.borrow_reserve = e.borrow_reserve
        /\ a.cumulative_borrow_rate_wads = D
    <3>1. D \in Nat
      BY <2>4, <2>6 DEF Sound, ReserveType
    <3> QED BY <2>2, <2>5, <2>6, <2>7, <3>1, AccrueFacts DEF DebtSound
  <2>9. now[i] = [a EXCEPT !.market_value = MarketValue(res, a.borrowed_amount_wads)]
    <3>1. i \in DOMAIN ob.borrows
      BY <1>6
    <3> QED BY <1>2, <2>1, <2>3, <2>6, <2>7, <3>1 DEF OwedNow, Valued
  <2>10. /\ now[i].borrow_reserve = a.borrow_reserve
         /\ now[i].cumulative_borrow_rate_wads = D
         /\ now[i].borrowed_amount_wads = a.borrowed_amount_wads
    BY <2>8, <2>9 DEF BorrowType
  <2>11. now[i].borrow_reserve = q => D = C
    BY <2>3, <2>6, <2>8, <2>10
  <2> QED BY <2>1, <2>7, <2>8, <2>10, <2>11
<1>9. CASE \E i \in 1..Len(ob.borrows) : ob.borrows[i].borrow_reserve = q
  <2>1. PICK i \in 1..Len(ob.borrows) : ob.borrows[i].borrow_reserve = q
    BY <1>9
  <2>2. PICK j \in 1..Len(b.borrows) : b.borrows[j] = now[i]
    BY <1>5, <1>6, <1>7
  <2>3. OwedAt(ob, ob.borrows[i].borrow_reserve, C) = Accrue(ob.borrows[i], C).borrowed_amount_wads
    BY OwedEntry
  <2>4. OwedAt(b, b.borrows[j].borrow_reserve, C) = Accrue(b.borrows[j], C).borrowed_amount_wads
    BY ONLY <1>4, j \in 1..Len(b.borrows), OwedEntry
  <2>5. Accrue(b.borrows[j], C).borrowed_amount_wads = b.borrows[j].borrowed_amount_wads
    BY <1>8, <2>1, <2>2, AccruedAlready
  <2> QED BY <1>1, <1>8, <2>1, <2>2, <2>3, <2>4, <2>5
<1>10. CASE \A i \in 1..Len(ob.borrows) : ob.borrows[i].borrow_reserve # q
  <2>1. ASSUME NEW j \in 1..Len(b.borrows)  PROVE b.borrows[j].borrow_reserve # q
    <3>1. PICK i \in 1..Len(now) : b.borrows[j] = now[i]
      BY <1>5, <1>7
    <3>2. i \in 1..Len(ob.borrows)
      BY <1>6
    <3> QED BY <1>8, <1>10, <3>1, <3>2
  <2>2. OwedAt(ob, q, C) = 0
    BY <1>10, OwedNone
  <2>3. OwedAt(b, q, C) = 0
    BY <1>4, <2>1, OwedNone
  <2> QED BY <1>1, <2>2, <2>3
<1> QED BY <1>9, <1>10

-----------------------------------------------------------------------------
\* How the debts to a reserve, and its total, move together in a step.

\* X is the reserve K with its debts, its rate and its time as they were.
Carried(K, X) ==
    /\ X.cumulative_borrow_rate_wads = K.cumulative_borrow_rate_wads
    /\ X.borrowed_amount_wads = K.borrowed_amount_wads
    /\ X.last_update.slot = K.last_update.slot

\* Every obligation owes what it owed, at whatever rates.
OwesAsBefore ==
    \A p \in Obligations : \A q, C : OwedAt(obligation'[p], q, C) = OwedAt(obligation[p], q, C)

\* A sum of debts that none of them changes.
LEMMA SumStays ==
    ASSUME Accounts, NEW r \in Reserves, NEW C \in Nat,
           \A p \in Obligations : OwedAt(obligation'[p], r, C) = OwedAt(obligation[p], r, C)
    PROVE  SumAt(r, C) \in Nat /\ SumThen(r, C) = SumAt(r, C) + 0
<1> DEFINE f == [p \in Obligations |-> OwedAt(obligation[p], r, C)]
           g == [p \in Obligations |-> OwedAt(obligation'[p], r, C)]
<1>1. IsFiniteSet(Obligations)
  BY AccountsAssumption
<1>2. \A p \in Obligations : f[p] \in Nat
  BY OwedNat
<1>3. \A p \in Obligations : g[p] = f[p]
  OBVIOUS
<1>4. SumThen(r, C) = SumFunctionOnSet(g, Obligations) /\ SumAt(r, C) = SumFunctionOnSet(f, Obligations)
  BY DEF SumThen, SumAt
<1> HIDE DEF f, g
<1>5. SumFunctionOnSet(f, Obligations) \in Nat
  BY <1>1, <1>2, SumNat
<1>6. SumFunctionOnSet(g, Obligations) = SumFunctionOnSet(f, Obligations)
  BY <1>1, <1>3, SumEqual
<1> QED BY <1>4, <1>5, <1>6

\* ...and one that a single obligation changes.
LEMMA SumMoves ==
    ASSUME Accounts, NEW r \in Reserves, NEW C \in Nat, NEW o \in Obligations, NEW Y,
           obligation' = [obligation EXCEPT ![o] = Y], NEW m \in Int,
           OwedAt(Y, r, C) = OwedAt(obligation[o], r, C) + m
    PROVE  SumAt(r, C) \in Nat /\ SumThen(r, C) = SumAt(r, C) + m
<1> DEFINE f == [p \in Obligations |-> OwedAt(obligation[p], r, C)]
           g == [p \in Obligations |-> OwedAt(obligation'[p], r, C)]
<1>1. IsFiniteSet(Obligations) /\ DOMAIN obligation = Obligations
  BY AccountsAssumption DEF Accounts
<1>2. \A p \in Obligations : f[p] \in Nat
  BY OwedNat
<1>3. obligation'[o] = Y /\ \A p \in Obligations \ {o} : obligation'[p] = obligation[p]
  BY <1>1
<1>4. g[o] = f[o] + m /\ \A p \in Obligations \ {o} : g[p] = f[p]
  BY <1>3
<1>5. SumThen(r, C) = SumFunctionOnSet(g, Obligations) /\ SumAt(r, C) = SumFunctionOnSet(f, Obligations)
  BY DEF SumThen, SumAt
<1> HIDE DEF f, g
<1>6. SumFunctionOnSet(f, Obligations) \in Nat
  BY <1>1, <1>2, SumNat
<1>7. g[o] \in Int /\ f[o] \in Int
  BY <1>2, <1>4
<1>8. SumFunctionOnSet(g, Obligations) = SumFunctionOnSet(f, Obligations) - f[o] + g[o]
  <2>1. \A p \in Obligations : f[p] \in Int
    BY <1>2
  <2> QED BY ONLY <1>1, <1>4, <1>7, <2>1, o \in Obligations, SumUpdate
<1> QED BY <1>4, <1>5, <1>6, <1>7, <1>8

\* A charge leaves naturals.
LEMMA ChargedNat ==
    ASSUME Accounts, NEW r \in Reserves, Live(reserve[r]), NEW K,
           K = reserve[r] \/ K = RefreshInterest(reserve[r], slot)
    PROVE  /\ K \in ReserveType /\ Sound(K, slot) /\ Live(K)
           /\ K.cumulative_borrow_rate_wads \in Nat /\ K.borrowed_amount_wads \in Nat
           /\ K.last_update.slot \in Nat
           /\ K # reserve[r] => K.last_update.slot = slot
<1>1. Sound(reserve[r], slot) /\ slot \in Nat
  BY LiveSound
<1>2. Sound(K, slot) /\ (K # reserve[r] => K.last_update.slot = slot)
  BY <1>1, RefreshedSound
<1> QED BY <1>2 DEF Sound, ReserveType, UpdateType, Live

\* A reserve that the step charges or not, and then carries on.
LEMMA BookedCarried ==
    ASSUME Accounts, NEW r \in Reserves, Live(reserve[r]), NEW K,
           K = reserve[r] \/ K = RefreshInterest(reserve[r], slot),
           Carried(K, reserve'[r]),
           \A p \in Obligations : OwedAt(obligation'[p], r, K.cumulative_borrow_rate_wads)
                                    = OwedAt(obligation[p], r, K.cumulative_borrow_rate_wads)
    PROVE  Booked(r, 0)
<1>1. /\ K.cumulative_borrow_rate_wads \in Nat /\ K.borrowed_amount_wads \in Nat
      /\ K # reserve[r] => K.last_update.slot = slot
  BY ChargedNat
<1>2. Charges(r, K)
  BY <1>1 DEF Charges, Carried
<1>3. SumThen(r, K.cumulative_borrow_rate_wads) = SumAt(r, K.cumulative_borrow_rate_wads) + 0
  BY <1>1, SumStays
<1>4. reserve'[r].borrowed_amount_wads = K.borrowed_amount_wads + 0 + 0
  BY <1>1 DEF Carried
<1>5. reserve'[r].cumulative_borrow_rate_wads = K.cumulative_borrow_rate_wads
  BY DEF Carried
<1> QED BY <1>2, <1>3, <1>4, <1>5 DEF Booked

\* The reserves as they were.
LEMMA BookedKeeps ==
    ASSUME Accounts, NEW r \in Reserves, Live(reserve[r]), reserve'[r] = reserve[r],
           \A p \in Obligations : OwedAt(obligation'[p], r, reserve[r].cumulative_borrow_rate_wads)
                                    = OwedAt(obligation[p], r, reserve[r].cumulative_borrow_rate_wads)
    PROVE  Booked(r, 0)
<1>1. Carried(reserve[r], reserve'[r])
  BY DEF Carried
<1> QED BY <1>1, BookedCarried

\* One of them charged or not, and carried on.
LEMMA BookedOne ==
    ASSUME Accounts, NEW r \in Reserves, Live(reserve[r]), NEW K,
           K = reserve[r] \/ K = RefreshInterest(reserve[r], slot), NEW X, Carried(K, X),
           reserve' = [reserve EXCEPT ![r] = X], OwesAsBefore
    PROVE  \A q \in Reserves : Live(reserve[q]) => Booked(q, 0)
<1>1. reserve'[r] = X /\ \A q \in Reserves \ {r} : reserve'[q] = reserve[q]
  BY DEF Accounts
<1>2. Booked(r, 0)
  BY <1>1, BookedCarried DEF OwesAsBefore
<1>3. ASSUME NEW q \in Reserves \ {r}, Live(reserve[q])  PROVE Booked(q, 0)
  BY <1>1, <1>3, BookedKeeps DEF OwesAsBefore
<1> QED BY <1>2, <1>3

\* A debt of obligation o that moves by m.
LEMMA BookedMoves ==
    ASSUME Accounts, NEW r \in Reserves, Live(reserve[r]), NEW K,
           K = reserve[r] \/ K = RefreshInterest(reserve[r], slot),
           NEW C, C = K.cumulative_borrow_rate_wads,
           reserve'[r].cumulative_borrow_rate_wads = C,
           reserve'[r].last_update.slot = K.last_update.slot,
           NEW o \in Obligations, NEW Y, obligation' = [obligation EXCEPT ![o] = Y],
           NEW m \in Int, NEW d \in Int,
           OwedAt(Y, r, C) = OwedAt(obligation[o], r, C) + m,
           \/ reserve'[r].borrowed_amount_wads = K.borrowed_amount_wads + m + d
           \/ /\ reserve'[r].borrowed_amount_wads = 0
              /\ m + d =< -K.borrowed_amount_wads
    PROVE  Booked(r, d)
<1>1. C \in Nat /\ (K # reserve[r] => K.last_update.slot = slot)
  BY ChargedNat
<1>2. Charges(r, K)
  BY <1>1 DEF Charges
<1>3. SumThen(r, C) = SumAt(r, C) + m
  BY ONLY <1>1, Accounts, obligation' = [obligation EXCEPT ![o] = Y], m \in Int,
          OwedAt(Y, r, C) = OwedAt(obligation[o], r, C) + m, r \in Reserves,
          o \in Obligations, SumMoves
<1> QED BY <1>2, <1>3 DEF Booked

\* Obligations as they were, or one that owes as it did.
LEMMA NoneOwes ==
    ASSUME obligation' = obligation
    PROVE  OwesAsBefore
BY DEF OwesAsBefore

\* A step that touches one obligation and none of its debts.
LEMMA OneOwes ==
    ASSUME Accounts, NEW o \in Obligations, NEW Y, obligation' = [obligation EXCEPT ![o] = Y],
           \A q, C : OwedAt(Y, q, C) = OwedAt(obligation[o], q, C)
    PROVE  OwesAsBefore
<1>1. obligation'[o] = Y /\ \A p \in Obligations \ {o} : obligation'[p] = obligation[p]
  BY DEF Accounts
<1> QED BY <1>1 DEF OwesAsBefore

\* A step that leaves one obligation with the list of debts it had.
LEMMA SameBorrows ==
    ASSUME Accounts, NEW o \in Obligations, NEW Y, obligation' = [obligation EXCEPT ![o] = Y],
           Live(obligation[o]), Live(Y), Y.borrows = obligation[o].borrows
    PROVE  OwesAsBefore
<1>1. \A q, C : OwedAt(Y, q, C) = OwedAt(obligation[o], q, C)
  BY OwedBorrows
<1> QED BY <1>1, OneOwes

\* A pledge of collateral moves no debt.
LEMMA PledgeOwes ==
    ASSUME Accounts, NEW o \in Obligations, Live(obligation[o]), NEW r, NEW n,
           obligation' = [obligation EXCEPT ![o] = MarkStale(Pledge(@, r, n))]
    PROVE  OwesAsBefore
<1>1. PICK ob : ob = obligation[o]
  OBVIOUS
<1>2. PICK D : D = DOMAIN ob.deposits
  OBVIOUS
<1>3. PICK ds : Pledge(ob, r, n) = [ob EXCEPT !.deposits = ds]
  BY DEF Pledge
<1>4. PICK Y : Y = MarkStale([ob EXCEPT !.deposits = ds])
  OBVIOUS
<1>5. ob \in ObligationType(D)
  BY <1>1, <1>2, LiveSound DEF ObligationSound
<1>6. Y.borrows = ob.borrows /\ Live(Y)
  BY <1>4, <1>5 DEF MarkStale, ObligationType, UpdateType, Live
<1>7. obligation' = [obligation EXCEPT ![o] = Y]
  BY <1>1, <1>3, <1>4
<1> QED BY <1>1, <1>6, <1>7, SameBorrows

\* The release of collateral moves no debt.
LEMMA ReleaseOwes ==
    ASSUME Accounts, NEW o \in Obligations, NEW r \in Reserves, NEW asked \in Nat,
           NEW limited \in BOOLEAN, CanWithdraw(o, r), NEW n,
           n = Withdrawable(obligation[o], r, asked, limited),
           obligation' = [obligation EXCEPT ![o] = MarkStale(Release(@, r, n))]
    PROVE  OwesAsBefore
<1>1. PICK ob : ob = obligation[o]
  OBVIOUS
<1>2. Live(ob) /\ r \in DOMAIN ob.deposits /\ n \in 0..ob.deposits[r].deposited_amount
  BY <1>1, WithdrawFacts
<1>3. ObligationSound(ob, reserve, slot)
  BY <1>1, <1>2, LiveSound
<1>4. PICK b : b = Release(ob, r, n)
  OBVIOUS
<1>5. ObligationSound(b, reserve, slot) /\ b.borrows = ob.borrows
  BY <1>2, <1>3, <1>4, ReleaseSound
<1>6. PICK Y : Y = MarkStale(b)
  OBVIOUS
<1>7. Y.borrows = ob.borrows /\ Live(Y)
  BY <1>5, <1>6, MarkedStale DEF ObligationSound
<1>8. obligation' = [obligation EXCEPT ![o] = Y]
  BY <1>1, <1>4, <1>6
<1> QED BY <1>1, <1>2, <1>7, <1>8, SameBorrows

-----------------------------------------------------------------------------
\* What the operations on a reserve that leave its debts alone carry.
LEMMA CarriedOn ==
    ASSUME NEW K \in ReserveType, NEW liq, NEW coll, NEW amount, NEW c, NEW rl
    PROVE  /\ Carried(K, K) /\ Carried(K, MarkStale(K))
           /\ Carried(K, MarkStale(DepositLiquidity(K, liq, coll)))
           /\ Carried(K, MarkStale(CountOutflow(RedeemCollateral(K, liq, coll), amount)))
           /\ Carried(K, MarkStale(RedeemCollateral(K, liq, coll)))
           /\ Carried(K, MarkStale(RedeemFees(K, amount)))
           /\ Carried(K, MarkStale([K EXCEPT !.config = c, !.rate_limiter = rl]))
<1>1. PICK a, b, d, e : /\ a = DepositLiquidity(K, liq, coll) /\ b = RedeemCollateral(K, liq, coll)
                        /\ d = CountOutflow(b, amount) /\ e = RedeemFees(K, amount)
  OBVIOUS
<1>2. PICK f : f = [K EXCEPT !.config = c, !.rate_limiter = rl]
  OBVIOUS
<1> DEFINE Same(x) == /\ {"last_update", "cumulative_borrow_rate_wads", "borrowed_amount_wads",
                          "rate_limiter"} \subseteq DOMAIN x
                      /\ x.last_update = K.last_update /\ x.borrowed_amount_wads = K.borrowed_amount_wads
                      /\ x.cumulative_borrow_rate_wads = K.cumulative_borrow_rate_wads
<1>3. Same(K)
  BY DEF ReserveType
<1>4. Same(a) /\ Same(b) /\ Same(e) /\ Same(f)
  BY <1>1, <1>2 DEF ReserveType, DepositLiquidity, RedeemCollateral, RedeemFees
<1>5. Same(d)
  BY <1>1, <1>4 DEF CountOutflow
<1>6. ASSUME NEW x, Same(x)  PROVE Carried(K, MarkStale(x))
  <2>1. K.last_update \in UpdateType
    BY DEF ReserveType
  <2> QED BY <1>6, <2>1 DEF MarkStale, Carried, UpdateType
<1>7. Carried(K, K)
  BY DEF Carried
<1> HIDE DEF Same
<1> QED BY <1>1, <1>2, <1>3, <1>4, <1>5, <1>6, <1>7

-----------------------------------------------------------------------------
\* The instructions that move no debt.

\* Every live reserve is booked.
AllBooked == \A q \in Reserves : Live(reserve[q]) => Booked(q, 0)

\* A step that touches neither a reserve nor a debt books every reserve.
LEMMA BookedSame ==
    ASSUME Accounts, reserve' = reserve, OwesAsBefore
    PROVE  AllBooked
BY BookedKeeps DEF AllBooked, OwesAsBefore

\* A new reserve is owed nothing, and leaves the others as they were.
LEMMA InitReserveBooked ==
    ASSUME Accounts, NEW r \in Reserves, NEW u, InitReserve(r, u)
    PROVE  AllBooked
<1>1. PICK X : ~Live(reserve[r]) /\ reserve' = [reserve EXCEPT ![r] = X]
  BY DEF InitReserve
<1>2. OwesAsBefore
  BY NoneOwes DEF InitReserve
<1>3. ASSUME NEW q \in Reserves, Live(reserve[q])  PROVE Booked(q, 0)
  <2>1. reserve'[q] = reserve[q]
    BY <1>1, <1>3 DEF Accounts
  <2> QED BY <1>2, <1>3, <2>1, BookedKeeps DEF OwesAsBefore
<1> QED BY <1>3 DEF AllBooked

\* A new obligation owes nothing.
LEMMA InitObligationBooked ==
    ASSUME Accounts, NEW o \in Obligations, InitObligation(o)
    PROVE  AllBooked
<1>1. PICK Y : Y = NewObligation(slot, OwnerOf[o])
  OBVIOUS
<1>2. ~Live(obligation[o]) /\ obligation' = [obligation EXCEPT ![o] = Y] /\ reserve' = reserve
  BY <1>1 DEF InitObligation
<1>3. \A q : BorrowIndex(Y, q) = 0
  <2>1. Y.borrows = <<>> /\ <<>> \in Seq(BorrowType)
    BY <1>1 DEF NewObligation
  <2>2. \A q : BorrowIndex(Y, q) # 0 => BorrowIndex(Y, q) \in 1..Len(Y.borrows)
    BY <2>1, BorrowIndexFacts
  <2>3. Len(Y.borrows) = 0
    BY <2>1
  <2> QED BY <2>2, <2>3
<1>4. \A q, C : OwedAt(Y, q, C) = OwedAt(obligation[o], q, C)
  BY <1>2, <1>3 DEF OwedAt, DebtOf
<1> QED BY <1>2, <1>4, OneOwes, BookedSame

\* refresh_reserve charges the interest and moves no debt.
LEMMA RefreshReserveBooked ==
    ASSUME Accounts, NEW r \in Reserves, RefreshReserve(r)
    PROVE  AllBooked
<1>1. PICK K : K = RefreshInterest(reserve[r], slot)
  OBVIOUS
<1>2. Live(reserve[r]) /\ reserve' = [reserve EXCEPT ![r] = K] /\ obligation' = obligation
  BY <1>1 DEF RefreshReserve
<1>3. K \in ReserveType
  BY <1>1, <1>2, ChargedNat
<1>4. Carried(K, K) /\ OwesAsBefore
  BY <1>2, <1>3, CarriedOn, NoneOwes
<1> QED BY <1>1, <1>2, <1>4, BookedOne DEF AllBooked

\* redeem_fees pays protocol fees out, and moves no debt.
LEMMA RedeemProtocolFeesBooked ==
    ASSUME Accounts, NEW r \in Reserves, RedeemProtocolFees(r)
    PROVE  AllBooked
<1>1. PICK K, n : K = reserve[r] /\ n = RedeemableFees(reserve[r])
  OBVIOUS
<1>2. PICK X : X = MarkStale(RedeemFees(K, n))
  OBVIOUS
<1>3. Live(reserve[r]) /\ reserve' = [reserve EXCEPT ![r] = X] /\ obligation' = obligation
  BY <1>1, <1>2 DEF RedeemProtocolFees, Fresh
<1>4. K \in ReserveType
  BY <1>1, <1>3, ChargedNat
<1>5. Carried(K, X) /\ OwesAsBefore
  BY <1>2, <1>3, <1>4, CarriedOn, NoneOwes
<1> QED BY <1>1, <1>3, <1>5, BookedOne DEF AllBooked

\* A new configuration moves no debt: the next charge is at its rate, this one is not.
LEMMA UpdateReserveConfigBooked ==
    ASSUME Accounts, NEW r \in Reserves, NEW signer, NEW config, NEW limits,
           UpdateReserveConfig(r, signer, config, limits)
    PROVE  AllBooked
<1>1. PICK K : K = reserve[r]
  OBVIOUS
<1>2. PICK b : b = Reconfigured(K, signer, config, limits)
  OBVIOUS
<1>3. PICK X : X = MarkStale(b)
  OBVIOUS
<1>4. Live(reserve[r]) /\ reserve' = [reserve EXCEPT ![r] = X] /\ obligation' = obligation
  BY <1>1, <1>2, <1>3 DEF UpdateReserveConfig
<1>5. K \in ReserveType
  BY <1>1, <1>4, ChargedNat
<1>6. \E c, rl : b = [K EXCEPT !.config = c, !.rate_limiter = rl]
  <2>1. CASE signer = market.owner
    BY <1>2, <2>1 DEF Reconfigured
  <2>2. CASE signer # market.owner /\ signer = market.risk_authority
    BY <1>2, <2>2 DEF Reconfigured
  <2>3. CASE signer # market.owner /\ signer # market.risk_authority
    <3>1. PICK c : c = FeeConfig(K.config, config)
      OBVIOUS
    <3>2. b = [K EXCEPT !.config = c]
      BY <1>2, <2>3, <3>1 DEF Reconfigured
    <3>3. b = [K EXCEPT !.config = c, !.rate_limiter = K.rate_limiter]
      BY <1>5, <3>2 DEF ReserveType
    <3> QED BY <3>3
  <2> QED BY <2>1, <2>2, <2>3
<1>7. Carried(K, X) /\ OwesAsBefore
  BY <1>3, <1>4, <1>5, <1>6, CarriedOn, NoneOwes
<1> QED BY <1>1, <1>4, <1>7, BookedOne DEF AllBooked

\* deposit_reserve_liquidity charges the interest and moves no debt.
LEMMA DepositBooked ==
    ASSUME Accounts, NEW r \in Reserves, NEW u, NEW amount, Deposit(u, r, amount)
    PROVE  AllBooked
<1>1. PICK K : K = RefreshInterest(reserve[r], slot)
  OBVIOUS
<1>2. PICK X : X = MarkStale(DepositLiquidity(K, amount, LiquidityToCollateral(K, amount)))
  OBVIOUS
<1>3. Live(reserve[r]) /\ reserve' = [reserve EXCEPT ![r] = X] /\ obligation' = obligation
  BY <1>1, <1>2 DEF Deposit
<1>4. K \in ReserveType
  BY <1>1, <1>3, ChargedNat
<1>5. Carried(K, X) /\ OwesAsBefore
  BY <1>2, <1>3, <1>4, CarriedOn, NoneOwes
<1> QED BY <1>1, <1>3, <1>5, BookedOne DEF AllBooked

\* redeem_reserve_collateral, on a reserve charged in this slot, moves no debt.
LEMMA RedeemBooked ==
    ASSUME Accounts, NEW r \in Reserves, NEW u, NEW coll, Redeem(u, r, coll)
    PROVE  AllBooked
<1>1. PICK K, liq : K = reserve[r] /\ liq = CollateralToLiquidity(reserve[r], coll)
  OBVIOUS
<1>2. PICK X : X = MarkStale(CountOutflow(RedeemCollateral(K, liq, coll), FromInt(liq)))
  OBVIOUS
<1>3. Live(reserve[r]) /\ reserve' = [reserve EXCEPT ![r] = X] /\ obligation' = obligation
  BY <1>1, <1>2 DEF Redeem, Fresh
<1>4. K \in ReserveType
  BY <1>1, <1>3, ChargedNat
<1>5. Carried(K, X) /\ OwesAsBefore
  BY <1>2, <1>3, <1>4, CarriedOn, NoneOwes
<1> QED BY <1>1, <1>3, <1>5, BookedOne DEF AllBooked

\* deposit_obligation_collateral moves no debt.
LEMMA DepositObligationBooked ==
    ASSUME Accounts, NEW o \in Obligations, NEW r \in Reserves, NEW coll,
           DepositObligation(o, r, coll)
    PROVE  AllBooked
<1>1. PICK K : K = RefreshInterest(reserve[r], slot)
  OBVIOUS
<1>2. /\ Live(reserve[r]) /\ Live(obligation[o])
      /\ reserve' = [reserve EXCEPT ![r] = MarkStale(K)]
      /\ obligation' = [obligation EXCEPT ![o] = MarkStale(Pledge(@, r, coll))]
  BY <1>1 DEF DepositObligation
<1>3. K \in ReserveType
  BY <1>1, <1>2, ChargedNat
<1>4. Carried(K, MarkStale(K)) /\ OwesAsBefore
  BY <1>2, <1>3, CarriedOn, PledgeOwes
<1> QED BY <1>1, <1>2, <1>4, BookedOne DEF AllBooked

\* deposit_reserve_liquidity_and_obligation_collateral moves no debt.
LEMMA DepositAndPledgeBooked ==
    ASSUME Accounts, NEW o \in Obligations, NEW r \in Reserves, NEW amount,
           DepositAndPledge(o, r, amount)
    PROVE  AllBooked
<1>1. PICK K : K = RefreshInterest(reserve[r], slot)
  OBVIOUS
<1>2. PICK new : new = LiquidityToCollateral(K, amount)
  OBVIOUS
<1>3. PICK X : X = MarkStale(DepositLiquidity(K, amount, new))
  OBVIOUS
<1>4. /\ Live(reserve[r]) /\ Live(obligation[o]) /\ reserve' = [reserve EXCEPT ![r] = X]
      /\ obligation' = [obligation EXCEPT ![o] = MarkStale(Pledge(@, r, new))]
  BY <1>1, <1>2, <1>3 DEF DepositAndPledge
<1>5. K \in ReserveType
  BY <1>1, <1>4, ChargedNat
<1>6. Carried(K, X) /\ OwesAsBefore
  BY <1>3, <1>4, <1>5, CarriedOn, PledgeOwes
<1> QED BY <1>1, <1>4, <1>6, BookedOne DEF AllBooked

\* withdraw_obligation_collateral moves no debt.
LEMMA WithdrawObligationBooked ==
    ASSUME Accounts, NEW o \in Obligations, NEW r \in Reserves, NEW asked \in Nat,
           WithdrawObligation(o, r, asked)
    PROVE  AllBooked
<1>1. PICK n : n = Withdrawable(obligation[o], r, asked, FALSE)
  OBVIOUS
<1>2. /\ CanWithdraw(o, r) /\ reserve' = reserve
      /\ obligation' = [obligation EXCEPT ![o] = MarkStale(Release(@, r, n))]
  BY <1>1 DEF WithdrawObligation
<1>3. OwesAsBefore
  BY <1>1, <1>2, ReleaseOwes
<1> QED BY <1>2, <1>3, BookedSame

\* withdraw_obligation_collateral_and_redeem_reserve_liquidity moves no debt.
LEMMA WithdrawAndRedeemBooked ==
    ASSUME Accounts, NEW o \in Obligations, NEW r \in Reserves, NEW asked \in Nat,
           WithdrawAndRedeem(o, r, asked)
    PROVE  AllBooked
<1>1. PICK n : n = Withdrawable(obligation[o], r, asked, TRUE)
  OBVIOUS
<1>2. PICK K, liq : K = reserve[r] /\ liq = CollateralToLiquidity(reserve[r], n)
  OBVIOUS
<1>3. PICK X : X = MarkStale(CountOutflow(RedeemCollateral(K, liq, n), FromInt(liq)))
  OBVIOUS
<1>4. /\ CanWithdraw(o, r) /\ Live(reserve[r]) /\ reserve' = [reserve EXCEPT ![r] = X]
      /\ obligation' = [obligation EXCEPT ![o] = MarkStale(Release(@, r, n))]
  BY <1>1, <1>2, <1>3 DEF WithdrawAndRedeem, CanWithdraw, Fresh
<1>5. K \in ReserveType
  BY <1>2, <1>4, ChargedNat
<1>6. Carried(K, X) /\ OwesAsBefore
  BY <1>1, <1>3, <1>4, <1>5, CarriedOn, ReleaseOwes
<1> QED BY <1>2, <1>4, <1>6, BookedOne DEF AllBooked

\* refresh_obligation brings every debt to its reserve's rate, at which it
\* already was worth as much.
LEMMA RefreshBooked ==
    ASSUME Accounts, NEW o \in Obligations, RefreshAnObligation(o)
    PROVE  AllBooked
<1>1. PICK ob, Y : ob = obligation[o] /\ Y = RefreshObligation(obligation[o], reserve, slot)
  OBVIOUS
<1>2. /\ Live(ob) /\ CanRefreshObligation(ob, reserve, slot)
      /\ obligation' = [obligation EXCEPT ![o] = Y] /\ reserve' = reserve
  BY <1>1 DEF RefreshAnObligation
<1>3. ObligationSound(ob, reserve, slot) /\ AllSound(reserve, slot) /\ slot \in Nat
  BY <1>1, <1>2, LiveSound DEF AllSound
<1>4. ASSUME NEW q \in Reserves, Live(reserve[q])  PROVE Booked(q, 0)
  <2>1. PICK C : C = reserve[q].cumulative_borrow_rate_wads
    OBVIOUS
  <2>2. OwedAt(Y, q, C) = OwedAt(ob, q, C)
    BY <1>1, <1>2, <1>3, <2>1, RefreshOwed
  <2>3. \A p \in Obligations : OwedAt(obligation'[p], q, C) = OwedAt(obligation[p], q, C)
    <3>1. obligation'[o] = Y /\ \A p \in Obligations \ {o} : obligation'[p] = obligation[p]
      BY <1>2 DEF Accounts
    <3> QED BY <1>1, <2>2, <3>1
  <2> QED BY <1>2, <1>4, <2>1, <2>3, BookedKeeps
<1> QED BY <1>4 DEF AllBooked

-----------------------------------------------------------------------------
\* Borrowing, repaying, forgiving.

\* Obligation o, left Y, owes m more to r and what it owed to the others; the
\* reserve, charged or not (K), is left X with m more, or all it can.
DebtMoves(r, K, X, o, Y, m) ==
    /\ K = reserve[r] \/ K = RefreshInterest(reserve[r], slot)
    /\ reserve' = [reserve EXCEPT ![r] = X]
    /\ X.cumulative_borrow_rate_wads = K.cumulative_borrow_rate_wads
    /\ X.last_update.slot = K.last_update.slot
    /\ obligation' = [obligation EXCEPT ![o] = Y]
    /\ OwedAt(Y, r, K.cumulative_borrow_rate_wads)
          = OwedAt(obligation[o], r, K.cumulative_borrow_rate_wads) + m
    /\ \A q : q # r => \A D : OwedAt(Y, q, D) = OwedAt(obligation[o], q, D)
    /\ \/ X.borrowed_amount_wads = K.borrowed_amount_wads + m
       \/ X.borrowed_amount_wads = 0 /\ m =< -K.borrowed_amount_wads

\* Such a step books every reserve.
LEMMA BookedDebt ==
    ASSUME Accounts, NEW r \in Reserves, Live(reserve[r]), NEW K, NEW X, NEW o \in Obligations,
           NEW Y, NEW m \in Int, DebtMoves(r, K, X, o, Y, m)
    PROVE  AllBooked
<1> PICK C : C = K.cumulative_borrow_rate_wads
  OBVIOUS
<1>0. /\ K = reserve[r] \/ K = RefreshInterest(reserve[r], slot)
      /\ reserve' = [reserve EXCEPT ![r] = X]
      /\ X.cumulative_borrow_rate_wads = C
      /\ X.last_update.slot = K.last_update.slot
      /\ obligation' = [obligation EXCEPT ![o] = Y]
      /\ OwedAt(Y, r, C) = OwedAt(obligation[o], r, C) + m
      /\ \A q : q # r => \A D : OwedAt(Y, q, D) = OwedAt(obligation[o], q, D)
      /\ \/ X.borrowed_amount_wads = K.borrowed_amount_wads + m
         \/ X.borrowed_amount_wads = 0 /\ m =< -K.borrowed_amount_wads
  BY DEF DebtMoves
<1>1. reserve'[r] = X /\ \A q \in Reserves \ {r} : reserve'[q] = reserve[q]
  BY <1>0 DEF Accounts
<1>2. K.borrowed_amount_wads \in Nat
  BY <1>0, ChargedNat
<1>3. Booked(r, 0)
  <2>4. PICK z \in Int : z = 0
    OBVIOUS
  <2>1. \/ reserve'[r].borrowed_amount_wads = K.borrowed_amount_wads + m + z
        \/ reserve'[r].borrowed_amount_wads = 0 /\ m + z =< -K.borrowed_amount_wads
    BY <1>0, <1>1, <1>2, <2>4
  <2>2. /\ reserve'[r].cumulative_borrow_rate_wads = C
        /\ reserve'[r].last_update.slot = K.last_update.slot
    BY <1>0, <1>1
  <2>3. K = reserve[r] \/ K = RefreshInterest(reserve[r], slot)
    BY <1>0
  <2>6. /\ obligation' = [obligation EXCEPT ![o] = Y]
        /\ OwedAt(Y, r, C) = OwedAt(obligation[o], r, C) + m
    BY <1>0
  <2>5. Booked(r, z)
    BY ONLY Accounts, r \in Reserves, Live(reserve[r]), <2>1, <2>2, <2>3,
            <2>6, C = K.cumulative_borrow_rate_wads, o \in Obligations, m \in Int, z \in Int,
            BookedMoves
  <2> QED BY <2>4, <2>5
<1>4. ASSUME NEW q \in Reserves \ {r}, Live(reserve[q])  PROVE Booked(q, 0)
  <2>1. \A p \in Obligations : OwedAt(obligation'[p], q, reserve[q].cumulative_borrow_rate_wads)
                                 = OwedAt(obligation[p], q, reserve[q].cumulative_borrow_rate_wads)
    <3>1. obligation'[o] = Y /\ \A p \in Obligations \ {o} : obligation'[p] = obligation[p]
      BY <1>0 DEF Accounts
    <3> QED BY <1>0, <3>1
  <2> QED BY <1>1, <1>4, <2>1, BookedKeeps
<1> QED BY <1>3, <1>4 DEF AllBooked

\* A flag or a release changes no debt.
LEMMA MarkedOwes ==
    ASSUME NEW ob, NEW R, NEW s, ObligationSound(ob, R, s)
    PROVE  \A q, D : OwedAt(MarkStale(ob), q, D) = OwedAt(ob, q, D)
<1>1. PICK Y : Y = MarkStale(ob)
  OBVIOUS
<1>2. ObligationSound(Y, R, s) /\ Y.borrows = ob.borrows
  BY <1>1, StaleObligation
<1>3. Live(Y) /\ Live(ob)
  BY <1>2, DebtOfEntry
<1> QED BY <1>1, <1>2, <1>3, OwedBorrows

\* The release that a liquidation makes moves no debt.
LEMMA ReleasedOwes ==
    ASSUME NEW ob, NEW R, NEW s, ObligationSound(ob, R, s), NEW r \in DOMAIN ob.deposits,
           NEW n \in 0..ob.deposits[r].deposited_amount
    PROVE  \A q, D : OwedAt(MarkStale(Release(ob, r, n)), q, D) = OwedAt(ob, q, D)
<1>1. PICK b : b = Release(ob, r, n)
  OBVIOUS
<1>2. ObligationSound(b, R, s) /\ b.borrows = ob.borrows
  BY <1>1, ReleaseSound
<1>3. Live(b) /\ Live(ob)
  BY <1>2, DebtOfEntry
<1>4. \A q, D : OwedAt(b, q, D) = OwedAt(ob, q, D)
  BY <1>2, <1>3, OwedBorrows
<1>5. \A q, D : OwedAt(MarkStale(b), q, D) = OwedAt(b, q, D)
  BY <1>2, MarkedOwes
<1> QED BY <1>1, <1>4, <1>5

\* Entry i of ob is brought up to the rate C (e) and the obligation is then b:
\* what it owes is as it was.
EntryAccrues(ob, R, s, i, C, e, b) ==
    /\ ObligationSound(ob, R, s) /\ i \in 1..Len(ob.borrows)
    /\ e = Accrue(ob.borrows[i], C) /\ e.cumulative_borrow_rate_wads = C
    /\ e.borrow_reserve = ob.borrows[i].borrow_reserve
    /\ ObligationSound(b, R, s) /\ b.borrows = [ob.borrows EXCEPT ![i] = e]

\* At the rate C it owes what it owed, and to the others the same at any rate.
LEMMA AccruedOwes ==
    ASSUME NEW ob, NEW R, NEW s, NEW i, NEW C, NEW e, NEW b, EntryAccrues(ob, R, s, i, C, e, b)
    PROVE  \A d : d = ob.borrows[i].borrow_reserve =>
              /\ OwedAt(b, d, C) = OwedAt(ob, d, C)
              /\ \A q : q # d => \A D : OwedAt(b, q, D) = OwedAt(ob, q, D)
<1>0. /\ ObligationSound(ob, R, s) /\ i \in 1..Len(ob.borrows)
      /\ e = Accrue(ob.borrows[i], C) /\ e.cumulative_borrow_rate_wads = C
      /\ e.borrow_reserve = ob.borrows[i].borrow_reserve
      /\ ObligationSound(b, R, s) /\ b.borrows = [ob.borrows EXCEPT ![i] = e]
  BY DEF EntryAccrues
<1>1. TAKE d
<1>2. HAVE d = ob.borrows[i].borrow_reserve
<1>3. PICK bs : bs = b.borrows
  OBVIOUS
<1>6. ObligationSound(b, R, s) /\ b.borrows = bs
  BY <1>0, <1>3
<1>4. Len(bs) = Len(ob.borrows) /\ bs[i] = e /\ \A k \in 1..Len(bs) : k # i => bs[k] = ob.borrows[k]
  <2>1. ob.borrows \in Seq(BorrowType)
    BY <1>0 DEF ObligationSound, DebtsSound
  <2> QED BY <1>0, <1>3, <2>1
<1>7. OwedAt(b, d, C) = OwedAt(ob, d, C)
  <2>5. ObligationSound(ob, R, s) /\ i \in 1..Len(ob.borrows)
    BY <1>0
  <2>1. OwedAt(ob, ob.borrows[i].borrow_reserve, C) = Accrue(ob.borrows[i], C).borrowed_amount_wads
    BY ONLY <2>5, OwedEntry
  <2>2. i \in 1..Len(b.borrows) /\ b.borrows[i] = e
    BY <1>0, <1>4, <1>6
  <2>3. OwedAt(b, b.borrows[i].borrow_reserve, C) = Accrue(b.borrows[i], C).borrowed_amount_wads
    BY ONLY <1>6, <2>2, OwedEntry
  <2>4. Accrue(e, C).borrowed_amount_wads = e.borrowed_amount_wads
    BY <1>0, AccruedAlready
  <2> QED BY <1>0, <1>2, <2>1, <2>2, <2>3, <2>4
<1>8. ASSUME NEW q, q # d  PROVE \A D : OwedAt(b, q, D) = OwedAt(ob, q, D)
  <2>1. \A k \in 1..Len(ob.borrows) : ob.borrows[k].borrow_reserve = q =>
           \E j \in 1..Len(b.borrows) : b.borrows[j] = ob.borrows[k]
    BY <1>0, <1>2, <1>4, <1>6, <1>8
  <2>2. \A j \in 1..Len(b.borrows) : b.borrows[j].borrow_reserve = q =>
           \E k \in 1..Len(ob.borrows) : ob.borrows[k] = b.borrows[j]
    BY <1>0, <1>2, <1>4, <1>6, <1>8
  <2>3. ObligationSound(b, R, s) /\ ObligationSound(ob, R, s)
    BY <1>0
  <2> QED BY ONLY <2>1, <2>2, <2>3, SameEntries, SMTT(60)
<1> QED BY <1>7, <1>8

-----------------------------------------------------------------------------
\* The handlers that move a debt.

\* A loan is added to a debt at the reserve's rate.
LEMMA BorrowBooked ==
    ASSUME Accounts, NEW o \in Obligations, NEW r \in Reserves, NEW asked \in Nat,
           NEW hosted \in BOOLEAN, Borrow(o, r, asked, hosted)
    PROVE  AllBooked
<1>1. PICK ob, K : ob = obligation[o] /\ K = reserve[r]
  OBVIOUS
<1>2. PICK n : n = LoanOf(ob, K, asked).amount
  OBVIOUS
<1>3. PICK C : C = K.cumulative_borrow_rate_wads
  OBVIOUS
<1>4. PICK X : X = MarkStale(Lend(CountOutflow(K, n), n))
  OBVIOUS
<1>5. PICK b : b = Owe(ob, r, C, n)
  OBVIOUS
<1>6. PICK Y : Y = MarkStale(b)
  OBVIOUS
<1>7. /\ Fresh(ob) /\ Live(K) /\ reserve' = [reserve EXCEPT ![r] = X]
      /\ obligation' = [obligation EXCEPT ![o] = Y]
  BY <1>1, <1>2, <1>3, <1>4, <1>5, <1>6 DEF Borrow, Fresh
<1>8. n \in Nat \ {0} /\ Live(ob)
  BY <1>1, <1>2, LoanFacts
<1>9. /\ ObligationSound(ob, reserve, slot) /\ DebtsFresh(ob, reserve, slot)
      /\ Sound(K, slot) /\ K \in ReserveType
  BY <1>1, <1>7, <1>8, LiveSound DEF Sound
<1>10. C \in Nat /\ One =< C /\ K.borrowed_amount_wads \in Nat
  BY <1>3, <1>9, WADAssumption DEF Sound, ReserveType, One
<1>11. \A i \in 1..Len(ob.borrows) : ob.borrows[i].borrow_reserve = r =>
          ob.borrows[i].cumulative_borrow_rate_wads = C
  BY <1>1, <1>3, <1>7, <1>9 DEF Fresh, DebtsFresh
<1>12. /\ OwedAt(b, r, C) = OwedAt(ob, r, C) + n
       /\ \A q : q # r => \A D : OwedAt(b, q, D) = OwedAt(ob, q, D)
  <2>1. Live(reserve[r]) /\ C = reserve[r].cumulative_borrow_rate_wads
    BY <1>1, <1>3, <1>7
  <2>3. MayOwe(ob, reserve, slot, r, C, n)
    BY <1>8, <1>9, <1>10, <1>11, <2>1 DEF MayOwe
  <2>2. LET c == Owe(ob, r, C, n)
        IN  /\ OwedAt(c, r, C) = OwedAt(ob, r, C) + n
            /\ OwedAt(ob, r, C) \in Nat
            /\ \A q : q # r => \A D : OwedAt(c, q, D) = OwedAt(ob, q, D)
    BY ONLY <2>3, OweOwed
  <2> QED BY <1>5, <2>2
<1>13. ObligationSound(b, reserve, slot)
  <2>1. /\ C =< reserve[r].cumulative_borrow_rate_wads
        /\ reserve[r].cumulative_borrow_rate_wads \in Nat /\ Live(reserve[r])
    BY <1>1, <1>3, <1>7, <1>10
  <2> QED BY <1>5, <1>8, <1>9, <1>10, <2>1, OweSound
<1>14. \A q, D : OwedAt(Y, q, D) = OwedAt(b, q, D)
  BY <1>6, <1>13, MarkedOwes
<1>15. /\ X.cumulative_borrow_rate_wads = C /\ X.last_update.slot = K.last_update.slot
       /\ X.borrowed_amount_wads = K.borrowed_amount_wads + n
  <2>1. PICK e : e = Lend(CountOutflow(K, n), n)
    OBVIOUS
  <2>2. /\ e.cumulative_borrow_rate_wads = C /\ e.last_update = K.last_update
        /\ e.borrowed_amount_wads = K.borrowed_amount_wads + n
        /\ {"last_update", "cumulative_borrow_rate_wads", "borrowed_amount_wads"} \subseteq DOMAIN e
    BY <1>3, <1>9, <2>1 DEF Lend, CountOutflow, ReserveType
  <2>3. K.last_update \in UpdateType
    BY <1>9 DEF ReserveType
  <2> QED BY <1>4, <2>1, <2>2, <2>3 DEF MarkStale, UpdateType
<1>16. n \in Int /\ OwedAt(Y, r, C) = OwedAt(obligation[o], r, C) + n
       /\ \A q : q # r => \A D : OwedAt(Y, q, D) = OwedAt(obligation[o], q, D)
  BY <1>1, <1>8, <1>12, <1>14
<1>17. K = reserve[r] \/ K = RefreshInterest(reserve[r], slot)
  BY <1>1
<1>18. Live(reserve[r])
  BY <1>1, <1>7
<1>19. DebtMoves(r, K, X, o, Y, n)
  BY <1>3, <1>7, <1>15, <1>16, <1>17 DEF DebtMoves
<1> QED BY <1>16, <1>18, <1>19, BookedDebt

\* What is left of a total when n is settled.
LEMMA SettledTotal ==
    ASSUME NEW K \in ReserveType, NEW repay, NEW n \in Nat,
           NEW X, X = MarkStale(Settle(K, repay, n))
    PROVE  /\ X.cumulative_borrow_rate_wads = K.cumulative_borrow_rate_wads
           /\ X.last_update.slot = K.last_update.slot
           /\ \/ X.borrowed_amount_wads = K.borrowed_amount_wads + -n
              \/ X.borrowed_amount_wads = 0 /\ -n =< -K.borrowed_amount_wads
<1>1. PICK e : e = Settle(K, repay, n)
  OBVIOUS
<1>2. /\ e.cumulative_borrow_rate_wads = K.cumulative_borrow_rate_wads
      /\ e.last_update = K.last_update
      /\ e.borrowed_amount_wads = K.borrowed_amount_wads - Smaller(n, K.borrowed_amount_wads)
      /\ {"last_update", "cumulative_borrow_rate_wads", "borrowed_amount_wads"} \subseteq DOMAIN e
  BY <1>1 DEF Settle, ReserveType
<1>3. K.last_update \in UpdateType /\ K.borrowed_amount_wads \in Nat
  BY DEF ReserveType
<1>4. /\ X.cumulative_borrow_rate_wads = K.cumulative_borrow_rate_wads
      /\ X.last_update.slot = K.last_update.slot
      /\ X.borrowed_amount_wads = K.borrowed_amount_wads - Smaller(n, K.borrowed_amount_wads)
  BY <1>1, <1>2, <1>3 DEF MarkStale, UpdateType
<1> QED BY <1>3, <1>4 DEF Smaller

\* A debt repaid is brought up to the rate its reserve is charged to, first.
LEMMA RepayBooked ==
    ASSUME Accounts, NEW u, NEW o \in Obligations, NEW r \in Reserves, NEW asked \in Nat,
           Repay(u, o, r, asked)
    PROVE  AllBooked
<1>1. PICK ob : ob = obligation[o]
  OBVIOUS
<1>2. PICK i : i = BorrowIndex(ob, r)
  OBVIOUS
<1>3. PICK K : K = RefreshInterest(reserve[r], slot)
  OBVIOUS
<1>4. PICK C : C = K.cumulative_borrow_rate_wads
  OBVIOUS
<1>5. PICK e : e = Accrue(ob.borrows[i], C)
  OBVIOUS
<1>6. PICK n : n = IF asked = U64_MAX THEN e.borrowed_amount_wads
                   ELSE Smaller(FromInt(asked), e.borrowed_amount_wads)
  OBVIOUS
<1>7. PICK X : X = MarkStale(Settle(K, Ceil(n), n))
  OBVIOUS
<1>8. PICK new : new = [ob EXCEPT !.borrows[i] = e]
  OBVIOUS
<1>9. PICK paid : paid = PayOff(new, i, n)
  OBVIOUS
<1>10. PICK Y : Y = MarkStale(paid)
  OBVIOUS
<1>11. /\ Live(ob) /\ Live(reserve[r]) /\ i \in 1..Len(ob.borrows)
       /\ ob.borrows[i] \in BorrowType /\ ob.borrows[i].borrow_reserve = r
       /\ e \in BorrowType /\ e.borrow_reserve = r /\ e.borrowed_amount_wads # 0
       /\ e.cumulative_borrow_rate_wads = C /\ One =< e.cumulative_borrow_rate_wads
       /\ n \in 0..e.borrowed_amount_wads /\ Ceil(n) \in Nat
  BY <1>1, <1>2, <1>3, <1>4, <1>5, <1>6, RepayFacts
<1>12. reserve' = [reserve EXCEPT ![r] = X] /\ obligation' = [obligation EXCEPT ![o] = Y]
  BY <1>1, <1>2, <1>3, <1>4, <1>5, <1>6, <1>7, <1>8, <1>9, <1>10 DEF Repay
<1>13. /\ K \in ReserveType /\ Sound(K, slot) /\ Live(K) /\ C \in Nat
       /\ K.borrowed_amount_wads \in Nat
  BY <1>3, <1>4, <1>11, ChargedNat
<1>14. n \in Nat
  BY <1>11 DEF BorrowType
\* The obligation beside its reserve as charged.
<1>15. PICK R : R = [reserve EXCEPT ![r] = K]
  OBVIOUS
<1>16. ObligationSound(ob, R, slot) /\ R[r] = K
  <2>1. /\ Sound(reserve[r], slot) /\ slot \in Nat /\ AllSound(reserve, slot)
        /\ DOMAIN reserve = Reserves
    BY <1>11, LiveSound DEF Accounts
  <2>2. Follows(reserve[r], K, slot)
    BY <1>3, <2>1, RefreshedSound
  <2>3. Onward(reserve[r], K, slot)
    BY <2>1, <2>2, FollowsOnward
  <2>4. ReservesOnward(reserve, R, slot)
    BY <1>11, <1>15, <2>1, <2>3, OneChanged
  <2>5. ObligationOK(ob, reserve, slot)
    BY <1>1, <1>11 DEF Accounts
  <2>6. ObligationOK(ob, R, slot)
    BY <2>1, <2>4, <2>5, ObligationOnward
  <2> QED BY <1>15, <2>1, <2>6 DEF ObligationOK
<1>17. DebtSound(e, R)
  BY <1>4, <1>11, <1>13, <1>16 DEF DebtSound
<1>18. /\ ObligationSound(new, R, slot)
       /\ i \in 1..Len(new.borrows) /\ new.borrows[i] = e
       /\ OwedAt(new, r, C) = OwedAt(ob, r, C)
       /\ \A q : q # r => \A D : OwedAt(new, q, D) = OwedAt(ob, q, D)
  <2>1. r = ob.borrows[i].borrow_reserve /\ e.borrow_reserve = r
    BY <1>11
  <2>2. ObligationSound(ob, R, slot)
    BY <1>16
  <2>3. PICK bs : bs = [ob.borrows EXCEPT ![i] = e]
    OBVIOUS
  <2>4. DebtsSound(ob.borrows, R) /\ ob.borrows \in Seq(BorrowType)
    BY <2>2 DEF ObligationSound, DebtsSound
  <2>5. DebtsSound(bs, R)
    BY ONLY <1>11, <1>17, <2>1, <2>3, <2>4, ReplaceSound
  <2>6. LET c == [ob EXCEPT !.borrows = bs]
        IN  ObligationSound(c, R, slot) /\ c.borrows = bs
    BY ONLY <2>2, <2>5, WithBorrows
  <2>7. new = [ob EXCEPT !.borrows = bs]
    BY <1>8, <2>3
  <2>8. ObligationSound(new, R, slot) /\ new.borrows = [ob.borrows EXCEPT ![i] = e]
    BY <2>3, <2>6, <2>7
  <2>9. i \in 1..Len(new.borrows) /\ new.borrows[i] = e
    BY <1>11, <2>4, <2>8
  <2>10. i \in 1..Len(ob.borrows) /\ e.cumulative_borrow_rate_wads = C
         /\ e.borrow_reserve = ob.borrows[i].borrow_reserve
    BY <1>11
  <2>11. \A d : d = ob.borrows[i].borrow_reserve =>
            /\ OwedAt(new, d, C) = OwedAt(ob, d, C)
            /\ \A q : q # d => \A D : OwedAt(new, q, D) = OwedAt(ob, q, D)
    <3>1. EntryAccrues(ob, R, slot, i, C, e, new)
      BY <1>5, <2>2, <2>8, <2>10 DEF EntryAccrues
    <3> QED BY <3>1, AccruedOwes
  <2> QED BY <2>1, <2>8, <2>9, <2>11
<1>19. /\ OwedAt(paid, r, C) = OwedAt(new, r, C) - n
       /\ OwedAt(new, r, C) = e.borrowed_amount_wads
       /\ \A q : q # r => \A D : OwedAt(paid, q, D) = OwedAt(new, q, D)
  <2>1. /\ n \in 0..new.borrows[i].borrowed_amount_wads
        /\ r = new.borrows[i].borrow_reserve /\ C = new.borrows[i].cumulative_borrow_rate_wads
    BY <1>11, <1>18
  <2>2. LET b == PayOff(new, i, n)
        IN  /\ OwedAt(b, r, C) = OwedAt(new, r, C) - n
            /\ OwedAt(new, r, C) = new.borrows[i].borrowed_amount_wads
            /\ \A q : q # r => \A D : OwedAt(b, q, D) = OwedAt(new, q, D)
    BY ONLY <1>18, <2>1, PayOffOwed
  <2> QED BY <1>9, <1>18, <2>2
<1>20. \A q, D : OwedAt(Y, q, D) = OwedAt(paid, q, D)
  <2>1. ObligationSound(paid, R, slot)
    <3>1. n \in 0..new.borrows[i].borrowed_amount_wads
      BY <1>11, <1>18
    <3> QED BY <1>9, <1>18, <3>1, PayOffSound
  <2> QED BY <1>10, <2>1, MarkedOwes
<1>21. /\ -n \in Int /\ OwedAt(Y, r, C) = OwedAt(obligation[o], r, C) + -n
       /\ \A q : q # r => \A D : OwedAt(Y, q, D) = OwedAt(obligation[o], q, D)
  <2>1. e.borrowed_amount_wads \in Nat
    BY <1>11 DEF BorrowType
  <2>2. e.borrowed_amount_wads - n = e.borrowed_amount_wads + -n
    BY <1>14, <2>1
  <2> QED BY <1>1, <1>14, <1>18, <1>19, <1>20, <2>2
<1>22. /\ X.cumulative_borrow_rate_wads = C /\ X.last_update.slot = K.last_update.slot
       /\ \/ X.borrowed_amount_wads = K.borrowed_amount_wads + -n
          \/ X.borrowed_amount_wads = 0 /\ -n =< -K.borrowed_amount_wads
  BY <1>4, <1>7, <1>13, <1>14, SettledTotal
<1>23. K = reserve[r] \/ K = RefreshInterest(reserve[r], slot)
  BY <1>3
<1>24. Live(reserve[r])
  BY <1>11
<1>25. DebtMoves(r, K, X, o, Y, -n)
  BY <1>4, <1>12, <1>21, <1>22, <1>23 DEF DebtMoves
<1> QED BY <1>21, <1>24, <1>25, BookedDebt

\* A fresh debt is at its reserve's rate, and a part of it is forgiven to both.
LEMMA ForgiveDebtBooked ==
    ASSUME Accounts, NEW o \in Obligations, NEW r \in Reserves, NEW asked \in Nat,
           ForgiveDebt(o, r, asked)
    PROVE  AllBooked
<1>1. PICK ob, K : ob = obligation[o] /\ K = reserve[r]
  OBVIOUS
<1>2. PICK i : i = BorrowIndex(ob, r)
  OBVIOUS
<1>3. PICK n : n = Smaller(FromInt(asked), Smaller(ob.borrows[i].borrowed_amount_wads, Forgivable(K)))
  OBVIOUS
<1>4. PICK C : C = K.cumulative_borrow_rate_wads
  OBVIOUS
<1>5. PICK X : X = MarkStale(Forgive(K, n))
  OBVIOUS
<1>6. PICK paid : paid = PayOff(ob, i, n)
  OBVIOUS
<1>7. PICK Y : Y = MarkStale(paid)
  OBVIOUS
<1>8. /\ Live(ob) /\ Live(K) /\ Fresh(ob) /\ Forgivable(K) >= 0 /\ i # 0
      /\ n =< K.borrowed_amount_wads
      /\ reserve' = [reserve EXCEPT ![r] = X]
      /\ obligation' = [obligation EXCEPT ![o] = Y]
  BY <1>1, <1>2, <1>3, <1>5, <1>6, <1>7 DEF ForgiveDebt, Fresh
<1>9. /\ Sound(K, slot) /\ slot \in Nat /\ K \in ReserveType
      /\ ObligationSound(ob, reserve, slot) /\ DebtsFresh(ob, reserve, slot)
  BY <1>1, <1>8, LiveSound DEF Sound
<1>10. i \in 1..Len(ob.borrows) /\ ob.borrows[i].borrow_reserve = r
  BY <1>2, <1>8, <1>9, BorrowIndexFacts DEF ObligationSound, DebtsSound
<1>11. n \in 0..ob.borrows[i].borrowed_amount_wads /\ n \in Nat
  <2>1. ob.borrows[i].borrowed_amount_wads \in Nat
    <3>1. ob.borrows[i] \in BorrowType
      BY <1>9, <1>10 DEF ObligationSound, DebtsSound
    <3> QED BY <3>1 DEF BorrowType
  <2>2. Forgivable(K) \in Int
    <3>1. TotalSupply(K) \in Int /\ K.mint_total_supply \in Nat
      BY <1>9, SupplyInt DEF Sound, ReserveType
    <3>2. Mul(FromInt(K.mint_total_supply), FromPercent(1)) \in Nat
      BY <3>1, ConversionNat, PercentFacts, DecimalNat
    <3> QED BY <3>1, <3>2 DEF Forgivable
  <2>3. FromInt(asked) \in Nat
    BY ConversionNat
  <2> QED BY <1>3, <1>8, <2>1, <2>2, <2>3 DEF Smaller
<1>12. C = ob.borrows[i].cumulative_borrow_rate_wads
  BY <1>1, <1>4, <1>8, <1>9, <1>10 DEF Fresh, DebtsFresh
<1>13. /\ OwedAt(paid, r, C) = OwedAt(ob, r, C) - n
       /\ OwedAt(ob, r, C) = ob.borrows[i].borrowed_amount_wads
       /\ \A q : q # r => \A D : OwedAt(paid, q, D) = OwedAt(ob, q, D)
  <2>1. r = ob.borrows[i].borrow_reserve
    BY <1>10
  <2>2. LET b == PayOff(ob, i, n)
        IN  /\ OwedAt(b, r, C) = OwedAt(ob, r, C) - n
            /\ OwedAt(ob, r, C) = ob.borrows[i].borrowed_amount_wads
            /\ \A q : q # r => \A D : OwedAt(b, q, D) = OwedAt(ob, q, D)
    BY ONLY <1>9, <1>10, <1>11, <1>12, <2>1, PayOffOwed
  <2> QED BY <1>6, <2>2
<1>14. \A q, D : OwedAt(Y, q, D) = OwedAt(paid, q, D)
  <2>1. ObligationSound(paid, reserve, slot)
    BY <1>6, <1>9, <1>10, <1>11, PayOffSound
  <2> QED BY <1>7, <2>1, MarkedOwes
<1>15. /\ -n \in Int /\ OwedAt(Y, r, C) = OwedAt(obligation[o], r, C) + -n
       /\ \A q : q # r => \A D : OwedAt(Y, q, D) = OwedAt(obligation[o], q, D)
  <2>1. ob.borrows[i].borrowed_amount_wads - n = ob.borrows[i].borrowed_amount_wads + -n
    BY <1>11
  <2> QED BY <1>1, <1>11, <1>13, <1>14, <2>1
<1>16. /\ X.cumulative_borrow_rate_wads = C /\ X.last_update.slot = K.last_update.slot
       /\ X.borrowed_amount_wads = K.borrowed_amount_wads + -n
  <2>1. PICK e : e = Forgive(K, n)
    OBVIOUS
  <2>2. /\ e.cumulative_borrow_rate_wads = C /\ e.last_update = K.last_update
        /\ e.borrowed_amount_wads = K.borrowed_amount_wads - n
        /\ {"last_update", "cumulative_borrow_rate_wads", "borrowed_amount_wads"} \subseteq DOMAIN e
    BY <1>4, <1>9, <2>1 DEF Forgive, ReserveType
  <2>3. K.last_update \in UpdateType /\ K.borrowed_amount_wads \in Nat
    BY <1>9 DEF ReserveType
  <2>4. K.borrowed_amount_wads - n = K.borrowed_amount_wads + -n
    BY <1>11, <2>3
  <2> QED BY <1>5, <2>1, <2>2, <2>3, <2>4 DEF MarkStale, UpdateType
<1>17. K = reserve[r] \/ K = RefreshInterest(reserve[r], slot)
  BY <1>1
<1>18. Live(reserve[r])
  BY <1>1, <1>8
<1>19. DebtMoves(r, K, X, o, Y, -n)
  BY <1>4, <1>8, <1>15, <1>16, <1>17 DEF DebtMoves
<1> QED BY <1>15, <1>18, <1>19, BookedDebt

-----------------------------------------------------------------------------
\* Liquidation.

\* A reserve charged a second time in its slot is carried as it is.
LEMMA ChargedAgain ==
    ASSUME NEW K, slot \in Nat, Sound(K, slot), K.last_update.slot = slot
    PROVE  Carried(K, RefreshInterest(K, slot))
<1>1. PICK b : b = RefreshInterest(K, slot)
  OBVIOUS
<1>2. /\ b.last_update = UpdatedAt(slot)
      /\ b.cumulative_borrow_rate_wads = K.cumulative_borrow_rate_wads
      /\ b.borrowed_amount_wads = K.borrowed_amount_wads
  BY <1>1, RefreshFacts DEF Sound
<1> QED BY <1>1, <1>2 DEF Carried, UpdatedAt

\* What a liquidation leaves of every reserve: repaid, whether or not the
\* collateral's is redeemed from.
LEMMA LiquidateCarries ==
    ASSUME Accounts, NEW u, NEW o \in Obligations, NEW debt \in Reserves, NEW coll \in Reserves,
           NEW asked \in Nat, Liquidate(u, o, debt, coll, asked),
           NEW part, part = LiquidationOf(obligation[o], BorrowIndex(obligation[o], debt), coll, asked),
           NEW X, X = MarkStale(Settle(reserve[debt], part.repay, part.settle))
    PROVE  /\ Carried(X, reserve'[debt])
           /\ \A q \in Reserves \ {debt} : Carried(reserve[q], reserve'[q])
<1>1. PICK repaid : repaid = [reserve EXCEPT ![debt] = MarkStale(Settle(@, part.repay, part.settle))]
  OBVIOUS
<1>2. PICK res : res = RefreshInterest(repaid[coll], slot)
  OBVIOUS
<1>3. PICK n : n = Smaller(part.withdraw, LiquidityToCollateral(res, res.available_amount))
  OBVIOUS
<1>4. PICK Z : Z = MarkStale(RedeemCollateral(res, CollateralToLiquidity(res, n), n))
  OBVIOUS
<1>5. /\ CanLiquidate(o, debt, coll)
      /\ reserve' = [repaid EXCEPT ![coll] = res] \/ reserve' = [repaid EXCEPT ![coll] = Z]
  BY <1>1, <1>2, <1>3, <1>4 DEF Liquidate
<1>6. /\ Live(reserve[debt]) /\ Live(reserve[coll]) /\ reserve[coll].last_update.slot = slot
  <2>1. /\ Live(reserve[debt]) /\ Live(reserve[coll]) /\ ~IsStale(reserve[coll], slot)
    BY <1>5 DEF CanLiquidate, Fresh
  <2>2. reserve[coll].last_update.slot \in Nat /\ reserve[coll].last_update.slot =< slot /\ slot \in Nat
    BY <2>1, LiveSound DEF Sound, ReserveType, UpdateType
  <2> QED BY <2>1, <2>2 DEF IsStale
<1>7. part.repay \in Nat /\ part.settle \in Nat /\ part.withdraw \in Nat
  BY <1>5, LiquidateFacts
<1>8. ReservesOnward(reserve, repaid, slot) /\ \A q \in Reserves \ {debt} : repaid[q] = reserve[q]
  <2>1. PICK repay, settle, withdraw : /\ repay = part.repay /\ settle = part.settle
                                       /\ withdraw = part.withdraw
    OBVIOUS
  <2>2. LET again == [reserve EXCEPT ![debt] = MarkStale(Settle(@, repay, settle))]
        IN  ReservesOnward(reserve, again, slot) /\ \A q \in Reserves \ {debt} : again[q] = reserve[q]
    BY <1>6, <1>7, <2>1, RedeemedFacts
  <2> QED BY <1>1, <2>1, <2>2
<1>9. repaid[debt] = X /\ DOMAIN repaid = Reserves
  BY <1>1 DEF Accounts
<1>10. Sound(repaid[coll], slot) /\ repaid[coll].last_update.slot = slot /\ slot \in Nat
  BY <1>6, <1>8, LiveSound DEF ReservesOnward, Onward
<1>11. Carried(repaid[coll], res)
  BY <1>2, <1>10, ChargedAgain
<1>12. res \in ReserveType
  BY <1>2, <1>10, RefreshedSound DEF Sound
<1>13. Carried(res, Z) /\ Carried(res, res)
  BY <1>4, <1>12, CarriedOn
<1>14. Carried(repaid[coll], reserve'[coll]) /\ \A q \in Reserves \ {coll} : reserve'[q] = repaid[q]
  <2>1. reserve'[coll] = res \/ reserve'[coll] = Z
    BY <1>5, <1>9
  <2>2. \A q \in Reserves \ {coll} : reserve'[q] = repaid[q]
    BY <1>5, <1>9
  <2> QED BY <1>11, <1>13, <2>1, <2>2 DEF Carried
<1>15. \A q \in Reserves : Carried(repaid[q], reserve'[q])
  BY <1>14 DEF Carried
<1> QED BY <1>8, <1>9, <1>15

\* A liquidation takes off the debt what it takes off the reserve's total, and
\* moves no debt to another reserve, whichever of the two reserves coincide.
LEMMA LiquidateBooked ==
    ASSUME Accounts, NEW u, NEW o \in Obligations, NEW debt \in Reserves, NEW coll \in Reserves,
           NEW asked \in Nat, Liquidate(u, o, debt, coll, asked)
    PROVE  AllBooked
<1>1. PICK ob, i : ob = obligation[o] /\ i = BorrowIndex(obligation[o], debt)
  OBVIOUS
<1>2. PICK part : part = LiquidationOf(ob, i, coll, asked)
  OBVIOUS
<1>3. PICK settle, withdraw : settle = part.settle /\ withdraw = part.withdraw
  OBVIOUS
<1>4. PICK K : K = reserve[debt]
  OBVIOUS
<1>5. PICK C : C = K.cumulative_borrow_rate_wads
  OBVIOUS
<1>6. PICK X : X = MarkStale(Settle(K, part.repay, settle))
  OBVIOUS
<1>7. PICK paid : paid = PayOff(ob, i, settle)
  OBVIOUS
<1>8. PICK Y : Y = MarkStale(Release(paid, coll, withdraw))
  OBVIOUS
<1>9. /\ CanLiquidate(o, debt, coll) /\ obligation' = [obligation EXCEPT ![o] = Y]
  BY <1>1, <1>2, <1>3, <1>7, <1>8 DEF Liquidate
<1>10. /\ Live(ob) /\ Live(K) /\ Live(reserve[coll])
       /\ i \in 1..Len(ob.borrows) /\ coll \in DOMAIN ob.deposits
       /\ settle \in 0..ob.borrows[i].borrowed_amount_wads
       /\ withdraw \in 0..ob.deposits[coll].deposited_amount
       /\ settle \in Nat
  BY <1>1, <1>2, <1>3, <1>4, <1>9, LiquidateFacts
<1>11. /\ ObligationSound(ob, reserve, slot) /\ DebtsFresh(ob, reserve, slot)
       /\ Sound(K, slot) /\ K \in ReserveType
  BY <1>1, <1>4, <1>10, LiveSound DEF Sound
<1>12. ob.borrows[i].borrow_reserve = debt
  BY <1>1, <1>10, <1>11, BorrowIndexFacts DEF ObligationSound, DebtsSound
<1>13. C = ob.borrows[i].cumulative_borrow_rate_wads
  BY <1>1, <1>4, <1>5, <1>9, <1>10, <1>11, <1>12 DEF CanLiquidate, Fresh, DebtsFresh
<1>14. /\ OwedAt(paid, debt, C) = OwedAt(ob, debt, C) - settle
       /\ OwedAt(ob, debt, C) = ob.borrows[i].borrowed_amount_wads
       /\ \A q : q # debt => \A D : OwedAt(paid, q, D) = OwedAt(ob, q, D)
  <2>1. debt = ob.borrows[i].borrow_reserve /\ ObligationSound(ob, reserve, slot)
        /\ i \in 1..Len(ob.borrows) /\ settle \in 0..ob.borrows[i].borrowed_amount_wads
    BY <1>10, <1>11, <1>12
  <2>2. LET b == PayOff(ob, i, settle)
        IN  /\ OwedAt(b, debt, C) = OwedAt(ob, debt, C) - settle
            /\ OwedAt(ob, debt, C) = ob.borrows[i].borrowed_amount_wads
            /\ \A q : q # debt => \A D : OwedAt(b, q, D) = OwedAt(ob, q, D)
    BY ONLY <1>13, <2>1, PayOffOwed
  <2> QED BY <1>7, <2>2
<1>15. \A q, D : OwedAt(Y, q, D) = OwedAt(paid, q, D)
  <2>1. ObligationSound(paid, reserve, slot) /\ paid.deposits = ob.deposits
    BY <1>7, <1>10, <1>11, PayOffSound
  <2>2. coll \in DOMAIN paid.deposits /\ withdraw \in 0..paid.deposits[coll].deposited_amount
    BY <1>10, <2>1
  <2> QED BY ONLY <1>8, <2>1, <2>2, ReleasedOwes
<1>16. ob.borrows[i].borrowed_amount_wads \in Nat
  <2>1. ob.borrows[i] \in BorrowType
    BY <1>10, <1>11 DEF ObligationSound, DebtsSound
  <2> QED BY <2>1 DEF BorrowType
<1>17. /\ OwedAt(Y, debt, C) = OwedAt(obligation[o], debt, C) + -settle /\ -settle \in Int
       /\ \A q : q # debt => \A D : OwedAt(Y, q, D) = OwedAt(obligation[o], q, D)
  <2>1. ob.borrows[i].borrowed_amount_wads - settle = ob.borrows[i].borrowed_amount_wads + -settle
    BY <1>10, <1>16
  <2> QED BY <1>1, <1>10, <1>14, <1>15, <2>1
<1>18. /\ Carried(X, reserve'[debt])
       /\ \A q \in Reserves \ {debt} : Carried(reserve[q], reserve'[q])
  BY <1>1, <1>2, <1>3, <1>4, <1>6, LiquidateCarries
<1>19. /\ X.cumulative_borrow_rate_wads = C /\ X.last_update.slot = K.last_update.slot
       /\ \/ X.borrowed_amount_wads = K.borrowed_amount_wads + -settle
          \/ X.borrowed_amount_wads = 0 /\ -settle =< -K.borrowed_amount_wads
  BY <1>5, <1>6, <1>10, <1>11, SettledTotal
<1>20. Booked(debt, 0)
  <2>1. PICK z \in Int : z = 0
    OBVIOUS
  <2>2. PICK m \in Int : m = -settle
    BY <1>17
  <2>3. K.borrowed_amount_wads \in Nat
    BY <1>11 DEF ReserveType
  <2>4. \/ reserve'[debt].borrowed_amount_wads = K.borrowed_amount_wads + m + z
        \/ reserve'[debt].borrowed_amount_wads = 0 /\ m + z =< -K.borrowed_amount_wads
    BY <1>18, <1>19, <2>1, <2>2, <2>3 DEF Carried
  <2>5. /\ reserve'[debt].cumulative_borrow_rate_wads = C
        /\ reserve'[debt].last_update.slot = K.last_update.slot
    BY <1>18, <1>19 DEF Carried
  <2>6. OwedAt(Y, debt, C) = OwedAt(obligation[o], debt, C) + m
    BY <1>17, <2>2
  <2>7. Live(reserve[debt]) /\ (K = reserve[debt] \/ K = RefreshInterest(reserve[debt], slot))
    BY <1>4, <1>10
  <2>8. Booked(debt, z)
    BY ONLY Accounts, debt \in Reserves, o \in Obligations, <1>5, <1>9, <2>4, <2>5, <2>6, <2>7,
            m \in Int, z \in Int, BookedMoves
  <2> QED BY <2>1, <2>8
<1>21. ASSUME NEW q \in Reserves \ {debt}, Live(reserve[q])  PROVE Booked(q, 0)
  <2>1. \A p \in Obligations : OwedAt(obligation'[p], q, reserve[q].cumulative_borrow_rate_wads)
                                 = OwedAt(obligation[p], q, reserve[q].cumulative_borrow_rate_wads)
    <3>1. obligation'[o] = Y /\ \A p \in Obligations \ {o} : obligation'[p] = obligation[p]
      BY <1>9 DEF Accounts
    <3> QED BY <1>17, <3>1
  <2> QED BY <1>18, <1>21, <2>1, BookedCarried
<1> QED BY <1>20, <1>21 DEF AllBooked

-----------------------------------------------------------------------------
\* Every step.

\* Every step books every live reserve.
LEMMA StepBooked ==
    ASSUME Accounts, [Next]_vars
    PROVE  AllBooked
<1>1. ASSUME obligation' = obligation, reserve' = reserve  PROVE AllBooked
  BY <1>1, NoneOwes, BookedSame
<1>2. CASE UNCHANGED vars \/ Tick
  BY <1>1, <1>2 DEF vars, Tick
<1>3. CASE OpenAccounts
  BY <1>3, InitReserveBooked, InitObligationBooked DEF OpenAccounts
<1>4. CASE Upkeep
  BY <1>4, RefreshReserveBooked, RefreshBooked, RedeemProtocolFeesBooked DEF Upkeep
<1>5. CASE Pool
  BY <1>5, DepositBooked, RedeemBooked DEF Pool
<1>6. CASE Collateral
  <2>1. ASSUME NEW o \in Obligations, NEW r \in Reserves, NEW n \in PledgeAmounts,
               DepositObligation(o, r, n) \/ DepositAndPledge(o, r, n)
        PROVE  AllBooked
    BY <2>1, DepositObligationBooked, DepositAndPledgeBooked
  <2>2. ASSUME NEW o \in Obligations, NEW r \in Reserves, NEW n \in WithdrawAmounts,
               WithdrawObligation(o, r, n) \/ WithdrawAndRedeem(o, r, n)
        PROVE  AllBooked
    BY <2>2, AmountsAssumption, WithdrawObligationBooked, WithdrawAndRedeemBooked
  <2> QED BY <1>6, <2>1, <2>2 DEF Collateral
<1>7. CASE Debt
  BY <1>7, AmountsAssumption, BorrowBooked, RepayBooked, ForgiveDebtBooked DEF Debt
<1>8. CASE Liquidations
  BY <1>8, AmountsAssumption, LiquidateBooked DEF Liquidations
<1>9. CASE Administration
  <2>1. CASE \E r \in Reserves, signer \in Admins, c \in Reconfigs, l \in LimiterConfigs :
                UpdateReserveConfig(r, signer, c, l)
    BY <2>1, UpdateReserveConfigBooked
  <2>2. CASE \/ \E owner, risk \in Admins, u \in Whitelists, l \in LimiterConfigs :
                   SetOwnerAndConfig(owner, risk, u, l)
             \/ \E risk \in Admins : SetRiskAuthority(risk)
    BY <1>1, <2>2 DEF SetOwnerAndConfig, SetRiskAuthority
  <2> QED BY <1>9, <2>1, <2>2 DEF Administration
<1> QED BY <1>2, <1>3, <1>4, <1>5, <1>6, <1>7, <1>8, <1>9 DEF Next

\* No reserve is closed.
StaysOpen == \A q \in Reserves : Live(reserve[q]) => Live(reserve'[q])

\* The instructions that change one reserve close none.
LEMMA HandledOpen ==
    ASSUME Accounts, NEW r \in Reserves, NEW X, NEW d, Handled(r, X, d)
    PROVE  StaysOpen
<1>1. reserve' = [reserve EXCEPT ![r] = X] /\ Live(X)
  BY DEF Handled, Onward, Sound, ReserveType, Live
<1> QED BY <1>1 DEF StaysOpen, Accounts

\* No step closes a reserve.
LEMMA StepOpen ==
    ASSUME Accounts, [Next]_vars
    PROVE  StaysOpen
<1>1. ASSUME reserve' = reserve  PROVE StaysOpen
  BY <1>1 DEF StaysOpen
<1>2. CASE UNCHANGED vars \/ Tick
  BY <1>1, <1>2 DEF vars, Tick
<1>3. CASE OpenAccounts
  <2>1. CASE \E r \in Reserves, u \in Users : InitReserve(r, u)
    <3>1. PICK r \in Reserves : ~Live(reserve[r]) /\ \E X : reserve' = [reserve EXCEPT ![r] = X]
      BY <2>1 DEF InitReserve
    <3> QED BY <3>1 DEF StaysOpen, Accounts
  <2>2. CASE \E o \in Obligations : InitObligation(o)
    BY <1>1, <2>2 DEF InitObligation
  <2> QED BY <1>3, <2>1, <2>2 DEF OpenAccounts
<1>4. CASE Upkeep
  BY <1>1, <1>4, RefreshReserveDoes, RedeemProtocolFeesDoes, HandledOpen DEF Upkeep, RefreshAnObligation
<1>5. CASE Pool
  BY <1>5, AmountsAssumption, DepositDoes, RedeemDoes, HandledOpen DEF Pool
<1>6. CASE Collateral
  <2>1. ASSUME NEW o \in Obligations, NEW r \in Reserves, NEW n \in PledgeAmounts,
               DepositObligation(o, r, n) \/ DepositAndPledge(o, r, n)
        PROVE  StaysOpen
    BY <2>1, AmountsAssumption, DepositObligationDoes, DepositAndPledgeDoes, HandledOpen
  <2>2. ASSUME NEW o \in Obligations, NEW r \in Reserves, NEW n \in WithdrawAmounts,
               WithdrawObligation(o, r, n) \/ WithdrawAndRedeem(o, r, n)
        PROVE  StaysOpen
    BY <1>1, <2>2, AmountsAssumption, WithdrawAndRedeemDoes, HandledOpen DEF WithdrawObligation
  <2> QED BY <1>6, <2>1, <2>2 DEF Collateral
<1>7. CASE Debt
  BY <1>7, AmountsAssumption, BorrowDoes, RepayDoes, ForgiveDebtDoes, HandledOpen DEF Debt
<1>8. CASE Liquidations
  <2>1. PICK u \in Users, o \in Obligations, debt \in Reserves, coll \in Reserves,
             n \in LiquidateAmounts : Liquidate(u, o, debt, coll, n)
    BY <1>8 DEF Liquidations
  <2>2. ReservesOnward(reserve, reserve', slot)
    BY <2>1, AmountsAssumption, LiquidateDoes DEF LiquidationDone
  <2> QED BY <2>2 DEF ReservesOnward, StaysOpen
<1>9. CASE Administration
  <2>1. CASE \E r \in Reserves, signer \in Admins, c \in Reconfigs, l \in LimiterConfigs :
                UpdateReserveConfig(r, signer, c, l)
    BY <2>1, UpdateReserveConfigDoes, HandledOpen
  <2>2. CASE \/ \E owner, risk \in Admins, u \in Whitelists, l \in LimiterConfigs :
                   SetOwnerAndConfig(owner, risk, u, l)
             \/ \E risk \in Admins : SetRiskAuthority(risk)
    BY <1>1, <2>2 DEF SetOwnerAndConfig, SetRiskAuthority
  <2> QED BY <1>9, <2>1, <2>2 DEF Administration
<1> QED BY <1>2, <1>3, <1>4, <1>5, <1>6, <1>7, <1>8, <1>9 DEF Next

\* The differences a booked step is between are integers.
LEMMA UnmatchedInt ==
    ASSUME Accounts, Accounts', NEW r \in Reserves, Live(reserve[r]), Live(reserve'[r]),
           NEW d \in Int, Booked(r, d)
    PROVE  Unmatched(r) \in Int /\ Unmatched(r)' \in Int
<1>1. PICK K, m : /\ m \in Int /\ Charges(r, K)
                  /\ reserve'[r].cumulative_borrow_rate_wads = K.cumulative_borrow_rate_wads
                  /\ SumThen(r, K.cumulative_borrow_rate_wads)
                        = SumAt(r, K.cumulative_borrow_rate_wads) + m
  BY DEF Booked
<1>2. ASSUME NEW C \in Nat  PROVE SumAt(r, C) \in Nat
  <2>1. \A o \in Obligations : OwedAt(obligation[o], r, C) \in Nat
    BY OwedNat
  <2>2. SumFunctionOnSet([o \in Obligations |-> OwedAt(obligation[o], r, C)], Obligations) \in Nat
    BY <2>1, AccountsAssumption, SumNat
  <2> QED BY <2>2 DEF SumAt
<1>3. PICK C, D : C = reserve[r].cumulative_borrow_rate_wads /\ D = K.cumulative_borrow_rate_wads
  OBVIOUS
<1>4. /\ C \in Nat /\ reserve[r].borrowed_amount_wads \in Int
      /\ D \in Nat /\ reserve'[r].borrowed_amount_wads \in Int
  <2>1. Sound(reserve[r], slot) /\ Sound(reserve'[r], slot')
    BY LiveSound DEF Accounts, AllSound
  <2> QED BY <1>1, <1>3, <2>1 DEF Sound, ReserveType
<1>5. Unmatched(r) \in Int
  <2>1. OwedTo(r) = SumAt(r, C)
    BY <1>3 DEF OwedTo, AccruedDebt, SumAt, OwedAt
  <2> QED BY <1>2, <1>4, <2>1 DEF Unmatched
<1>6. Unmatched(r)' \in Int
  <2>1. OwedTo(r)' = SumThen(r, D)
    BY <1>1, <1>3 DEF OwedTo, AccruedDebt, SumThen, OwedAt
  <2>2. Unmatched(r)' = OwedTo(r)' - reserve'[r].borrowed_amount_wads
    BY DEF Unmatched
  <2> QED BY <1>1, <1>2, <1>3, <1>4, <2>1, <2>2
<1> QED BY <1>5, <1>6

\* What a step so booked keeps, when no tokens are counted beside the debts.
LEMMA BookedMatch ==
    ASSUME Accounts, Accounts', NEW r \in Reserves, Live(reserve[r]), Live(reserve'[r]),
           Booked(r, 0)
    PROVE  MatchKept(r, Unmatched(r), Unmatched(r)')
<1>1. PICK L, d : L = 0 /\ d = 0
  OBVIOUS
<1>2. PICK before, after : before = Unmatched(r) + L /\ after = Unmatched(r)' + (L + d)
  OBVIOUS
<1>3. L \in Int /\ d \in Int /\ Booked(r, d) /\ L = 0
  BY <1>1
<1>4. before = Unmatched(r) /\ after = Unmatched(r)'
  BY <1>1, <1>2, <1>3, UnmatchedInt
<1>5. MatchKept(r, before, after)
  BY <1>2, <1>3, BookedKept
<1> QED BY <1>4, <1>5

\* A reserve's total and the debts it counts move together in every step.
THEOREM DebtsMatch == Spec => DebtsMatchTheReserve
<1>1. ASSUME Accounts, Accounts', [Next]_vars, NEW r \in Reserves
      PROVE  MatchKept(r, Unmatched(r), Unmatched(r)')
  <2>1. CASE Live(reserve[r])
    <3>1. Booked(r, 0)
      BY <1>1, <2>1, StepBooked DEF AllBooked
    <3>2. Live(reserve'[r])
      BY <1>1, <2>1, StepOpen DEF StaysOpen
    <3> QED BY <1>1, <2>1, <3>1, <3>2, BookedMatch
  <2>2. CASE ~Live(reserve[r])
    BY <2>2 DEF MatchKept
  <2> QED BY <2>1, <2>2
<1>2. Accounts /\ Accounts' /\ [Next]_vars
         => [\A r \in Reserves : MatchKept(r, Unmatched(r), Unmatched(r)')]_vars
  BY <1>1
<1> QED BY <1>2, AccountsInvariant, PTL DEF Spec, DebtsMatchTheReserve

-----------------------------------------------------------------------------
\* Flash loans: what is out is what the transaction under way has borrowed
\* and not yet repaid.

\* The flash borrow at b has run, of a transaction that is to run `at` next,
\* and its repayment has not.
Borrowed(p, at) == {b \in 1..at - 1 : p[b].kind = "FlashBorrow"}
Pending(p, at) == {b \in Borrowed(p, at) : \A j \in Later(p, b, "FlashRepay") : j >= at}

\* Between transactions nothing is out; within one, the amount of a pending
\* loan, and every borrow that has run saw its one repayment ahead.
TxFields == DOMAIN tx = {"program", "user", "at", "began"}
LoansOut ==
    /\ lent \in [Reserves -> Int]
    /\ ~Running => \A r \in Reserves : lent[r] = 0
    /\ Running =>
          /\ TxFields
          /\ tx.program \in Seq(Instruction) /\ tx.at \in 1..Len(tx.program) + 1
          /\ \A b \in Borrowed(tx.program, tx.at) : RepaidLater(tx.program, b)
          /\ \A b \in Pending(tx.program, tx.at) : \A r \in Reserves :
                lent[r] = IF r = tx.program[b].reserve THEN tx.program[b].amount ELSE 0
          /\ Pending(tx.program, tx.at) = {} => \A r \in Reserves : lent[r] = 0

\* The kinds of instruction.
LEMMA InstructionFacts ==
    ASSUME NEW x \in Instruction
    PROVE  /\ x.kind = "FlashBorrow" => x.reserve \in Reserves /\ x.amount \in Nat
           /\ x.kind = "FlashRepay" =>
                 /\ x.reserve \in Reserves /\ x.amount \in Nat
                 /\ x.borrow_instruction_index \in Nat \ {0}
BY DEF Instruction, Other, Foreign

\* A transaction runs one flash borrow at most.
LEMMA OneBorrow ==
    ASSUME NEW p \in Seq(Instruction), NEW at \in 1..Len(p) + 1,
           \A b \in Borrowed(p, at) : RepaidLater(p, b)
    PROVE  \A b, c \in Borrowed(p, at) : b = c
<1>1. ASSUME NEW b \in Borrowed(p, at), NEW c \in Borrowed(p, at), b < c
      PROVE  FALSE
  <2>1. c \in Later(p, b, "FlashBorrow")
    BY <1>1 DEF Borrowed, Later
  <2> QED BY <1>1, <2>1 DEF RepaidLater
<1> QED BY <1>1 DEF Borrowed

\* The next instruction of a transaction under way.
LEMMA NextInstruction ==
    ASSUME Running, TxFields, tx' = [tx EXCEPT !.at = @ + 1]
    PROVE  /\ TxFields' /\ Running' /\ tx'.program = tx.program /\ tx'.at = tx.at + 1
           /\ tx'.user = tx.user /\ tx'.began = tx.began
<1>1. DOMAIN tx' = {"program", "user", "at", "began"}
  BY DEF TxFields
<1>2. tx' # Idle
  <2>1. DOMAIN Idle = {"program"}
    BY DEF Idle
  <2> QED BY <1>1, <2>1
<1> QED BY <1>1, <1>2 DEF TxFields, Running

\* A flash borrow is the first to run, and is pending after it.
LEMMA FlashBorrowLoans ==
    ASSUME LoansOut, Running, tx.at =< Len(tx.program), FlashBorrow,
           tx' = [tx EXCEPT !.at = @ + 1]
    PROVE  LoansOut'
<1>1. PICK p \in Seq(Instruction), i \in Nat :
          p = tx.program /\ i = tx.at /\ i \in 1..Len(p)
  BY DEF LoansOut
<1>2. PICK x \in Instruction : x = p[i]
  BY <1>1
<1>3. PICK r, n : r = x.reserve /\ n = x.amount
  OBVIOUS
<1>4. /\ x.kind = "FlashBorrow" /\ RepaidLater(p, i)
      /\ lent' = [lent EXCEPT ![r] = @ + n]
  BY <1>1, <1>2, <1>3 DEF FlashBorrow
<1>5. r \in Reserves /\ n \in Nat
  BY <1>3, <1>4, InstructionFacts
<1>6. Borrowed(p, i) = {}
  <2>1. ASSUME NEW b \in Borrowed(p, i)  PROVE FALSE
    <3>1. i \in Later(p, b, "FlashBorrow")
      BY <1>1, <1>2, <1>4, <2>1 DEF Borrowed, Later
    <3>2. RepaidLater(p, b)
      BY <1>1, <2>1 DEF LoansOut
    <3> QED BY <3>1, <3>2 DEF RepaidLater
  <2> QED BY <2>1
<1>7. lent \in [Reserves -> Int] /\ \A q \in Reserves : lent[q] = 0
  BY <1>1, <1>6 DEF LoansOut, Pending
<1>8. /\ lent' \in [Reserves -> Int]
      /\ \A q \in Reserves : lent'[q] = IF q = r THEN n ELSE 0
  BY <1>4, <1>5, <1>7
<1>9. /\ TxFields' /\ Running' /\ tx'.program = p /\ tx'.at = i + 1
      /\ p \in Seq(Instruction) /\ i + 1 \in 1..Len(p) + 1
  BY <1>1, NextInstruction DEF LoansOut
<1>10. Borrowed(p, i + 1) = {i}
  <2>1. \A b \in Borrowed(p, i + 1) : b \in Borrowed(p, i) \/ b = i
    BY <1>1 DEF Borrowed
  <2>2. i \in Borrowed(p, i + 1)
    BY <1>1, <1>2, <1>4 DEF Borrowed
  <2> QED BY <1>6, <2>1, <2>2
<1>11. Pending(p, i + 1) = {i}
  BY <1>10 DEF Pending, Later
<1>12. \A b \in Borrowed(p, i + 1) : RepaidLater(p, b)
  BY <1>4, <1>10
<1>13. /\ \A b \in Pending(p, i + 1) : \A q \in Reserves :
             lent'[q] = IF q = p[b].reserve THEN p[b].amount ELSE 0
       /\ Pending(p, i + 1) # {}
  BY <1>2, <1>3, <1>8, <1>11
<1> QED BY <1>8, <1>9, <1>12, <1>13 DEF LoansOut

\* A repayment that names its borrow is that of the pending loan.
LEMMA FlashRepayLoans ==
    ASSUME LoansOut, Running, tx.at =< Len(tx.program), FlashRepay,
           tx' = [tx EXCEPT !.at = @ + 1]
    PROVE  LoansOut'
<1>1. PICK p \in Seq(Instruction), i \in Nat :
          p = tx.program /\ i = tx.at /\ i \in 1..Len(p)
  BY DEF LoansOut
<1>2. PICK x \in Instruction : x = p[i]
  BY <1>1
<1>3. PICK r, n, b : r = x.reserve /\ n = x.amount /\ b = x.borrow_instruction_index
  OBVIOUS
<1>4. /\ x.kind = "FlashRepay" /\ b =< i /\ p[b] = FlashBorrowOf(r, n)
      /\ lent' = [lent EXCEPT ![r] = @ - n]
  BY <1>1, <1>2, <1>3 DEF FlashRepay, NamesItsBorrow
<1>5. r \in Reserves /\ n \in Nat /\ b \in Nat \ {0}
  BY <1>2, <1>3, <1>4, InstructionFacts
<1>6. p[b].kind = "FlashBorrow" /\ p[b].reserve = r /\ p[b].amount = n
  BY <1>4 DEF FlashBorrowOf
<1>7. b \in Borrowed(p, i)
  <2>1. b # i
    BY <1>2, <1>4, <1>6
  <2> QED BY <1>1, <1>4, <1>5, <1>6, <2>1 DEF Borrowed
<1>8. \A c \in Borrowed(p, i) : RepaidLater(p, c)
  BY <1>1 DEF LoansOut
<1>9. \A c \in Borrowed(p, i) : c = b
  BY <1>1, <1>7, <1>8, OneBorrow
<1>10. i \in Later(p, b, "FlashRepay")
  BY <1>1, <1>2, <1>4, <1>7 DEF Later, Borrowed
<1>11. Later(p, b, "FlashRepay") = {i}
  BY <1>7, <1>8, <1>10 DEF RepaidLater
<1>12. b \in Pending(p, i)
  BY <1>1, <1>7, <1>11 DEF Pending
<1>13. lent \in [Reserves -> Int] /\ \A q \in Reserves : lent[q] = IF q = r THEN n ELSE 0
  BY <1>1, <1>6, <1>12 DEF LoansOut
<1>14. lent' \in [Reserves -> Int] /\ \A q \in Reserves : lent'[q] = 0
  BY <1>4, <1>5, <1>13
<1>15. /\ TxFields' /\ Running' /\ tx'.program = p /\ tx'.at = i + 1
       /\ p \in Seq(Instruction) /\ i + 1 \in 1..Len(p) + 1
  BY <1>1, NextInstruction DEF LoansOut
<1>16. Borrowed(p, i + 1) = Borrowed(p, i)
  BY <1>1, <1>2, <1>4 DEF Borrowed
<1>17. Pending(p, i + 1) = {}
  <2>1. ASSUME NEW c \in Pending(p, i + 1)  PROVE FALSE
    <3>1. c = b
      BY <1>9, <1>16, <2>1 DEF Pending
    <3>2. i >= i + 1
      BY <1>10, <2>1, <3>1 DEF Pending
    <3> QED BY <1>1, <3>2
  <2> QED BY <2>1
<1> QED BY <1>8, <1>14, <1>15, <1>16, <1>17 DEF LoansOut

\* Another instruction lends and repays no flash loan.
LEMMA OtherLoans ==
    ASSUME LoansOut, Running, tx.at =< Len(tx.program),
           tx.program[tx.at].kind \in {"Lending", "Foreign"}, lent' = lent,
           tx' = [tx EXCEPT !.at = @ + 1]
    PROVE  LoansOut'
<1>1. PICK p \in Seq(Instruction), i \in Nat :
          p = tx.program /\ i = tx.at /\ i \in 1..Len(p)
  BY DEF LoansOut
<1>2. p[i].kind # "FlashBorrow" /\ p[i].kind # "FlashRepay"
  BY <1>1
<1>3. Borrowed(p, i + 1) = Borrowed(p, i)
  BY <1>1, <1>2 DEF Borrowed
<1>4. Pending(p, i + 1) = Pending(p, i)
  <2>1. \A b : \A j \in Later(p, b, "FlashRepay") : j \in Int /\ j # i
    BY <1>2 DEF Later
  <2>2. \A b : \A j \in Later(p, b, "FlashRepay") : j >= i <=> j >= i + 1
    BY <1>1, <2>1
  <2> QED BY <1>3, <2>2 DEF Pending
<1>5. /\ TxFields' /\ Running' /\ tx'.program = p /\ tx'.at = i + 1
      /\ p \in Seq(Instruction) /\ i + 1 \in 1..Len(p) + 1
  BY <1>1, NextInstruction DEF LoansOut
<1> QED BY <1>1, <1>3, <1>4, <1>5 DEF LoansOut

\* A transaction begins, and commits once it has run to its end.
LEMMA BeginLoans ==
    ASSUME LoansOut, NEW u, NEW program \in Programs, Begin(u, program)
    PROVE  LoansOut'
<1>1. /\ tx' = [program |-> program, user |-> u, at |-> 1, began |-> accounts]
      /\ lent' = lent /\ ~Running
  BY DEF Begin
<1>2. program \in Seq(Instruction) /\ tx'.program = program /\ tx'.at = 1 /\ TxFields'
  BY <1>1, ProgramsAssumption DEF TxFields
<1>3. Running'
  <2>1. DOMAIN Idle = {"program"}
    BY DEF Idle
  <2> QED BY <1>2, <2>1 DEF TxFields, Running
<1>4. Borrowed(program, 1) = {} /\ Pending(program, 1) = {}
  BY DEF Borrowed, Pending
<1>5. 1 \in 1..Len(program) + 1
  BY <1>2
<1> QED BY <1>1, <1>2, <1>3, <1>4, <1>5 DEF LoansOut

\* A transaction that commits leaves no loan out.
LEMMA CommitLoans ==
    ASSUME LoansOut, Commit
    PROVE  LoansOut'
<1>1. PICK p \in Seq(Instruction), i \in Nat : p = tx.program /\ i = tx.at /\ i = Len(p) + 1
  BY DEF LoansOut, Commit
<1>2. ~Running' /\ lent' = lent /\ Running
  BY DEF Commit, Running
<1>3. Pending(p, i) = {}
  <2>1. ASSUME NEW b \in Pending(p, i)  PROVE FALSE
    <3>1. PICK j \in Later(p, b, "FlashRepay") : TRUE
      BY <1>1, <1>2, <2>1 DEF LoansOut, Pending, RepaidLater
    <3>2. j \in Int /\ j =< Len(p) /\ j >= i
      BY <2>1, <3>1 DEF Pending, Later
    <3> QED BY <1>1, <3>2
  <2> QED BY <2>1
<1>4. \A r \in Reserves : lent[r] = 0
  BY <1>1, <1>2, <1>3 DEF LoansOut
<1> QED BY <1>2, <1>4 DEF LoansOut

\* An instruction fails.
LEMMA AbortLoans ==
    ASSUME Abort
    PROVE  LoansOut'
<1>1. ~Running' /\ lent' = [r \in Reserves |-> 0]
  BY DEF Abort, Running
<1> QED BY <1>1 DEF LoansOut

\* Whatever the transactions, what is out at any moment is the one loan that
\* the transaction under way has taken and is yet to repay, and nothing is out
\* between transactions.
THEOREM LoansAreTheTransactions == FlashSpec => []LoansOut
<1>1. FlashInit => LoansOut
  BY DEF FlashInit, LoansOut, Running
<1>2. LoansOut /\ [FlashNext]_flashVars => LoansOut'
  <2> SUFFICES ASSUME LoansOut, [FlashNext]_flashVars  PROVE LoansOut'
    OBVIOUS
  <2>1. CASE UNCHANGED flashVars
    <3>1. tx' = tx /\ lent' = lent
      BY <2>1 DEF flashVars
    <3> QED BY <3>1 DEF LoansOut, Running, TxFields
  <2>2. ASSUME NEW u \in Users, NEW program \in Programs, Begin(u, program)  PROVE LoansOut'
    BY <2>2, BeginLoans
  <2>3. CASE Execute
    <3>1. Running /\ tx.at =< Len(tx.program) /\ tx' = [tx EXCEPT !.at = @ + 1]
      BY <2>3 DEF Execute
    <3>2. CASE FlashBorrow
      BY <3>1, <3>2, FlashBorrowLoans
    <3>3. CASE FlashRepay
      BY <3>1, <3>3, FlashRepayLoans
    <3>4. CASE tx.program[tx.at].kind \in {"Lending", "Foreign"} /\ lent' = lent
      BY <3>1, <3>4, OtherLoans
    <3> QED BY <2>3, <3>2, <3>3, <3>4 DEF Execute
  <2>4. CASE Commit
    BY <2>4, CommitLoans
  <2>5. CASE Abort
    BY <2>5, AbortLoans
  <2>6. CASE Single
    <3>1. ~Running /\ tx' = tx /\ lent' = lent
      BY <2>6 DEF Single
    <3> QED BY <3>1 DEF LoansOut, Running
  <2> QED BY <2>1, <2>2, <2>3, <2>4, <2>5, <2>6 DEF FlashNext, RunTransaction
<1> QED BY <1>1, <1>2, PTL DEF FlashSpec

\* No flash loan is repaid twice (process_flash_repay_reserve_liquidity), which
\* would settle a debt that the obligations still owe.
THEOREM NeverRepaidTwice == FlashSpec => []RepaidOnce
<1>1. LoansOut => RepaidOnce
  <2> SUFFICES ASSUME LoansOut, NEW r \in Reserves  PROVE lent[r] >= 0
    BY DEF RepaidOnce
  <2>1. CASE ~Running
    BY <2>1 DEF LoansOut
  <2>2. CASE Running /\ Pending(tx.program, tx.at) = {}
    BY <2>2 DEF LoansOut
  <2>3. CASE Running /\ Pending(tx.program, tx.at) # {}
    <3>1. PICK b \in Pending(tx.program, tx.at) : TRUE
      BY <2>3
    <3>2. b \in 1..Len(tx.program) /\ tx.program \in Seq(Instruction)
          /\ tx.program[b].kind = "FlashBorrow"
      BY <2>3, <3>1 DEF LoansOut, Pending, Borrowed
    <3>3. tx.program[b] \in Instruction
      BY <3>2
    <3>4. tx.program[b].amount \in Nat
      BY <3>2, <3>3, InstructionFacts
    <3>5. lent[r] = IF r = tx.program[b].reserve THEN tx.program[b].amount ELSE 0
      BY <2>3, <3>1 DEF LoansOut
    <3> QED BY <3>4, <3>5
  <2> QED BY <2>1, <2>2, <2>3
<1> QED BY <1>1, LoansAreTheTransactions, PTL

-----------------------------------------------------------------------------
\* Flash loans, and the debts beside them.

\* The total of reserve r, charged or not (K), moves by d and no debt does.
LoanMoves(r, K, X, d) ==
    /\ K = reserve[r] \/ K = RefreshInterest(reserve[r], slot)
    /\ reserve' = [reserve EXCEPT ![r] = X] /\ obligation' = obligation
    /\ X.cumulative_borrow_rate_wads = K.cumulative_borrow_rate_wads
    /\ X.last_update.slot = K.last_update.slot
    /\ \/ X.borrowed_amount_wads = K.borrowed_amount_wads + d
       \/ X.borrowed_amount_wads = 0 /\ d =< -K.borrowed_amount_wads

\* A reserve that is booked, with what its flash loans add to it.
LEMMA BookedBeside ==
    ASSUME Accounts, NEW r \in Reserves, Live(reserve[r]), NEW K, NEW X, NEW d \in Int,
           LoanMoves(r, K, X, d)
    PROVE  Booked(r, d) /\ \A q \in Reserves \ {r} : Live(reserve[q]) => Booked(q, 0)
<1>1. /\ K = reserve[r] \/ K = RefreshInterest(reserve[r], slot)
      /\ reserve' = [reserve EXCEPT ![r] = X] /\ obligation' = obligation
      /\ X.cumulative_borrow_rate_wads = K.cumulative_borrow_rate_wads
      /\ X.last_update.slot = K.last_update.slot
      /\ \/ X.borrowed_amount_wads = K.borrowed_amount_wads + d
         \/ X.borrowed_amount_wads = 0 /\ d =< -K.borrowed_amount_wads
  BY DEF LoanMoves
<1>2. reserve'[r] = X /\ \A q \in Reserves \ {r} : reserve'[q] = reserve[q]
  BY <1>1 DEF Accounts
<1>3. PICK C : C = K.cumulative_borrow_rate_wads
  OBVIOUS
<1>4. /\ C \in Nat /\ K.borrowed_amount_wads \in Nat
      /\ K # reserve[r] => K.last_update.slot = slot
  BY <1>1, <1>3, ChargedNat
<1>5. Booked(r, d)
  <2>1. Charges(r, K)
    BY <1>1, <1>2, <1>4 DEF Charges
  <2>2. PICK z \in Int : z = 0
    OBVIOUS
  <2>3. SumThen(r, C) = SumAt(r, C) + z
    <3>1. \A p \in Obligations : OwedAt(obligation'[p], r, C) = OwedAt(obligation[p], r, C)
      BY <1>1
    <3>2. SumThen(r, C) = SumAt(r, C) + 0
      BY <1>4, <3>1, SumStays
    <3> QED BY <2>2, <3>2
  <2>4. \/ X.borrowed_amount_wads = K.borrowed_amount_wads + z + d
        \/ X.borrowed_amount_wads = 0 /\ z + d =< -K.borrowed_amount_wads
    BY <1>1, <1>4, <2>2
  <2> QED BY <1>1, <1>2, <1>3, <2>1, <2>3, <2>4 DEF Booked
<1>6. ASSUME NEW q \in Reserves \ {r}, Live(reserve[q])  PROVE Booked(q, 0)
  BY <1>1, <1>2, <1>6, BookedKeeps
<1> QED BY <1>5, <1>6

\* A flash borrow charges the reserve and adds the loan to its total.
LEMMA FlashBorrowDoes ==
    ASSUME Accounts, FlashBorrow, NEW r \in Reserves, NEW n \in Nat,
           r = tx.program[tx.at].reserve, n = tx.program[tx.at].amount
    PROVE  /\ Accounts' /\ StaysOpen /\ Live(reserve[r])
           /\ Booked(r, FromInt(n)) /\ \A q \in Reserves \ {r} : Live(reserve[q]) => Booked(q, 0)
           /\ reserve'[r].last_update.slot = slot /\ slot' = slot
           /\ lent' = [lent EXCEPT ![r] = @ + n] /\ \E X : Handled(r, X, -n)
<1>1. PICK res, K : res = reserve[r] /\ K = RefreshInterest(reserve[r], slot)
  OBVIOUS
<1>2. PICK W : W = FromInt(n)
  OBVIOUS
<1>3. PICK e, X : e = Lend(K, W) /\ X = MarkStale(Lend(K, W))
  OBVIOUS
<1>4. /\ Live(res) /\ CanLend(res, W)
      /\ reserve' = [reserve EXCEPT ![r] = X] /\ obligation' = obligation
      /\ slot' = slot /\ market' = market /\ lent' = [lent EXCEPT ![r] = @ + n]
  BY <1>1, <1>2, <1>3 DEF FlashBorrow, LendsRefreshed
<1>5. Sound(res, slot) /\ slot \in Nat /\ W \in Nat /\ Floor(W) = n
  BY <1>1, <1>2, <1>4, LiveSound, ConversionNat, FloorFromInt
<1>6. /\ Follows(res, K, slot) /\ Sound(K, slot) /\ K.last_update.slot = slot
      /\ K.available_amount = res.available_amount
  BY <1>1, <1>5, RefreshedSound
<1>7. /\ e \in ReserveType /\ e.config = K.config /\ e.last_update = K.last_update
      /\ e.cumulative_borrow_rate_wads = K.cumulative_borrow_rate_wads
      /\ e.borrowed_amount_wads = K.borrowed_amount_wads + W
      /\ e.available_amount = K.available_amount - n
  <2>1. K \in ReserveType /\ n =< K.available_amount
    BY <1>4, <1>5, <1>6 DEF Sound, CanLend
  <2>2. K.available_amount - n \in Nat /\ K.borrowed_amount_wads + W \in Nat
    BY <1>5, <2>1 DEF ReserveType
  <2> QED BY <1>3, <1>5, <2>1, <2>2 DEF Lend, ReserveType
<1>8. /\ X \in ReserveType /\ X.config = K.config /\ X.last_update.slot = slot
      /\ X.cumulative_borrow_rate_wads = K.cumulative_borrow_rate_wads
      /\ X.borrowed_amount_wads = K.borrowed_amount_wads + W
      /\ X.available_amount = res.available_amount - n
  BY <1>3, <1>6, <1>7 DEF MarkStale, ReserveType, UpdateType
<1>9. Follows(res, X, slot)
  BY <1>5, <1>6, <1>8 DEF Follows
<1>10. Handled(r, X, -n)
  <2>1. X.available_amount = res.available_amount + -n
    <3>1. res.available_amount \in Nat
      BY <1>5 DEF Sound, ReserveType
    <3> QED BY <1>8, <3>1
  <2> QED BY <1>1, <1>4, <1>9, <2>1, HandledBy
<1>11. Accounts' /\ StaysOpen
  BY <1>4, <1>10, SameMarket, HandledAccounts, HandledOpen
<1>12. LoanMoves(r, K, X, W)
  BY <1>1, <1>4, <1>6, <1>8 DEF LoanMoves
<1>13. reserve'[r] = X
  BY <1>4 DEF Accounts
<1>14. W \in Int /\ Live(reserve[r])
  BY <1>1, <1>4, <1>5
<1>15. Booked(r, W) /\ \A q \in Reserves \ {r} : Live(reserve[q]) => Booked(q, 0)
  BY ONLY Accounts, r \in Reserves, <1>12, <1>14, BookedBeside
<1>16. \E Z : Handled(r, Z, -n)
  BY ONLY <1>10
<1> QED BY <1>2, <1>4, <1>8, <1>11, <1>13, <1>14, <1>15, <1>16

\* A flash repayment takes it from the total again.
LEMMA FlashRepayDoes ==
    ASSUME Accounts, FlashRepay, NEW r \in Reserves, NEW n \in Nat,
           r = tx.program[tx.at].reserve, n = tx.program[tx.at].amount
    PROVE  /\ Accounts' /\ StaysOpen /\ Live(reserve[r])
           /\ Booked(r, -FromInt(n)) /\ \A q \in Reserves \ {r} : Live(reserve[q]) => Booked(q, 0)
           /\ reserve'[r].last_update.slot = reserve[r].last_update.slot /\ slot' = slot
           /\ lent' = [lent EXCEPT ![r] = @ - n] /\ \E X : Handled(r, X, n)
<1>1. PICK K : K = reserve[r]
  OBVIOUS
<1>2. PICK W : W = FromInt(n)
  OBVIOUS
<1>3. PICK X : X = MarkStale(Settle(K, n, W))
  OBVIOUS
<1>4. /\ Live(K) /\ reserve' = [reserve EXCEPT ![r] = X] /\ obligation' = obligation
      /\ slot' = slot /\ market' = market /\ lent' = [lent EXCEPT ![r] = @ - n]
  BY <1>1, <1>2, <1>3 DEF FlashRepay
<1>5. Sound(K, slot) /\ slot \in Nat /\ W \in Nat /\ K \in ReserveType
  BY <1>1, <1>2, <1>4, LiveSound, ConversionNat DEF Sound
<1>6. Follows(K, X, slot) /\ X.available_amount = K.available_amount + n
  BY <1>3, <1>5, SettleHandled
<1>7. Handled(r, X, n)
  BY <1>1, <1>4, <1>6, HandledBy
<1>8. Accounts' /\ StaysOpen
  BY <1>4, <1>7, SameMarket, HandledAccounts, HandledOpen
<1>9. /\ X.cumulative_borrow_rate_wads = K.cumulative_borrow_rate_wads
      /\ X.last_update.slot = K.last_update.slot
      /\ \/ X.borrowed_amount_wads = K.borrowed_amount_wads + -W
         \/ X.borrowed_amount_wads = 0 /\ -W =< -K.borrowed_amount_wads
  BY <1>3, <1>5, SettledTotal
<1>10. LoanMoves(r, K, X, -W) /\ -W \in Int
  BY <1>1, <1>4, <1>5, <1>9 DEF LoanMoves
<1>11. reserve'[r] = X
  BY <1>4 DEF Accounts
<1>12. \E Z : Handled(r, Z, n)
  BY ONLY <1>7
<1> QED BY <1>1, <1>2, <1>4, <1>8, <1>9, <1>10, <1>11, <1>12, BookedBeside

-----------------------------------------------------------------------------
\* The reserve of a loan that is out was charged in this slot, and what a
\* transaction under way would go back to is sound in it.
LoansFresh ==
    \A r \in Reserves : lent[r] # 0 => Live(reserve[r]) /\ reserve[r].last_update.slot = slot
BeganSound ==
    /\ MarketOK(tx.began.market)
    /\ DOMAIN tx.began.reserve = Reserves /\ DOMAIN tx.began.obligation = Obligations
    /\ AllSound(tx.began.reserve, slot)
    /\ \A o \in Obligations : Live(tx.began.obligation[o]) =>
          ObligationOK(tx.began.obligation[o], tx.began.reserve, slot)
FlashAccounts == Accounts /\ LoansFresh /\ (Running => BeganSound)

LoansKept == \A r \in Reserves : MatchKept(r, WithLoans(r), WithLoans(r)')

\* The difference of one reserve through a step that books it, its loans beside.
LEMMA LoanKept ==
    ASSUME Accounts, Accounts', StaysOpen, NEW r \in Reserves, NEW d \in Int,
           Live(reserve[r]) => Booked(r, d), lent[r] \in Int, lent'[r] \in Int,
           FromInt(lent'[r]) = FromInt(lent[r]) + d, lent[r] = 0 \/ ChargedFor(r) = 0
    PROVE  MatchKept(r, WithLoans(r), WithLoans(r)')
<1>1. CASE ~Live(reserve[r])
  BY <1>1 DEF MatchKept
<1>2. CASE Live(reserve[r])
  <2>1. Live(reserve'[r]) /\ Booked(r, d)
    BY <1>2 DEF StaysOpen
  <2>2. PICK L : L = FromInt(lent[r])
    OBVIOUS
  <2>3. L \in Int /\ (lent[r] = 0 => L = 0)
    BY <2>2, WADAssumption DEF FromInt
  <2>4. PICK before, after : before = WithLoans(r) /\ after = WithLoans(r)'
    OBVIOUS
  <2>5. before = Unmatched(r) + L /\ after = Unmatched(r)' + (L + d)
    BY <2>2, <2>4 DEF WithLoans
  <2>6. L = 0 \/ ChargedFor(r) = 0
    BY <2>3
  <2>7. MatchKept(r, before, after)
    BY ONLY Accounts, Accounts', r \in Reserves, d \in Int, <1>2, <2>1, <2>3, <2>5, <2>6, BookedKept
  <2> QED BY <2>4, <2>7
<1> QED BY <1>1, <1>2

\* A step of the lending program, in which nothing is lent or repaid so.
LEMMA LendingLoans ==
    ASSUME LoansOut, Accounts, LoansFresh, [Next]_vars, lent' = lent, slot' = slot \/ ~Running
    PROVE  Accounts' /\ LoansFresh' /\ LoansKept
<1>1. Accounts' /\ StaysOpen /\ AllBooked /\ slot \in Nat
  BY AccountsStep, StepOpen, StepBooked, LiveSound
<1>2. ASSUME NEW r \in Reserves, lent[r] # 0
      PROVE  /\ Live(reserve[r]) /\ Live(reserve'[r]) /\ slot' = slot
             /\ reserve[r].last_update.slot = slot /\ reserve'[r].last_update.slot = slot
  <2>1. Live(reserve[r]) /\ reserve[r].last_update.slot = slot /\ slot' = slot
    BY <1>2 DEF LoansFresh, LoansOut
  <2>2. Booked(r, 0) /\ Live(reserve'[r])
    BY <1>1, <2>1 DEF AllBooked, StaysOpen
  <2>3. PICK K : Charges(r, K)
    BY <2>2 DEF Booked
  <2> QED BY <2>1, <2>2, <2>3 DEF Charges
<1>3. LoansFresh'
  BY <1>2 DEF LoansFresh
<1>4. ASSUME NEW r \in Reserves  PROVE MatchKept(r, WithLoans(r), WithLoans(r)')
  <2>1. lent[r] = 0 \/ ChargedFor(r) = 0
    BY <1>1, <1>2 DEF ChargedFor
  <2>2. PICK z \in Int : z = 0
    OBVIOUS
  <2>3. lent[r] \in Int /\ lent'[r] \in Int /\ FromInt(lent'[r]) = FromInt(lent[r]) + z
    BY <2>2, WADAssumption DEF LoansOut, FromInt
  <2>4. Live(reserve[r]) => Booked(r, z)
    BY <1>1, <2>2 DEF AllBooked
  <2> QED BY <1>1, <2>1, <2>3, <2>4, LoanKept
<1> QED BY <1>1, <1>3, <1>4 DEF LoansKept

\* Nothing is out when a flash borrow runs.
LEMMA NothingLentYet ==
    ASSUME LoansOut, Running, tx.at =< Len(tx.program), FlashBorrow
    PROVE  \A q \in Reserves : lent[q] = 0
<1>1. PICK p \in Seq(Instruction), i \in Nat :
          p = tx.program /\ i = tx.at /\ i \in 1..Len(p)
  BY DEF LoansOut
<1>2. p[i].kind = "FlashBorrow"
  BY <1>1 DEF FlashBorrow
<1>3. ASSUME NEW b \in Borrowed(p, i)  PROVE FALSE
  <2>1. i \in Later(p, b, "FlashBorrow")
    BY <1>1, <1>2, <1>3 DEF Borrowed, Later
  <2>2. RepaidLater(p, b)
    BY <1>1, <1>3 DEF LoansOut
  <2> QED BY <2>1, <2>2 DEF RepaidLater
<1>4. Pending(p, i) = {}
  BY <1>3 DEF Pending
<1> QED BY <1>1, <1>4 DEF LoansOut

\* A flash borrow adds its loan to the total, on top of the debts.
LEMMA BorrowLoans ==
    ASSUME LoansOut, Accounts, LoansFresh, Running, tx.at =< Len(tx.program), FlashBorrow
    PROVE  Accounts' /\ LoansFresh' /\ LoansKept
<1>1. PICK x \in Instruction : x = tx.program[tx.at]
  BY DEF LoansOut
<1>2. PICK r \in Reserves, n \in Nat : r = x.reserve /\ n = x.amount
  BY <1>1, InstructionFacts DEF FlashBorrow
<1>3. /\ Accounts' /\ StaysOpen /\ Live(reserve[r])
      /\ Booked(r, FromInt(n)) /\ \A q \in Reserves \ {r} : Live(reserve[q]) => Booked(q, 0)
      /\ reserve'[r].last_update.slot = slot /\ slot' = slot
      /\ lent' = [lent EXCEPT ![r] = @ + n]
  BY <1>1, <1>2, FlashBorrowDoes
<1>4. \A q \in Reserves : lent[q] = 0
  BY NothingLentYet
<1>5. lent'[r] = n /\ \A q \in Reserves \ {r} : lent'[q] = 0
  BY <1>3, <1>4 DEF LoansOut
<1>6. LoansFresh'
  BY <1>3, <1>5 DEF LoansFresh, StaysOpen
<1>7. PICK z \in Int, W \in Int : z = 0 /\ W = FromInt(n)
  BY ConversionNat
<1>8. FromInt(0) = z
  BY <1>7, WADAssumption DEF FromInt
<1>9. MatchKept(r, WithLoans(r), WithLoans(r)')
  <2>1. FromInt(lent'[r]) = FromInt(lent[r]) + W
    BY <1>4, <1>5, <1>7, <1>8
  <2>2. Booked(r, W) /\ lent[r] = 0 /\ lent[r] \in Int /\ lent'[r] \in Int
    BY <1>3, <1>4, <1>5, <1>7
  <2> QED BY <1>3, <2>1, <2>2, LoanKept
<1>10. ASSUME NEW q \in Reserves \ {r}  PROVE MatchKept(q, WithLoans(q), WithLoans(q)')
  <2>1. FromInt(lent'[q]) = FromInt(lent[q]) + z
    BY <1>4, <1>5, <1>7, <1>8
  <2>2. /\ Live(reserve[q]) => Booked(q, z)
        /\ lent[q] = 0 /\ lent[q] \in Int /\ lent'[q] \in Int
    BY <1>3, <1>4, <1>5, <1>7
  <2> QED BY <1>3, <2>1, <2>2, LoanKept
<1> QED BY <1>3, <1>6, <1>9, <1>10 DEF LoansKept

\* A flash repayment takes its loan off the total, and off no debt.
LEMMA RepaymentLoans ==
    ASSUME LoansOut, RepaidOnce', Accounts, LoansFresh, Running, tx.at =< Len(tx.program),
           FlashRepay
    PROVE  Accounts' /\ LoansFresh' /\ LoansKept
<1>1. PICK x \in Instruction : x = tx.program[tx.at]
  BY DEF LoansOut
<1>2. PICK r \in Reserves, n \in Nat : r = x.reserve /\ n = x.amount
  BY <1>1, InstructionFacts DEF FlashRepay
<1>3. /\ Accounts' /\ StaysOpen /\ Live(reserve[r])
      /\ Booked(r, -FromInt(n)) /\ \A q \in Reserves \ {r} : Live(reserve[q]) => Booked(q, 0)
      /\ reserve'[r].last_update.slot = reserve[r].last_update.slot /\ slot' = slot
      /\ lent' = [lent EXCEPT ![r] = @ - n]
  BY <1>1, <1>2, FlashRepayDoes
<1>4. lent \in [Reserves -> Int] /\ lent'[r] >= 0
  BY DEF LoansOut, RepaidOnce
<1>5. lent'[r] = lent[r] - n /\ \A q \in Reserves \ {r} : lent'[q] = lent[q]
  BY <1>3, <1>4
<1>6. lent[r] \in Int /\ lent'[r] \in Int /\ (lent[r] = 0 => lent'[r] = 0)
  BY <1>4, <1>5
<1>7. ASSUME NEW q \in Reserves \ {r}, lent[q] # 0
      PROVE  /\ Live(reserve[q]) /\ reserve[q].last_update.slot = slot
             /\ reserve'[q].last_update.slot = slot
  <2>1. Live(reserve[q]) /\ reserve[q].last_update.slot = slot
    BY <1>7 DEF LoansFresh
  <2>2. PICK K : Charges(q, K)
    BY <1>3, <2>1 DEF Booked
  <2> QED BY <2>1, <2>2 DEF Charges
<1>8. LoansFresh'
  <2>1. ASSUME NEW q \in Reserves, lent'[q] # 0
        PROVE  Live(reserve'[q]) /\ reserve'[q].last_update.slot = slot'
    <3>1. CASE q = r
      BY <1>3, <1>6, <2>1, <3>1 DEF LoansFresh, StaysOpen
    <3>2. CASE q # r
      BY <1>3, <1>5, <1>7, <2>1, <3>2 DEF StaysOpen
    <3> QED BY <3>1, <3>2
  <2> QED BY <2>1 DEF LoansFresh
<1>9. slot \in Int /\ reserve[r].last_update.slot \in Int
  <2>1. Sound(reserve[r], slot) /\ slot \in Nat
    BY <1>3, LiveSound
  <2> QED BY <2>1 DEF Sound, ReserveType, UpdateType
<1>10. MatchKept(r, WithLoans(r), WithLoans(r)')
  <2>1. PICK W \in Int : W = FromInt(n)
    BY ConversionNat
  <2>2. PICK d \in Int : d = -W
    OBVIOUS
  <2>3. FromInt(lent'[r]) = FromInt(lent[r]) + d
    <3>1. lent'[r] * WAD = lent[r] * WAD + -(n * WAD)
      BY <1>5, <1>6, WADAssumption
    <3> QED BY <2>1, <2>2, <3>1 DEF FromInt
  <2>4. Booked(r, d) /\ ChargedFor(r) = 0
    BY <1>3, <1>9, <2>1, <2>2 DEF ChargedFor
  <2> QED BY <1>3, <1>6, <2>3, <2>4, LoanKept
<1>11. ASSUME NEW q \in Reserves \ {r}  PROVE MatchKept(q, WithLoans(q), WithLoans(q)')
  <2>1. PICK z \in Int : z = 0
    OBVIOUS
  <2>2. lent[q] \in Int /\ lent'[q] \in Int /\ FromInt(lent'[q]) = FromInt(lent[q]) + z
    BY <1>4, <1>5, <2>1, WADAssumption DEF FromInt
  <2>3. Live(reserve[q]) => Booked(q, z)
    BY <1>3, <2>1
  <2>4. lent[q] = 0 \/ ChargedFor(q) = 0
    BY <1>7, <1>9 DEF ChargedFor
  <2> QED BY <1>3, <2>2, <2>3, <2>4, LoanKept
<1> QED BY <1>3, <1>8, <1>10, <1>11 DEF LoansKept

\* No instruction of the lending program moves the clock.
LEMMA SlotStays == LendingInstruction => slot' = slot
<1>1. CASE OpenAccounts
  BY <1>1 DEF OpenAccounts, InitReserve, InitObligation
<1>2. CASE Upkeep
  BY <1>2 DEF Upkeep, RefreshReserve, RefreshAnObligation, RedeemProtocolFees
<1>3. CASE Pool
  BY <1>3 DEF Pool, Deposit, Redeem
<1>4. CASE Collateral
  <2>1. PICK o \in Obligations, r \in Reserves :
          \/ \E n \in PledgeAmounts : DepositObligation(o, r, n)
          \/ \E n \in PledgeAmounts : DepositAndPledge(o, r, n)
          \/ \E n \in WithdrawAmounts : WithdrawObligation(o, r, n)
          \/ \E n \in WithdrawAmounts : WithdrawAndRedeem(o, r, n)
    BY <1>4 DEF Collateral
  <2>2. ASSUME NEW n, DepositObligation(o, r, n)  PROVE slot' = slot
    BY <2>2 DEF DepositObligation
  <2>3. ASSUME NEW n, DepositAndPledge(o, r, n)  PROVE slot' = slot
    BY <2>3 DEF DepositAndPledge
  <2>4. ASSUME NEW n, WithdrawObligation(o, r, n)  PROVE slot' = slot
    BY <2>4 DEF WithdrawObligation
  <2>5. ASSUME NEW n, WithdrawAndRedeem(o, r, n)  PROVE slot' = slot
    BY <2>5 DEF WithdrawAndRedeem
  <2> QED BY <2>1, <2>2, <2>3, <2>4, <2>5
<1>5. CASE Debt
  <2>1. PICK o \in Obligations, r \in Reserves :
          \/ \E n \in BorrowAmounts, hosted \in BOOLEAN : Borrow(o, r, n, hosted)
          \/ \E u \in Users : \E n \in RepayAmounts : Repay(u, o, r, n)
          \/ \E n \in ForgiveAmounts : ForgiveDebt(o, r, n)
    BY <1>5 DEF Debt
  <2>2. ASSUME NEW n, NEW hosted, Borrow(o, r, n, hosted)  PROVE slot' = slot
    BY <2>2 DEF Borrow
  <2>3. ASSUME NEW u, NEW n, Repay(u, o, r, n)  PROVE slot' = slot
    BY <2>3 DEF Repay
  <2>4. ASSUME NEW n, ForgiveDebt(o, r, n)  PROVE slot' = slot
    BY <2>4 DEF ForgiveDebt
  <2> QED BY <2>1, <2>2, <2>3, <2>4
<1>6. CASE Liquidations
  BY <1>6 DEF Liquidations, Liquidate
<1>7. CASE Administration
  BY <1>7 DEF Administration, UpdateReserveConfig, SetOwnerAndConfig, SetRiskAuthority
<1> QED BY <1>1, <1>2, <1>3, <1>4, <1>5, <1>6, <1>7 DEF LendingInstruction

\* Every step of the flash program, but for the loans themselves an instruction of
\* the lending program or none, keeps the accounts and the difference.
LEMMA FlashStep ==
    ASSUME LoansOut, RepaidOnce', FlashAccounts, [FlashNext]_flashVars
    PROVE  FlashAccounts' /\ (Undone \/ LoansKept)
<1>1. Accounts /\ LoansFresh /\ (Running => BeganSound)
  BY DEF FlashAccounts
<1>2. LendingInstruction => slot' = slot /\ [Next]_vars
  BY SlotStays DEF LendingInstruction, Next
<1>3. ASSUME tx'.began = tx.began, slot' = slot, BeganSound  PROVE BeganSound'
  BY <1>3 DEF BeganSound
<1>4. CASE UNCHANGED flashVars
  <2>1. UNCHANGED vars /\ tx' = tx /\ lent' = lent /\ slot' = slot
    BY <1>4 DEF flashVars, vars
  <2>2. Accounts' /\ LoansFresh' /\ LoansKept
    BY <1>1, <2>1, LendingLoans
  <2> QED BY <1>1, <1>3, <2>1, <2>2 DEF FlashAccounts, Running
<1>5. ASSUME NEW u \in Users, NEW program \in Programs, Begin(u, program)
      PROVE  FlashAccounts' /\ LoansKept
  <2>1. UNCHANGED vars /\ lent' = lent /\ tx'.began = accounts
    BY <1>5 DEF Begin
  <2>2. Accounts' /\ LoansFresh' /\ LoansKept
    BY <1>1, <2>1, LendingLoans DEF vars
  <2>3. BeganSound'
    BY <1>1, <2>1 DEF BeganSound, accounts, Accounts, vars
  <2> QED BY <2>2, <2>3 DEF FlashAccounts
<1>6. CASE Execute
  <2>1. /\ Running /\ tx.at =< Len(tx.program) /\ tx' = [tx EXCEPT !.at = @ + 1]
        /\ slot' = slot
    BY <1>2, <1>6 DEF Execute, FlashBorrow, FlashRepay, vars
  <2>2. BeganSound'
    <3>1. tx'.began = tx.began
      BY <2>1, NextInstruction DEF LoansOut
    <3> QED BY <1>1, <1>3, <2>1, <3>1
  <2>3. CASE FlashBorrow
    BY <1>1, <2>1, <2>2, <2>3, BorrowLoans DEF FlashAccounts
  <2>4. CASE FlashRepay
    BY <1>1, <2>1, <2>2, <2>4, RepaymentLoans DEF FlashAccounts
  <2>5. CASE [Next]_vars /\ lent' = lent
    BY <1>1, <2>1, <2>2, <2>5, LendingLoans DEF FlashAccounts
  <2> QED BY <1>2, <1>6, <2>3, <2>4, <2>5 DEF Execute
<1>7. CASE Commit
  <2>1. UNCHANGED vars /\ lent' = lent /\ ~Running'
    BY <1>7 DEF Commit, Running
  <2>2. Accounts' /\ LoansFresh' /\ LoansKept
    BY <1>1, <2>1, LendingLoans DEF vars
  <2> QED BY <2>1, <2>2 DEF FlashAccounts
<1>8. CASE Abort
  <2>1. Accounts'
    BY <1>1, <1>8 DEF Abort, BeganSound, Accounts
  <2>2. LoansFresh' /\ ~Running' /\ Undone
    BY <1>8 DEF Abort, LoansFresh, Running, Undone
  <2> QED BY <2>1, <2>2 DEF FlashAccounts
<1>9. CASE Single
  <2>1. ~Running /\ tx' = tx /\ lent' = lent /\ [Next]_vars
    BY <1>2, <1>9 DEF Single, Next
  <2>2. Accounts' /\ LoansFresh' /\ LoansKept
    BY <1>1, <2>1, LendingLoans
  <2> QED BY <2>1, <2>2 DEF FlashAccounts, Running
<1> QED BY <1>4, <1>5, <1>6, <1>7, <1>8, <1>9 DEF FlashNext, RunTransaction

\* The accounts stay sound through every transaction, undone or not, and no loan
\* that is out is ever charged interest.
THEOREM FlashAccountsHold == FlashSpec => []FlashAccounts
<1>1. FlashInit => FlashAccounts
  BY AccountsInit DEF FlashInit, FlashAccounts, LoansFresh, Running
<1>2. LoansOut /\ RepaidOnce' /\ FlashAccounts /\ [FlashNext]_flashVars => FlashAccounts'
  BY FlashStep
<1> QED BY <1>1, <1>2, LoansAreTheTransactions, NeverRepaidTwice, PTL DEF FlashSpec

\* A flash loan leaves no debt behind it (process_flash_borrow_reserve_liquidity,
\* process_flash_repay_reserve_liquidity): counted with what is out, the total of
\* a reserve moves as its obligations' debts do, whatever else the transaction
\* runs between the loan and its repayment.
THEOREM FlashLeavesNothing == FlashSpec => FlashLeavesNoDebt
<1>1. LoansOut /\ RepaidOnce' /\ FlashAccounts /\ [FlashNext]_flashVars
        => [~Undone => \A r \in Reserves : MatchKept(r, WithLoans(r), WithLoans(r)')]_flashVars
  BY FlashStep DEF LoansKept
<1> QED BY <1>1, LoansAreTheTransactions, NeverRepaidTwice, FlashAccountsHold, PTL
        DEF FlashSpec, FlashLeavesNoDebt

-----------------------------------------------------------------------------
\* What the receivers of fees hold, which no instruction takes away from them.

TokenBalances == [Reserves -> [Holders -> Nat]]

\* The receivers hold in t2 at least what they hold in t1.
FeesStay(t1, t2) == \A q \in Reserves : Received(t2, q) >= Received(t1, q)

\* A transfer from a user or a vault takes nothing from the receivers of fees.
LEMMA MoveReceived ==
    ASSUME NEW t \in TokenBalances, NEW r \in Reserves,
           NEW a \in Holders, NEW b \in Holders, a # b, NEW n \in Nat, t[r][a] >= n,
           a # FeeReceiver, a # Host, NEW m, m = Move(t, r, a, b, n)
    PROVE  /\ m \in TokenBalances /\ FeesStay(t, m)
           /\ m[r][a] = t[r][a] - n /\ m[r][b] = t[r][b] + n
           /\ Received(m, r) = Received(t, r) + (IF b \in {FeeReceiver, Host} THEN n ELSE 0)
           /\ \A h \in Holders \ {a, b} : m[r][h] = t[r][h]
           /\ \A q \in Reserves \ {r} : m[q] = t[q]
<1>1. /\ m \in TokenBalances
      /\ m[r][a] = t[r][a] - n /\ m[r][b] = t[r][b] + n
      /\ \A h \in Holders \ {a, b} : m[r][h] = t[r][h]
      /\ \A q \in Reserves \ {r} : m[q] = t[q]
  BY MoveFacts DEF TokenBalances
<1>2. /\ FeeReceiver \in Holders /\ Host \in Holders /\ FeeReceiver # Host
  BY HoldersApart
<1>3. \A q \in Reserves : /\ t[q][FeeReceiver] \in Nat /\ t[q][Host] \in Nat
  BY <1>2 DEF TokenBalances
<1>4. Received(m, r) = Received(t, r) + (IF b \in {FeeReceiver, Host} THEN n ELSE 0)
  BY <1>1, <1>2, <1>3 DEF Received
<1>5. ASSUME NEW q \in Reserves  PROVE Received(m, q) >= Received(t, q)
  BY <1>1, <1>3, <1>4 DEF Received
<1> QED BY <1>1, <1>4, <1>5 DEF FeesStay

\* Transfers one after the other.
LEMMA FeesStayAlong ==
    ASSUME NEW t \in TokenBalances, NEW m \in TokenBalances, NEW w \in TokenBalances,
           FeesStay(t, m), FeesStay(m, w)
    PROVE  FeesStay(t, w)
<1>1. \A v \in TokenBalances : \A q \in Reserves : Received(v, q) \in Nat
  BY HoldersApart DEF TokenBalances, Received
<1> QED BY <1>1 DEF FeesStay

\* Nothing moves.
LEMMA FeesUntouched ==
    ASSUME Cash, token' = token
    PROVE  FeesStay(token, token')
<1>1. \A q \in Reserves : Received(token, q) \in Nat
  BY HoldersApart DEF Cash, TokensTyped, Received
<1> QED BY <1>1 DEF FeesStay

\* One transfer out of a user's account or a vault.
LEMMA FeesMoved ==
    ASSUME Cash, NEW r \in Reserves, NEW a \in Users \cup {Vault}, NEW b \in Holders, a # b,
           NEW n \in Nat, token[r][a] >= n, token' = Move(token, r, a, b, n)
    PROVE  FeesStay(token, token')
<1>1. a \in Holders /\ a # FeeReceiver /\ a # Host
  BY HoldersApart
<1>2. token \in TokenBalances
  BY DEF Cash, TokensTyped, TokenBalances
<1> QED BY <1>1, <1>2, MoveReceived

\* The fees of a loan come out of the vault, and so does the loan.
LEMMA FeesBorrow ==
    ASSUME Accounts, Cash, NEW o \in Obligations, NEW r \in Reserves, NEW n \in Nat,
           NEW hosted \in BOOLEAN, Borrow(o, r, n, hosted)
    PROVE  FeesStay(token, token')
<1>0. PICK X, Y : \E host, fee, receive \in Nat :
         /\ Handled(r, X, -(host + fee + receive)) /\ Obliged(o, Y)
         /\ token[r][Vault] >= host + fee + receive
         /\ token' = Move(Move(Move(token, r, Vault, Host, host), r, Vault, FeeReceiver, fee),
                          r, Vault, obligation[o].owner, receive)
  BY BorrowDoes
<1>1. PICK host \in Nat, fee \in Nat, receive \in Nat :
         /\ Obliged(o, Y) /\ token[r][Vault] >= host + fee + receive
         /\ token' = Move(Move(Move(token, r, Vault, Host, host), r, Vault, FeeReceiver, fee),
                          r, Vault, obligation[o].owner, receive)
  BY <1>0
<1>2. PICK u \in Users : u = obligation[o].owner
  BY <1>1, OwnerIsUser DEF Obliged
<1>3. PICK t1 : t1 = Move(token, r, Vault, Host, host)
  OBVIOUS
<1>4. PICK t2 : t2 = Move(t1, r, Vault, FeeReceiver, fee)
  OBVIOUS
<1>5. token' = Move(t2, r, Vault, u, receive)
  BY <1>1, <1>2, <1>3, <1>4
<1>6. /\ token \in TokenBalances /\ token[r][Vault] \in Nat
      /\ Vault \in Holders /\ Host \in Holders /\ FeeReceiver \in Holders /\ u \in Holders
      /\ Vault # Host /\ Vault # FeeReceiver /\ Vault # u
  BY HoldersApart DEF Cash, TokensTyped, TokenBalances
<1>7. t1 \in TokenBalances /\ FeesStay(token, t1) /\ t1[r][Vault] = token[r][Vault] - host
  BY <1>1, <1>3, <1>6, MoveReceived
<1>8. t2 \in TokenBalances /\ FeesStay(t1, t2) /\ t2[r][Vault] = token[r][Vault] - host - fee
  <2>1. t1[r][Vault] >= fee
    BY <1>1, <1>6, <1>7
  <2> QED BY <1>4, <1>6, <1>7, <2>1, MoveReceived
<1>9. token' \in TokenBalances /\ FeesStay(t2, token')
  <2>1. t2[r][Vault] >= receive
    BY <1>1, <1>6, <1>8
  <2> QED BY <1>5, <1>6, <1>8, <2>1, MoveReceived
<1> QED BY <1>6, <1>7, <1>8, <1>9, FeesStayAlong

\* A liquidator is paid out of the vault and pays the protocol's part.
LEMMA FeesLiquidate ==
    ASSUME Accounts, Cash, Liquidations
    PROVE  FeesStay(token, token')
<1>1. PICK u \in Users, o \in Obligations, debt \in Reserves, coll \in Reserves,
           n \in LiquidateAmounts : Liquidate(u, o, debt, coll, n)
  BY DEF Liquidations
<1>2. PICK repay \in Nat, liq \in Nat, fee \in Nat :
         /\ liq =< reserve[coll].available_amount + (IF coll = debt THEN repay ELSE 0)
         /\ Live(reserve[debt]) /\ Live(reserve[coll])
         /\ token[debt][u] >= repay /\ LiquidationPays(u, debt, coll, repay, liq, fee)
  <2>1. PICK Y : \E repay, withdraw, redeemed, liq, fee \in Nat :
           LiquidationDone(u, o, debt, coll, Y, repay, withdraw, redeemed, liq, fee)
    BY <1>1, AmountsAssumption, LiquidateDoes
  <2> QED BY <2>1 DEF LiquidationDone
<1>3. /\ token \in TokenBalances /\ \A q \in Reserves : token[q][Vault] \in Nat
      /\ Vault \in Holders /\ u \in Holders /\ u # Vault
      /\ FeeReceiver \in Holders /\ FeeReceiver # u /\ FeeReceiver # Vault
      /\ u # Host /\ Vault # Host
  BY HoldersApart DEF Cash, TokensTyped, TokenBalances
<1>4. PICK paid : paid = Move(token, debt, u, Vault, repay)
  OBVIOUS
<1>5. /\ paid \in TokenBalances /\ FeesStay(token, paid)
      /\ paid[debt][Vault] = token[debt][Vault] + repay
      /\ \A q \in Reserves \ {debt} : paid[q] = token[q]
  BY <1>2, <1>3, <1>4, MoveReceived
<1>6. CASE token' = paid
  BY <1>5, <1>6
<1>7. CASE /\ Move(paid, coll, Vault, u, liq)[coll][u] >= fee
           /\ token' = Move(Move(paid, coll, Vault, u, liq), coll, u, FeeReceiver, fee)
  <2>1. PICK received : received = Move(paid, coll, Vault, u, liq)
    OBVIOUS
  <2>2. paid[coll][Vault] >= liq
    <3>1. token[coll][Vault] = reserve[coll].available_amount
      BY <1>2 DEF Cash, InVault, Counted
    <3> QED BY <1>2, <1>3, <1>5, <3>1
  <2>3. received \in TokenBalances /\ FeesStay(paid, received)
    BY <1>3, <1>5, <2>1, <2>2, MoveReceived
  <2>4. token' \in TokenBalances /\ FeesStay(received, token')
    BY <1>3, <1>7, <2>1, <2>3, MoveReceived
  <2> QED BY <1>3, <1>5, <2>3, <2>4, FeesStayAlong
<1> QED BY <1>2, <1>4, <1>6, <1>7 DEF LiquidationPays

\* No instruction takes tokens from the receivers of fees.
LEMMA FeesKept ==
    ASSUME Accounts, Cash, LendingInstruction
    PROVE  FeesStay(token, token')
<1>1. CASE OpenAccounts
  <2>1. ASSUME NEW r \in Reserves, NEW u \in Users, InitReserve(r, u)
        PROVE  FeesStay(token, token')
    <3>1. token[r][u] >= FirstDeposit /\ token' = Move(token, r, u, Vault, FirstDeposit)
          /\ FirstDeposit \in Nat
      BY <2>1, AmountsAssumption DEF InitReserve
    <3> QED BY <3>1, HoldersApart, FeesMoved
  <2>2. ASSUME NEW o \in Obligations, InitObligation(o)  PROVE FeesStay(token, token')
    BY <2>2, FeesUntouched DEF InitObligation
  <2> QED BY <1>1, <2>1, <2>2 DEF OpenAccounts
<1>2. CASE Upkeep
  <2>1. ASSUME NEW r \in Reserves, RedeemProtocolFees(r)  PROVE FeesStay(token, token')
    <3>1. PICK n \in Nat : token[r][Vault] >= n /\ token' = Move(token, r, Vault, FeeReceiver, n)
      BY <2>1, RedeemProtocolFeesDoes
    <3> QED BY <3>1, HoldersApart, FeesMoved
  <2>2. CASE token' = token
    BY <2>2, FeesUntouched
  <2> QED BY <1>2, <2>1, <2>2 DEF Upkeep, RefreshReserve, RefreshAnObligation
<1>3. CASE Pool
  <2>1. ASSUME NEW r \in Reserves, NEW u \in Users, NEW n \in DepositAmounts, Deposit(u, r, n)
        PROVE  FeesStay(token, token')
    <3>1. n \in Nat /\ token[r][u] >= n /\ token' = Move(token, r, u, Vault, n)
      BY <2>1, AmountsAssumption DEF Deposit
    <3> QED BY <3>1, HoldersApart, FeesMoved
  <2>2. ASSUME NEW r \in Reserves, NEW u \in Users, NEW n \in RedeemAmounts, Redeem(u, r, n)
        PROVE  FeesStay(token, token')
    <3>1. PICK liq \in Nat : token[r][Vault] >= liq /\ token' = Move(token, r, Vault, u, liq)
      BY <2>2, AmountsAssumption, RedeemDoes
    <3> QED BY <3>1, HoldersApart, FeesMoved
  <2> QED BY <1>3, <2>1, <2>2 DEF Pool
<1>4. CASE Collateral
  <2>1. ASSUME NEW o \in Obligations, NEW r \in Reserves, NEW n \in PledgeAmounts,
               DepositAndPledge(o, r, n)
        PROVE  FeesStay(token, token')
    <3>1. PICK u : u = obligation[o].owner
      OBVIOUS
    <3>2. /\ n \in Nat /\ Live(obligation[o]) /\ token[r][u] >= n
          /\ token' = Move(token, r, u, Vault, n)
      BY <2>1, <3>1, AmountsAssumption DEF DepositAndPledge
    <3>3. u \in Users
      BY <3>1, <3>2, OwnerIsUser
    <3> QED BY <3>2, <3>3, HoldersApart, FeesMoved
  <2>2. ASSUME NEW o \in Obligations, NEW r \in Reserves, NEW n \in WithdrawAmounts,
               WithdrawAndRedeem(o, r, n)
        PROVE  FeesStay(token, token')
    <3>1. PICK Y : \E liq \in Nat :
             /\ Obliged(o, Y) /\ token[r][Vault] >= liq
             /\ token' = Move(token, r, Vault, obligation[o].owner, liq)
      BY <2>2, AmountsAssumption, WithdrawAndRedeemDoes
    <3>2. PICK u \in Users : u = obligation[o].owner
      BY <3>1, OwnerIsUser DEF Obliged
    <3> QED BY <3>1, <3>2, HoldersApart, FeesMoved
  <2>3. ASSUME NEW o \in Obligations, NEW r \in Reserves, NEW n,
               DepositObligation(o, r, n) \/ WithdrawObligation(o, r, n)
        PROVE  FeesStay(token, token')
    BY <2>3, FeesUntouched DEF DepositObligation, WithdrawObligation
  <2> QED BY <1>4, <2>1, <2>2, <2>3 DEF Collateral
<1>5. CASE Debt
  <2>1. ASSUME NEW o \in Obligations, NEW r \in Reserves, NEW u \in Users, NEW n \in RepayAmounts,
               Repay(u, o, r, n)
        PROVE  FeesStay(token, token')
    <3>1. PICK m \in Nat : token[r][u] >= m /\ token' = Move(token, r, u, Vault, m)
      BY <2>1, AmountsAssumption, RepayDoes
    <3> QED BY <3>1, HoldersApart, FeesMoved
  <2>2. ASSUME NEW o \in Obligations, NEW r \in Reserves, NEW n, ForgiveDebt(o, r, n)
        PROVE  FeesStay(token, token')
    BY <2>2, FeesUntouched DEF ForgiveDebt
  <2>3. \A n \in BorrowAmounts : n \in Nat
    BY AmountsAssumption
  <2> QED BY <1>5, <2>1, <2>2, <2>3, FeesBorrow DEF Debt
<1>6. CASE Liquidations
  BY <1>6, FeesLiquidate
<1>7. CASE Administration
  <2>1. token' = token
    BY <1>7 DEF Administration, UpdateReserveConfig, SetOwnerAndConfig, SetRiskAuthority
  <2> QED BY <2>1, FeesUntouched
<1> QED BY <1>1, <1>2, <1>3, <1>4, <1>5, <1>6, <1>7 DEF LendingInstruction

-----------------------------------------------------------------------------
\* The vaults, while flash loans are out.

\* What a flash loan takes out of the vault goes to the user.
LEMMA FlashBorrowCash ==
    ASSUME Accounts, Cash, tx.user \in Users, FlashBorrow, NEW r \in Reserves, NEW n \in Nat,
           r = tx.program[tx.at].reserve, n = tx.program[tx.at].amount
    PROVE  Cash' /\ FeesStay(token, token')
<1>1. PICK u \in Users : u = tx.user
  BY ONLY tx.user \in Users
<1>2. token[r][Vault] >= n /\ token' = Move(token, r, Vault, u, n)
  BY <1>1 DEF FlashBorrow
<1>3. PICK X : Handled(r, X, -n)
  BY FlashBorrowDoes
<1>4. u \in Holders /\ u # Vault
  BY HoldersApart
<1>5. Cash'
  BY ONLY Accounts, Cash, r \in Reserves, n \in Nat, <1>2, <1>3, <1>4, CashOut
<1>6. FeesStay(token, token')
  BY ONLY Cash, r \in Reserves, n \in Nat, <1>2, <1>4, FeesMoved
<1> QED BY <1>5, <1>6

\* The fees that a flash repayment at i adds to what the receivers hold.
FeesOf(x) == Fees(reserve[x.reserve].config, FromInt(x.amount),
                  reserve[x.reserve].config.flash_loan_fee_wad, FALSE)

\* A payment by user u of n tokens to the vault, and of some to either receiver.
LEMMA RepaymentMoves ==
    ASSUME NEW t \in TokenBalances, NEW r \in Reserves, NEW u \in Users, NEW n \in Nat,
           NEW host \in Nat, NEW rest \in Nat, t[r][u] >= n + host + rest,
           NEW w, w = Move(Move(Move(t, r, u, Vault, n), r, u, Host, host), r, u, FeeReceiver, rest)
    PROVE  /\ w \in TokenBalances /\ FeesStay(t, w)
           /\ w[r][Vault] = t[r][Vault] + n
           /\ Received(w, r) = Received(t, r) + (host + rest)
           /\ \A q \in Reserves \ {r} : w[q] = t[q]
<1>1. /\ Vault \in Holders /\ Host \in Holders /\ FeeReceiver \in Holders /\ u \in Holders
      /\ u # Vault /\ u # Host /\ u # FeeReceiver
      /\ Vault # Host /\ Vault # FeeReceiver /\ Host # FeeReceiver
  BY HoldersApart
<1>2. /\ t[r][u] \in Nat /\ t[r][Vault] \in Nat /\ t[r][Host] \in Nat /\ t[r][FeeReceiver] \in Nat
  BY <1>1 DEF TokenBalances
<1>3. PICK t1 : t1 = Move(t, r, u, Vault, n)
  OBVIOUS
<1>4. PICK t2 : t2 = Move(t1, r, u, Host, host)
  OBVIOUS
<1>5. w = Move(t2, r, u, FeeReceiver, rest)
  BY <1>3, <1>4
<1>6. /\ t1 \in TokenBalances /\ FeesStay(t, t1) /\ t1[r][u] = t[r][u] - n
      /\ t1[r][Vault] = t[r][Vault] + n
      /\ \A h \in Holders \ {u, Vault} : t1[r][h] = t[r][h]
      /\ \A q \in Reserves \ {r} : t1[q] = t[q]
  <2>1. t[r][u] >= n
    BY <1>2
  <2> QED BY <1>1, <1>3, <2>1, MoveReceived
<1>7. /\ t2 \in TokenBalances /\ FeesStay(t1, t2) /\ t2[r][u] = t1[r][u] - host
      /\ t2[r][Host] = t1[r][Host] + host
      /\ \A h \in Holders \ {u, Host} : t2[r][h] = t1[r][h]
      /\ \A q \in Reserves \ {r} : t2[q] = t1[q]
  <2>1. t1[r][u] >= host
    BY <1>2, <1>6
  <2> QED BY ONLY r \in Reserves, host \in Nat, <1>1, <1>4, <1>6, <2>1, MoveReceived
<1>8. /\ w \in TokenBalances /\ FeesStay(t2, w)
      /\ w[r][FeeReceiver] = t2[r][FeeReceiver] + rest
      /\ \A h \in Holders \ {u, FeeReceiver} : w[r][h] = t2[r][h]
      /\ \A q \in Reserves \ {r} : w[q] = t2[q]
  <2>1. t2[r][u] >= rest
    BY <1>2, <1>6, <1>7
  <2> QED BY ONLY r \in Reserves, rest \in Nat, <1>1, <1>5, <1>7, <2>1, MoveReceived
<1>9. /\ t1[r][Host] = t[r][Host] /\ t1[r][FeeReceiver] = t[r][FeeReceiver]
      /\ t2[r][Vault] = t1[r][Vault] /\ t2[r][FeeReceiver] = t1[r][FeeReceiver]
      /\ w[r][Vault] = t2[r][Vault] /\ w[r][Host] = t2[r][Host]
  BY ONLY <1>1, <1>6, <1>7, <1>8
<1>10. /\ w[r][Vault] = t[r][Vault] + n
       /\ w[r][Host] = t[r][Host] + host /\ w[r][FeeReceiver] = t[r][FeeReceiver] + rest
  BY ONLY <1>6, <1>7, <1>8, <1>9
<1>11. Received(w, r) = Received(t, r) + (host + rest)
  BY <1>2, <1>10 DEF Received
<1>12. FeesStay(t, w)
  <2>1. FeesStay(t, t2)
    BY ONLY t \in TokenBalances, <1>6, <1>7, FeesStayAlong
  <2> QED BY ONLY t \in TokenBalances, <1>7, <1>8, <2>1, FeesStayAlong
<1>13. \A q \in Reserves \ {r} : w[q] = t[q]
  BY ONLY <1>6, <1>7, <1>8
<1> QED BY <1>8, <1>10, <1>11, <1>12, <1>13

\* A repayment returns the loan to the vault, and the fees beside it arrive.
LEMMA FlashRepayCash ==
    ASSUME Accounts, Cash, tx.user \in Users, FlashRepay, NEW r \in Reserves, NEW n \in Nat,
           r = tx.program[tx.at].reserve, n = tx.program[tx.at].amount
    PROVE  /\ Cash' /\ FeesStay(token, token')
           /\ Received(token', r) = Received(token, r) + FeesOf(tx.program[tx.at]).total
<1>1. PICK u \in Users : u = tx.user
  BY ONLY tx.user \in Users
<1>2. PICK x, c : x = tx.program[tx.at] /\ c = reserve[r].config
  OBVIOUS
<1>3. PICK fees : fees = FeesOf(x) /\ fees = Fees(c, FromInt(n), c.flash_loan_fee_wad, FALSE)
  <2>1. x.reserve = r /\ x.amount = n
    BY <1>2
  <2>2. FeesOf(x) = Fees(c, FromInt(n), c.flash_loan_fee_wad, FALSE)
    BY ONLY <1>2, <2>1 DEF FeesOf
  <2> QED BY ONLY <2>2
<1>4. /\ fees.host =< fees.total /\ token[r][u] >= n + fees.total /\ Live(reserve[r])
      /\ token' = Move(Move(Move(token, r, u, Vault, n), r, u, Host, fees.host),
                       r, u, FeeReceiver, fees.total - fees.host)
  BY <1>1, <1>2, <1>3 DEF FlashRepay
<1>5. c \in ConfigType
  BY <1>2, <1>4, LiveSound DEF Sound, ReserveType
<1>6. FromInt(n) \in Nat /\ c.flash_loan_fee_wad \in Nat /\ FALSE \in BOOLEAN
  BY ONLY n \in Nat, <1>5, ConversionNat DEF ConfigType
<1>7. fees.total \in Nat /\ fees.host \in Nat
  BY ONLY <1>3, <1>5, <1>6, FeesNat
<1>8. PICK host \in Nat, rest \in Nat :
         host = fees.host /\ rest = fees.total - fees.host /\ fees.total = host + rest
  <2>1. fees.total - fees.host \in Nat /\ fees.total = fees.host + (fees.total - fees.host)
    BY ONLY <1>4, <1>7
  <2> QED BY ONLY <1>7, <2>1
<1>9. token \in TokenBalances /\ token[r][u] \in Nat
  BY HoldersApart DEF Cash, TokensTyped, TokenBalances
<1>10. token[r][u] >= n + host + rest
  BY ONLY n \in Nat, <1>4, <1>8, <1>9
<1>11. token' = Move(Move(Move(token, r, u, Vault, n), r, u, Host, host), r, u, FeeReceiver, rest)
  BY ONLY <1>4, <1>8
<1>12. /\ token' \in TokenBalances /\ FeesStay(token, token')
       /\ token'[r][Vault] = token[r][Vault] + n
       /\ Received(token', r) = Received(token, r) + (host + rest)
       /\ \A q \in Reserves \ {r} : token'[q] = token[q]
  BY ONLY r \in Reserves, n \in Nat, u \in Users, host \in Nat, rest \in Nat,
          <1>9, <1>10, <1>11, RepaymentMoves
<1>13. Cash'
  <2>1. PICK X : Handled(r, X, n)
    BY FlashRepayDoes
  <2>2. token' \in [Reserves -> [Holders -> Nat]]
    BY <1>12 DEF TokenBalances
  <2> QED BY <1>12, <2>1, <2>2, CashHandled
<1>14. Received(token', r) = Received(token, r) + fees.total
  BY ONLY <1>8, <1>12
<1> QED BY ONLY <1>2, <1>3, <1>12, <1>13, <1>14

\* The transaction under way is a user's, would go back to vaults that hold what
\* their reserves count, and has taken nothing from the receivers of fees.
BeganCash ==
    /\ tx.user \in Users
    /\ tx.began.token \in TokenBalances
    /\ \A r \in Reserves : tx.began.token[r][Vault] =
          IF Live(tx.began.reserve[r]) THEN tx.began.reserve[r].available_amount ELSE 0
    /\ FeesStay(tx.began.token, token)
FlashCash == Cash /\ (Running => BeganCash)

\* Every step of the flash program keeps the vaults what the reserves count.
LEMMA FlashCashStep ==
    ASSUME LoansOut, Accounts, FlashCash, [FlashNext]_flashVars
    PROVE  FlashCash'
<1>1. Cash /\ (Running => BeganCash) /\ token \in TokenBalances
  BY DEF FlashCash, Cash, TokensTyped, TokenBalances
<1>2. ASSUME UNCHANGED vars  PROVE Cash'
  BY <1>1, <1>2 DEF vars, Cash, TokensTyped, InVault, Counted
<1>3. CASE UNCHANGED flashVars
  <2>1. UNCHANGED vars /\ tx' = tx /\ token' = token
    BY <1>3 DEF flashVars, vars
  <2>2. Running => BeganCash'
    BY <1>1, <2>1 DEF BeganCash
  <2> QED BY <1>2, <2>1, <2>2 DEF FlashCash, Running
<1>4. ASSUME NEW u \in Users, NEW program \in Programs, Begin(u, program)  PROVE FlashCash'
  <2>1. /\ UNCHANGED vars /\ token' = token /\ reserve' = reserve
        /\ tx'.user = u /\ tx'.began.token = token /\ tx'.began.reserve = reserve
    BY <1>4 DEF Begin, accounts, vars
  <2>2. FeesStay(token, token')
    BY <1>1, <2>1, FeesUntouched
  <2>3. \A r \in Reserves : token[r][Vault] =
            IF Live(reserve[r]) THEN reserve[r].available_amount ELSE 0
    BY <1>1 DEF Cash, InVault, Counted
  <2>4. BeganCash'
    BY <1>1, <2>1, <2>2, <2>3 DEF BeganCash
  <2> QED BY <1>2, <2>1, <2>4 DEF FlashCash
<1>5. CASE Execute
  <2>1. /\ Running /\ tx.at =< Len(tx.program)
        /\ tx'.user = tx.user /\ tx'.began = tx.began
    BY <1>5, NextInstruction DEF Execute, LoansOut
  <2>2. PICK x \in Instruction : x = tx.program[tx.at]
    BY <2>1 DEF LoansOut
  <2>3. Cash' /\ FeesStay(token, token')
    <3>1. ASSUME FlashBorrow \/ FlashRepay  PROVE x.reserve \in Reserves /\ x.amount \in Nat
      BY <2>2, <3>1, InstructionFacts DEF FlashBorrow, FlashRepay
    <3>2. tx.user \in Users
      BY <1>1, <2>1 DEF BeganCash
    <3>3. CASE FlashBorrow
      BY <1>1, <2>2, <3>1, <3>2, <3>3, FlashBorrowCash
    <3>4. CASE FlashRepay
      BY <1>1, <2>2, <3>1, <3>2, <3>4, FlashRepayCash
    <3>5. CASE LendingInstruction
      <4>1. [Next]_vars
        BY <3>5 DEF LendingInstruction, Next
      <4> QED BY <1>1, <3>5, <4>1, CashStep, FeesKept
    <3>6. CASE UNCHANGED vars
      BY <1>1, <1>2, <3>6, FeesUntouched DEF vars
    <3> QED BY <1>5, <3>3, <3>4, <3>5, <3>6 DEF Execute
  <2>4. token' \in TokenBalances
    BY <2>3 DEF Cash, TokensTyped, TokenBalances
  <2>5. FeesStay(tx.began.token, token')
    BY <1>1, <2>1, <2>3, <2>4, FeesStayAlong DEF BeganCash
  <2>6. BeganCash'
    BY <1>1, <2>1, <2>5 DEF BeganCash
  <2> QED BY <2>3, <2>6 DEF FlashCash
<1>6. CASE Commit
  <2>1. UNCHANGED vars /\ ~Running'
    BY <1>6 DEF Commit, Running
  <2> QED BY <1>2, <2>1 DEF FlashCash
<1>7. CASE Abort
  <2>1. ~Running' /\ token' = tx.began.token /\ reserve' = tx.began.reserve /\ BeganCash
    BY <1>1, <1>7 DEF Abort, Running
  <2>2. Cash'
    BY <2>1 DEF BeganCash, Cash, TokensTyped, TokenBalances, InVault, Counted
  <2> QED BY <2>1, <2>2 DEF FlashCash
<1>8. CASE Single
  <2>1. ~Running /\ tx' = tx /\ [Next]_vars
    BY <1>8 DEF Single, LendingInstruction, Next
  <2> QED BY <1>1, <2>1, CashStep DEF FlashCash, Running
<1> QED BY <1>3, <1>4, <1>5, <1>6, <1>7, <1>8 DEF FlashNext, RunTransaction

\* The vaults hold what the reserves count through every flash loan, and no
\* instruction of a transaction takes tokens from the receivers of fees.
THEOREM FlashVaultsHold == FlashSpec => []FlashCash
<1>1. FlashInit => FlashCash
  BY CashInit DEF FlashInit, FlashCash, Running
<1>2. LoansOut /\ FlashAccounts /\ FlashCash /\ [FlashNext]_flashVars => FlashCash'
  BY FlashCashStep DEF FlashAccounts
<1> QED BY <1>1, <1>2, LoansAreTheTransactions, FlashAccountsHold, PTL DEF FlashSpec

-----------------------------------------------------------------------------
\* What a flash loan costs.

\* The least a loan of n costs at the rate and the host's part of a configuration.
DueFor(c, n) == Larger(IF c.host_fee_percentage > 0 THEN 2 ELSE 1,
                       Floor(Mul(FromInt(n), c.flash_loan_fee_wad)))

\* It is a natural.
LEMMA DueNat ==
    ASSUME NEW c \in ConfigType, NEW n \in Nat
    PROVE  DueFor(c, n) \in Nat
<1>1. Mul(FromInt(n), c.flash_loan_fee_wad) \in Nat
  BY ConversionNat, DecimalNat DEF ConfigType
<1>2. Floor(Mul(FromInt(n), c.flash_loan_fee_wad)) \in Nat
  BY <1>1, WADAssumption, DivFacts DEF Floor
<1> QED BY <1>2 DEF DueFor, Larger

\* The fees of a flash loan (calculate_flash_loan_fees) are never less.
LEMMA FeesCoverDue ==
    ASSUME NEW c \in ConfigType, NEW n \in Nat \ {0}, c.flash_loan_fee_wad > 0
    PROVE  Fees(c, FromInt(n), c.flash_loan_fee_wad, FALSE).total >= DueFor(c, n)
<1>1. PICK rate \in Nat : rate = c.flash_loan_fee_wad
  BY DEF ConfigType
<1>2. PICK amount \in Nat : amount = FromInt(n) /\ amount > 0
  <2>1. n * WAD \in Nat /\ n * WAD > 0
    BY WADAssumption
  <2> QED BY <2>1 DEF FromInt
<1>3. PICK k \in Nat : k = IF c.host_fee_percentage > 0 THEN 2 ELSE 1
  OBVIOUS
<1>4. PICK charge \in Nat : charge = Mul(amount, rate)
  BY DecimalNat
<1>5. PICK least \in Nat : least = FromInt(k)
  BY ConversionNat
<1>6. PICK fee \in Nat : fee = Larger(charge, least)
  BY DEF Larger
<1>7. fee >= charge /\ fee >= least
  BY <1>6 DEF Larger
<1>8. Fees(c, amount, rate, FALSE).total = Round(fee)
  BY <1>1, <1>2, <1>3, <1>4, <1>5, <1>6 DEF Fees
<1>9. Round(fee) >= Floor(fee)
  <2>1. WAD \div 2 \in Nat
    BY WADAssumption, DivFacts
  <2>2. fee + WAD \div 2 \in Nat /\ fee =< fee + WAD \div 2
    BY <2>1
  <2>3. fee \div WAD =< (fee + WAD \div 2) \div WAD
    BY <2>2, WADAssumption, DivMonotone
  <2> QED BY <2>3 DEF Round, Floor
<1>10. Floor(fee) >= Floor(charge) /\ Floor(fee) >= Floor(least)
  BY <1>7, WADAssumption, DivMonotone DEF Floor
<1>11. Floor(least) = k
  BY <1>5, FloorFromInt
<1>12. /\ Floor(charge) \in Nat /\ Floor(fee) \in Nat /\ Round(fee) \in Nat
  BY ConversionNat, WADAssumption, DivFacts DEF Floor
<1>13. DueFor(c, n) = Larger(k, Floor(charge))
  BY <1>1, <1>2, <1>3, <1>4 DEF DueFor
<1>14. Round(fee) >= DueFor(c, n)
  BY <1>9, <1>10, <1>11, <1>12, <1>13 DEF Larger
<1> QED BY <1>1, <1>2, <1>8, <1>14

\* The fees of a flash loan are a natural, and cover what is due.
LEMMA FlashFees ==
    ASSUME NEW c \in ConfigType, NEW n \in Nat
    PROVE  LET total == Fees(c, FromInt(n), c.flash_loan_fee_wad, FALSE).total
           IN  /\ total \in Nat
               /\ n > 0 /\ c.flash_loan_fee_wad > 0 => total >= DueFor(c, n)
<1>1. PICK amount \in Nat, rate \in Nat : amount = FromInt(n) /\ rate = c.flash_loan_fee_wad
  BY ConversionNat DEF ConfigType
<1>2. Fees(c, amount, rate, FALSE).total \in Nat
  BY FeesNat
<1>3. ASSUME n > 0, c.flash_loan_fee_wad > 0
      PROVE  Fees(c, FromInt(n), c.flash_loan_fee_wad, FALSE).total >= DueFor(c, n)
  <2>1. n \in Nat \ {0}
    BY <1>3
  <2> QED BY <1>3, <2>1, FeesCoverDue
<1> QED BY <1>1, <1>2, <1>3

\* The reserve keeps what its flash loans are charged at.
KeepsFees ==
    \A r \in Reserves : Live(reserve[r]) =>
       /\ reserve'[r].config.flash_loan_fee_wad = reserve[r].config.flash_loan_fee_wad
       /\ reserve'[r].config.host_fee_percentage = reserve[r].config.host_fee_percentage

\* The receivers have been paid for the flash borrow at b since the transaction
\* under way began.
PaidFor(b) ==
    LET x == tx.program[b]
        c == reserve[x.reserve].config
    IN  c.flash_loan_fee_wad > 0 /\ x.amount > 0 =>
           Received(token, x.reserve) - Received(tx.began.token, x.reserve) >= DueFor(c, x.amount)

\* What has been lent and repaid so far is paid for.
LoansPaid ==
    Running =>
       \A b \in Borrowed(tx.program, tx.at) :
          /\ Live(reserve[tx.program[b].reserve])
          /\ b \in Pending(tx.program, tx.at) \/ PaidFor(b)

\* A loan paid for stays paid for, at the same fees.
LEMMA StaysPaid ==
    ASSUME Accounts, FlashCash, FlashCash', Running, KeepsFees, FeesStay(token, token'),
           tx'.program = tx.program, tx'.began = tx.began,
           NEW b, tx.program[b].reserve \in Reserves, tx.program[b].amount \in Nat,
           Live(reserve[tx.program[b].reserve]),
           PaidFor(b)
    PROVE  PaidFor(b)'
<1>1. PICK x, r : x = tx.program[b] /\ r = x.reserve
  OBVIOUS
<1>2. PICK c, d : c = reserve[r].config /\ d = reserve'[r].config
  OBVIOUS
<1>3. /\ d.flash_loan_fee_wad = c.flash_loan_fee_wad
      /\ d.host_fee_percentage = c.host_fee_percentage
  BY <1>1, <1>2 DEF KeepsFees
<1>4. DueFor(d, x.amount) = DueFor(c, x.amount)
  BY <1>3 DEF DueFor
<1>5. /\ Received(token, r) \in Int /\ Received(token', r) \in Int
      /\ Received(tx.began.token, r) \in Int
      /\ Received(token', r) >= Received(token, r)
  <2>1. r \in Reserves /\ FeeReceiver \in Holders /\ Host \in Holders
    BY <1>1, HoldersApart
  <2>2. token \in TokenBalances /\ token' \in TokenBalances /\ tx.began.token \in TokenBalances
    BY DEF FlashCash, Cash, TokensTyped, BeganCash, TokenBalances
  <2>3. \A t \in TokenBalances : Received(t, r) \in Int
    BY ONLY <2>1 DEF TokenBalances, Received
  <2>4. Received(token', r) >= Received(token, r)
    BY ONLY <2>1, FeesStay(token, token') DEF FeesStay
  <2> QED BY ONLY <2>2, <2>3, <2>4
<1>6. DueFor(c, x.amount) \in Int
  <2>1. c \in ConfigType
    BY <1>1, <1>2, LiveSound DEF Sound, ReserveType
  <2> QED BY <1>1, <2>1, DueNat
<1> QED BY <1>1, <1>2, <1>3, <1>4, <1>5, <1>6 DEF PaidFor

\* A flash borrow that runs is pending: it is not paid for yet, and no other ran.
LEMMA BorrowPaid ==
    ASSUME LoansOut, Accounts, Running, tx.at =< Len(tx.program), FlashBorrow,
           tx' = [tx EXCEPT !.at = @ + 1]
    PROVE  LoansPaid'
<1>1. PICK p \in Seq(Instruction), i \in Nat :
          p = tx.program /\ i = tx.at /\ i \in 1..Len(p)
  BY DEF LoansOut
<1>2. PICK x \in Instruction : x = p[i]
  BY <1>1
<1>3. PICK r \in Reserves, n \in Nat : r = x.reserve /\ n = x.amount
  BY <1>1, <1>2, InstructionFacts DEF FlashBorrow
<1>4. tx'.program = p /\ tx'.at = i + 1
  BY <1>1, NextInstruction DEF LoansOut
<1>5. Live(reserve'[r])
  <2>1. StaysOpen /\ Live(reserve[r])
    BY <1>1, <1>2, <1>3, FlashBorrowDoes
  <2> QED BY <2>1 DEF StaysOpen
<1>6. ASSUME NEW b \in Borrowed(p, i + 1)  PROVE b = i
  <2>1. LoansOut'
    BY FlashBorrowLoans
  <2>2. i + 1 \in 1..Len(p) + 1 /\ \A c \in Borrowed(p, i + 1) : RepaidLater(p, c)
    BY <1>1, <1>4, <2>1, NextInstruction DEF LoansOut
  <2>3. i \in Borrowed(p, i + 1)
    <3>1. tx.program[tx.at].kind = "FlashBorrow"
      BY DEF FlashBorrow
    <3>2. i \in 1..(i + 1) - 1
      BY <1>1
    <3> QED BY <1>1, <3>1, <3>2 DEF Borrowed
  <2> QED BY <1>6, <2>2, <2>3, OneBorrow
<1>7. ASSUME NEW b \in Borrowed(p, i + 1)  PROVE b \in Pending(p, i + 1)
  <2>1. \A j \in Later(p, b, "FlashRepay") : j >= i + 1
    BY <1>1, <1>6, <1>7 DEF Later
  <2> QED BY <1>7, <2>1 DEF Pending
<1>8. ASSUME NEW b \in Borrowed(p, i + 1)  PROVE Live(reserve'[p[b].reserve])
  BY <1>2, <1>3, <1>5, <1>6, <1>8
<1> QED BY <1>4, <1>7, <1>8 DEF LoansPaid

\* A repayment pays for its loan.
LEMMA RepaymentPaid ==
    ASSUME LoansOut, Accounts, FlashCash, FlashCash', LoansPaid, KeepsFees,
           Running, tx.at =< Len(tx.program), FlashRepay, tx' = [tx EXCEPT !.at = @ + 1]
    PROVE  LoansPaid'
<1>1. PICK p \in Seq(Instruction), i \in Nat :
          p = tx.program /\ i = tx.at /\ i \in 1..Len(p)
  BY DEF LoansOut
<1>2. PICK x \in Instruction : x = p[i]
  BY <1>1
<1>3. PICK r \in Reserves, n \in Nat : r = x.reserve /\ n = x.amount
  BY <1>1, <1>2, InstructionFacts DEF FlashRepay
<1>4. tx'.program = p /\ tx'.at = i + 1 /\ tx'.began = tx.began
  BY <1>1, NextInstruction DEF LoansOut
<1>5. PICK a : a = x.borrow_instruction_index
  OBVIOUS
<1>6. a \in Borrowed(p, i) /\ p[a].reserve = r /\ p[a].amount = n
  <2>1. x.kind = "FlashRepay" /\ a =< i /\ p[a] = FlashBorrowOf(r, n)
    BY <1>1, <1>2, <1>3, <1>5 DEF FlashRepay, NamesItsBorrow
  <2>2. a \in Nat \ {0}
    BY <1>2, <1>5, <2>1, InstructionFacts
  <2>3. p[a].kind = "FlashBorrow" /\ p[a].reserve = r /\ p[a].amount = n
    BY <2>1 DEF FlashBorrowOf
  <2>4. a # i
    BY <1>2, <2>1, <2>3
  <2> QED BY <1>1, <2>1, <2>2, <2>3, <2>4 DEF Borrowed
<1>7. Borrowed(p, i + 1) = Borrowed(p, i)
  <2>1. p[i].kind # "FlashBorrow"
    BY <1>1 DEF FlashRepay
  <2> QED BY <1>1, <2>1 DEF Borrowed
<1>8. \A b \in Borrowed(p, i) : b = a
  <2>1. \A b \in Borrowed(p, i) : RepaidLater(p, b)
    BY <1>1 DEF LoansOut
  <2> QED BY <1>1, <1>6, <2>1, OneBorrow
<1>9. PICK c, d : c = reserve[r].config /\ d = reserve'[r].config
  OBVIOUS
<1>10. Live(reserve[r]) /\ Live(reserve'[r]) /\ c \in ConfigType
  <2>1. StaysOpen /\ Live(reserve[r])
    BY <1>1, <1>2, <1>3, FlashRepayDoes
  <2> QED BY <1>9, <2>1, LiveSound DEF StaysOpen, Sound, ReserveType
<1>11. d.flash_loan_fee_wad = c.flash_loan_fee_wad /\ DueFor(d, n) = DueFor(c, n)
  BY <1>9, <1>10 DEF KeepsFees, DueFor
<1>12. Received(token', r) = Received(token, r) + Fees(c, FromInt(n), c.flash_loan_fee_wad, FALSE).total
  <2>1. tx.user \in Users /\ Cash
    BY DEF FlashCash, BeganCash
  <2>2. FeesOf(tx.program[tx.at]) = Fees(c, FromInt(n), c.flash_loan_fee_wad, FALSE)
    BY <1>1, <1>2, <1>3, <1>9 DEF FeesOf
  <2> QED BY <1>1, <1>2, <1>3, <2>1, <2>2, FlashRepayCash
<1>13. /\ Received(token, r) \in Int /\ Received(tx.began.token, r) \in Int
       /\ Received(token, r) >= Received(tx.began.token, r)
  <2>1. token \in TokenBalances /\ tx.began.token \in TokenBalances /\ FeesStay(tx.began.token, token)
    BY DEF FlashCash, Cash, TokensTyped, BeganCash, TokenBalances
  <2>2. \A t \in TokenBalances : Received(t, r) \in Nat
    BY HoldersApart DEF TokenBalances, Received
  <2> QED BY <2>1, <2>2 DEF FeesStay
<1>14. d.flash_loan_fee_wad > 0 /\ n > 0
         => Received(token', r) - Received(tx.began.token, r) >= DueFor(d, n)
  <2>1. PICK total, due : /\ total = Fees(c, FromInt(n), c.flash_loan_fee_wad, FALSE).total
                         /\ due = DueFor(c, n)
    OBVIOUS
  <2>2. /\ total \in Nat /\ due \in Nat
        /\ n > 0 /\ c.flash_loan_fee_wad > 0 => total >= due
    BY ONLY n \in Nat, <1>10, <2>1, FlashFees, DueNat
  <2>3. PICK was \in Int, began \in Int :
           was = Received(token, r) /\ began = Received(tx.began.token, r)
    BY <1>13
  <2>4. PICK is \in Int : is = Received(token', r) /\ is = was + total /\ was >= began
    <3>1. Received(token', r) = was + total
      BY ONLY <1>12, <2>1, <2>3
    <3>2. was + total \in Int
      BY ONLY was \in Int, <2>2
    <3> QED BY <1>13, <2>3, <3>1, <3>2
  <2>5. n > 0 /\ c.flash_loan_fee_wad > 0 => is - began >= due
    BY ONLY was \in Int, began \in Int, is \in Int, <2>2, <2>4
  <2>6. is - began = Received(token', r) - Received(tx.began.token, r) /\ due = DueFor(d, n)
    BY <1>11, <2>1, <2>3, <2>4
  <2>7. d.flash_loan_fee_wad = c.flash_loan_fee_wad
    BY <1>11
  <2> QED BY ONLY <2>5, <2>6, <2>7
<1>15. PaidFor(a)'
  BY <1>4, <1>6, <1>9, <1>14 DEF PaidFor
<1>16. ASSUME NEW b \in Borrowed(p, i + 1)
       PROVE  Live(reserve'[p[b].reserve]) /\ PaidFor(b)'
  BY <1>6, <1>7, <1>8, <1>10, <1>15, <1>16
<1> QED BY <1>4, <1>16 DEF LoansPaid

\* Another instruction leaves paid for what was.
LEMMA OtherPaid ==
    ASSUME LoansOut, Accounts, FlashCash, FlashCash', LoansPaid, KeepsFees,
           FeesStay(token, token'), StaysOpen,
           Running, tx.at =< Len(tx.program), tx.program[tx.at].kind \in {"Lending", "Foreign"},
           tx' = [tx EXCEPT !.at = @ + 1]
    PROVE  LoansPaid'
<1>1. PICK p \in Seq(Instruction), i \in Nat :
          p = tx.program /\ i = tx.at /\ i \in 1..Len(p)
  BY DEF LoansOut
<1>2. tx'.program = p /\ tx'.at = i + 1 /\ tx'.began = tx.began
  BY <1>1, NextInstruction DEF LoansOut
<1>3. p[i].kind # "FlashBorrow" /\ p[i].kind # "FlashRepay"
  BY <1>1
<1>4. Borrowed(p, i + 1) = Borrowed(p, i)
  BY <1>1, <1>3 DEF Borrowed
<1>5. Pending(p, i + 1) = Pending(p, i)
  <2>1. \A b : \A j \in Later(p, b, "FlashRepay") : j \in Int /\ j # i
    BY <1>3 DEF Later
  <2>2. \A b : \A j \in Later(p, b, "FlashRepay") : j >= i <=> j >= i + 1
    BY <1>1, <2>1
  <2> QED BY <1>4, <2>2 DEF Pending
<1>6. ASSUME NEW b \in Borrowed(p, i)
      PROVE  /\ Live(reserve'[p[b].reserve])
             /\ b \in Pending(p, i) \/ PaidFor(b)'
  <2>1. p[b] \in Instruction /\ p[b].kind = "FlashBorrow"
    BY <1>1, <1>6 DEF Borrowed
  <2>2. p[b].reserve \in Reserves /\ p[b].amount \in Nat
    BY <2>1, InstructionFacts
  <2>3. Live(reserve[p[b].reserve]) /\ (b \in Pending(p, i) \/ PaidFor(b))
    BY <1>1, <1>6 DEF LoansPaid
  <2>4. Live(reserve'[p[b].reserve])
    BY <2>2, <2>3 DEF StaysOpen
  <2>5. ASSUME PaidFor(b)  PROVE PaidFor(b)'
    BY <1>1, <1>2, <2>2, <2>3, <2>5, StaysPaid
  <2> QED BY <2>3, <2>4, <2>5
<1> QED BY <1>2, <1>4, <1>5, <1>6 DEF LoansPaid

\* Nothing is due before a transaction begins to run.
LEMMA BeginPaid ==
    ASSUME NEW u, NEW program, Begin(u, program)
    PROVE  LoansPaid'
<1>1. Borrowed(program, 1) = {} /\ tx'.program = program /\ tx'.at = 1
  BY DEF Borrowed, Begin
<1> QED BY <1>1 DEF LoansPaid

\* The configurations that price flash loans stay as they are while a transaction
\* runs: its own instructions are free to change them, and the property speaks of
\* the fees in force when it commits.
SteadyFees == [][Running /\ Running' => KeepsFees]_flashVars

\* Every step keeps what was repaid paid for.
LEMMA LoansPaidStep ==
    ASSUME LoansOut, Accounts, FlashCash, FlashCash', LoansPaid, [FlashNext]_flashVars,
           Running /\ Running' => KeepsFees
    PROVE  LoansPaid'
<1>1. CASE UNCHANGED flashVars
  <2>1. tx' = tx /\ reserve' = reserve /\ token' = token
    BY <1>1 DEF flashVars, vars
  <2> QED BY <2>1 DEF LoansPaid, PaidFor, Running
<1>2. ASSUME NEW u \in Users, NEW program \in Programs, Begin(u, program)  PROVE LoansPaid'
  BY <1>2, BeginPaid
<1>3. CASE Execute
  <2>1. /\ Running /\ tx.at =< Len(tx.program) /\ tx' = [tx EXCEPT !.at = @ + 1]
        /\ KeepsFees
    BY <1>3, NextInstruction DEF Execute, LoansOut
  <2>2. CASE FlashBorrow
    BY <2>1, <2>2, BorrowPaid
  <2>3. CASE FlashRepay
    BY <2>1, <2>3, RepaymentPaid
  <2>4. CASE tx.program[tx.at].kind = "Lending" /\ LendingInstruction
    <3>1. [Next]_vars
      BY <2>4 DEF LendingInstruction, Next
    <3>2. StaysOpen
      BY <3>1, StepOpen
    <3>3. FeesStay(token, token')
      BY <2>4, FeesKept DEF FlashCash
    <3> QED BY <2>1, <2>4, <3>2, <3>3, OtherPaid
  <2>5. CASE tx.program[tx.at].kind = "Foreign" /\ UNCHANGED vars
    <3>1. reserve' = reserve /\ token' = token
      BY <2>5 DEF vars
    <3>2. StaysOpen
      BY <3>1 DEF StaysOpen
    <3>3. FeesStay(token, token')
      BY <3>1, FeesUntouched DEF FlashCash
    <3> QED BY <2>1, <2>5, <3>2, <3>3, OtherPaid
  <2> QED BY <1>3, <2>2, <2>3, <2>4, <2>5 DEF Execute
<1>4. CASE Commit \/ Abort
  BY <1>4 DEF Commit, Abort, LoansPaid, Running
<1>5. CASE Single
  BY <1>5 DEF Single, LoansPaid, Running
<1> QED BY <1>1, <1>2, <1>3, <1>4, <1>5 DEF FlashNext, RunTransaction

\* A transaction that has run to its end has repaid its loan, and so has paid for it.
LEMMA CommittedPaid ==
    ASSUME LoansOut, LoansPaid, Running, tx.at > Len(tx.program),
           NEW i \in DOMAIN tx.program, tx.program[i].kind = "FlashBorrow"
    PROVE  PaidFor(i)
<1>1. PICK p \in Seq(Instruction), at \in Nat : p = tx.program /\ at = tx.at /\ at = Len(p) + 1
  BY DEF LoansOut
<1>2. i \in Borrowed(p, at)
  BY <1>1 DEF Borrowed
<1>3. i \notin Pending(p, at)
  <2>1. ASSUME i \in Pending(p, at)  PROVE FALSE
    <3>1. PICK j \in Later(p, i, "FlashRepay") : TRUE
      BY <1>1, <1>2 DEF LoansOut, RepaidLater
    <3>2. j \in Int /\ j =< Len(p) /\ j >= at
      BY <2>1, <3>1 DEF Pending, Later
    <3> QED BY <1>1, <3>2
  <2> QED BY <2>1
<1> QED BY <1>1, <1>2, <1>3 DEF LoansPaid

\* A transaction that commits has paid the receivers of fees for its flash loan
\* (calculate_flash_loan_fees, process_flash_repay_reserve_liquidity), whatever it
\* ran between: as long as it does not itself change what loans are charged at.
THEOREM FlashLoansPaid == FlashSpec /\ SteadyFees => LoansArePaidFor
<1>1. FlashInit => LoansPaid
  BY DEF FlashInit, LoansPaid, Running
<1>2. LoansOut /\ FlashAccounts /\ FlashCash /\ FlashCash' /\ LoansPaid /\ [FlashNext]_flashVars
         /\ [Running /\ Running' => KeepsFees]_flashVars => LoansPaid'
  <2>1. UNCHANGED flashVars /\ LoansPaid => LoansPaid'
    <3>1. UNCHANGED flashVars => tx' = tx /\ reserve' = reserve /\ token' = token
      BY DEF flashVars, vars
    <3> QED BY <3>1 DEF LoansPaid, PaidFor, Running
  <2> QED BY <2>1, LoansPaidStep DEF FlashAccounts
<1>3. FlashSpec /\ SteadyFees => []LoansPaid
  BY <1>1, <1>2, LoansAreTheTransactions, FlashAccountsHold, FlashVaultsHold, PTL
     DEF FlashSpec, SteadyFees
<1>4. LoansOut /\ LoansPaid =>
        (tx # Idle /\ tx' = Idle /\ tx.at > Len(tx.program) =>
         \A i \in DOMAIN tx.program : tx.program[i].kind = "FlashBorrow" =>
            LET r      == tx.program[i].reserve
                c      == reserve[r].config
                before == Received(tx.began.token, r)
            IN  c.flash_loan_fee_wad > 0 /\ tx.program[i].amount > 0 =>
                  Received(token, r) - before >=
                     Larger(IF c.host_fee_percentage > 0 THEN 2 ELSE 1,
                            Floor(Mul(FromInt(tx.program[i].amount), c.flash_loan_fee_wad))))
  <2> SUFFICES ASSUME LoansOut, LoansPaid, tx # Idle, tx.at > Len(tx.program),
                      NEW i \in DOMAIN tx.program, tx.program[i].kind = "FlashBorrow"
               PROVE  PaidFor(i)
    BY DEF PaidFor, DueFor
  <2> QED BY CommittedPaid DEF Running
<1> QED BY <1>3, <1>4, LoansAreTheTransactions, PTL DEF LoansArePaidFor

=============================================================================
