---------------------------- MODULE RateLimiter -----------------------------
(***************************************************************************)
(* The sliding-window limiter of sdk/src/state/rate_limiter.rs, as         *)
(* functions on its record.  A lending market holds one (it counts market  *)
(* value) and every reserve holds one (it counts tokens).  Module          *)
(* OutflowLimit runs it against the history of what it let through.        *)
(***************************************************************************)
EXTENDS Decimals

\* RateLimiterConfig: the window in slots, and the outflow allowed in one.
\* A window of 0 slots disables the limiter.
Config(window, max) == [window_duration |-> window, max_outflow |-> max]

LimiterConfigType == [window_duration : Nat, max_outflow : Nat]
LimiterType ==
    [config : LimiterConfigType, prev_qty : Nat, window_start : Nat, cur_qty : Nat]

\* RateLimiter::new.
WindowStartUp(slot, window) ==
    IF window = 0 THEN slot ELSE ((slot + window - 1) \div window) * window
WindowStart(slot, window) ==
    IF window = 0 THEN slot ELSE (slot \div window) * window

New(config, slot) ==
    [config       |-> config,
     prev_qty     |-> 0,
     window_start |-> WindowStart(slot, config.window_duration),
     cur_qty      |-> 0]

\* A roll that forgets the window that has just ended.
RolledForgets(rl, slot) ==
    LET start == WindowStart(slot, rl.config.window_duration)
        next  == rl.window_start + rl.config.window_duration
    IN  IF start < next THEN rl
        ELSE [rl EXCEPT !.window_start = start, !.prev_qty = 0, !.cur_qty = 0]

\* A roll that treats a window skipped entirely like one that has just ended.
RolledKeeps(rl, slot) ==
    LET start == WindowStart(slot, rl.config.window_duration)
        next  == rl.window_start + rl.config.window_duration
    IN  IF start < next THEN rl
        ELSE [rl EXCEPT !.window_start = start, !.prev_qty = rl.cur_qty,
                        !.cur_qty = 0]

\* _update: the limiter brought to the window of this slot.  The previous
\* window's outflow is kept only when the new window follows it directly.
Rolled(rl, slot) ==
    LET start == WindowStart(slot, rl.config.window_duration)
        next  == rl.window_start + rl.config.window_duration
    IN  IF start < next THEN rl
        ELSE [rl EXCEPT !.window_start = start,
                        !.prev_qty = IF start = next THEN rl.cur_qty ELSE 0,
                        !.cur_qty = 0]

\* current_outflow of a limiter that has been rolled to this slot: what is
\* left of the previous window is taken to be evenly spread over it.
CurrentOutflow(rl, slot) ==
    LET window == rl.config.window_duration
        left   == FromInt(window) - FromInt(slot - rl.window_start + 1)
    IN  Mul(DivInt(left, window), rl.prev_qty) + rl.cur_qty

\* remaining_outflow; Unlimited stands for u64::MAX of a disabled limiter.
RemainingOutflow(rl, slot, Unlimited) ==
    IF rl.config.window_duration = 0 THEN Unlimited
    ELSE LET out == CurrentOutflow(Rolled(rl, slot), slot)
             max == FromInt(rl.config.max_outflow)
         IN  IF out > max THEN 0 ELSE max - out

\* An update that looks at the current window only.
AdmitsWindow(rl, slot, qty) ==
    rl.config.window_duration # 0 =>
        qty =< FromInt(rl.config.max_outflow)

\* An update that refuses the last unit.
AdmitsBelow(rl, slot, qty) ==
    rl.config.window_duration # 0 =>
        CurrentOutflow(Rolled(rl, slot), slot) + qty < FromInt(rl.config.max_outflow)

\* update: it succeeds when the outflow with qty stays within the maximum...
Admits(rl, slot, qty) ==
    rl.config.window_duration # 0 =>
        CurrentOutflow(Rolled(rl, slot), slot) + qty =< FromInt(rl.config.max_outflow)

\* ...and then counts qty in the window of this slot.
Updated(rl, slot, qty) ==
    IF rl.config.window_duration = 0 THEN rl
    ELSE LET r == Rolled(rl, slot) IN [r EXCEPT !.cur_qty = @ + qty]
=============================================================================
