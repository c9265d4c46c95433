---------------------------- MODULE OutflowLimit ----------------------------
(***************************************************************************)
(* One rate limiter over time: slots pass, outflows are admitted by        *)
(* RateLimiter::update (a refused one aborts its transaction and changes   *)
(* nothing), and the owner or the risk authority may replace the           *)
(* configuration, which makes a new limiter.                               *)
(*                                                                         *)
(* The history variable `released` says what the limiter is about:         *)
(* released[s] is everything it has let through in slots 0..s since its    *)
(* configuration was set.                                                  *)
(***************************************************************************)
EXTENDS RateLimiter

CONSTANTS Configs,      \* the configurations an owner may choose
          Quantities,   \* the outflows requested, as Decimals
          MaxSlot,      \* bound on the clock
          MaxReleased   \* bound on what leaves under one configuration

ASSUME ConfigsAssumption ==
    Configs \subseteq [window_duration : Nat, max_outflow : Nat]
ASSUME QuantitiesAssumption == Quantities \subseteq Nat
ASSUME BoundsAssumption == MaxSlot \in Nat /\ MaxReleased \in Nat

VARIABLES slot,         \* Clock::slot
          limiter,      \* the RateLimiter record
          released      \* history: cumulative outflow by slot

vars == <<slot, limiter, released>>

Slots == 0..MaxSlot

-----------------------------------------------------------------------------
Init ==
    /\ slot \in Slots
    /\ \E c \in Configs : limiter = New(c, slot)
    /\ released = [s \in Slots |-> 0]

Tick ==
    /\ slot < MaxSlot
    /\ slot' = slot + 1
    /\ UNCHANGED <<limiter, released>>

\* A borrow, redemption or withdrawal of qty that the limiter admits.
Outflow(qty) ==
    /\ Admits(limiter, slot, qty)
    /\ released[slot] + qty =< MaxReleased
    /\ limiter' = Updated(limiter, slot, qty)
    /\ released' = [s \in Slots |-> IF s >= slot THEN released[s] + qty
                                                 ELSE released[s]]
    /\ UNCHANGED slot

\* A configuration that differs from the current one makes a new limiter.
Configure(c) ==
    /\ c # limiter.config
    /\ limiter' = New(c, slot)
    /\ released' = [s \in Slots |-> 0]
    /\ UNCHANGED slot

Next ==
    \/ Tick
    \/ \E qty \in Quantities : Outflow(qty)
    \/ \E c \in Configs : Configure(c)

Spec == Init /\ [][Next]_vars

-----------------------------------------------------------------------------
\* What was released up to slot s, and in the slots from..to.
Before(s) == IF s < 0 THEN 0 ELSE released[s]
ReleasedIn(from, to) == Before(to) - Before(from - 1)

Enabled == limiter.config.window_duration > 0
Window == limiter.config.window_duration
MaxOutflow == FromInt(limiter.config.max_outflow)

TypeOK ==
    /\ slot \in Slots
    /\ limiter \in [config : Configs, prev_qty : Nat, window_start : Slots,
                    cur_qty : Nat]
    /\ released \in [Slots -> Nat]

\* The two counters are what their comments in the source say: cur_qty is
\* everything released since window_start and prev_qty everything released
\* in the window before it, however many windows passed without a call.
CountersMatchHistory ==
    Enabled =>
        /\ limiter.cur_qty = ReleasedIn(limiter.window_start, slot)
        /\ limiter.prev_qty =
               ReleasedIn(limiter.window_start - Window, limiter.window_start - 1)

\* A limiter through which nothing left for two windows gives its whole
\* capacity back.
RecoversAfterTwoWindows ==
    Enabled /\ ReleasedIn(slot - 2 * Window, slot) = 0 =>
        RemainingOutflow(limiter, slot, 0) = MaxOutflow

\* remaining_outflow, which caps the amount of a borrow, promises exactly
\* what the update that follows it admits.
RemainingIsWhatUpdateAdmits ==
    Enabled => \A qty \in Quantities :
        qty =< RemainingOutflow(limiter, slot, 0) <=> Admits(limiter, slot, qty)

-----------------------------------------------------------------------------
\* The guarantee of the limiter, whatever the pauses and reconfigurations: it
\* lets out only what module BoundedOutflow allows, twice the maximum over any
\* slots of one window, although it remembers two numbers and not a history.
Promise == INSTANCE BoundedOutflow WITH
               rule <- limiter.config, Rules <- Configs,
               Requests <- Quantities, LastSlot <- MaxSlot
OutflowIsBounded == Promise!Spec
=============================================================================
