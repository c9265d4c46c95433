--------------------------- MODULE BoundedOutflow ---------------------------
(***************************************************************************)
(* What a rate limiter promises, with none of its mechanism: no windows    *)
(* aligned to anything, no counters, no estimate.  There is a rule in      *)
(* force and a history of what left under it; an outflow may happen only   *)
(* if everything that left in the slots of one window that end now,        *)
(* itself included, is at most twice the rule's maximum.                   *)
(***************************************************************************)
EXTENDS Integers

CONSTANTS WAD,          \* one token
          Rules,        \* [window_duration, max_outflow]; no window, no limit
          Requests,     \* the outflows asked for
          LastSlot

VARIABLES slot, rule, released
vars == <<slot, rule, released>>

Nothing == [s \in 0..LastSlot |-> 0]

Init ==
    /\ slot \in 0..LastSlot
    /\ rule \in Rules
    /\ released = Nothing

\* Time frees what a rule holds back, and takes nothing back.
Pass ==
    /\ slot' = slot + 1
    /\ UNCHANGED <<rule, released>>

\* What left in the slots from..to under a history.
Sum(history, from, to) ==
    (IF to < 0 THEN 0 ELSE history[to]) - (IF from < 1 THEN 0 ELSE history[from - 1])

Leave(qty) ==
    /\ released' = [s \in 0..LastSlot |-> released[s] + IF s >= slot THEN qty ELSE 0]
    /\ rule.window_duration > 0 =>
          Sum(released', slot - rule.window_duration, slot) =< 2 * rule.max_outflow * WAD
    /\ UNCHANGED <<slot, rule>>

\* A new rule starts with an empty history.
Replace(new) ==
    /\ rule' = new
    /\ released' = Nothing
    /\ UNCHANGED slot

Next ==
    \/ Pass
    \/ \E qty \in Requests : Leave(qty)
    \/ \E new \in Rules : Replace(new)

Spec == Init /\ [][Next]_vars
=============================================================================
