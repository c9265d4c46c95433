---------------------------- MODULE RewardPayout ----------------------------
(***************************************************************************)
(* What dropping a reward promises, without queue, cursors or stakes: each *)
(* reward is dropped once, pays out of its own pot while it is open, each  *)
(* staker at most once, and pays nobody after it was closed.               *)
(***************************************************************************)
EXTENDS Integers

CONSTANTS Stakers, Rewarders, Totals

VARIABLES state,    \* [reward -> "none", "open" or "closed"]
          pot,      \* [reward -> tokens left to pay]
          given     \* [reward -> [staker -> tokens it was paid]]
vars == <<state, pot, given>>

Init ==
    /\ state = [r \in Rewarders |-> "none"]
    /\ pot = [r \in Rewarders |-> 0]
    /\ given = [r \in Rewarders |-> [s \in Stakers |-> 0]]

Drop(r, total) ==
    /\ state[r] = "none"
    /\ state' = [state EXCEPT ![r] = "open"]
    /\ pot' = [pot EXCEPT ![r] = total]
    /\ UNCHANGED given

\* The one payment of a staker from a reward, of some tokens that are there.
Pay(r, s) ==
    /\ state[r] = "open"
    /\ given[r][s] = 0
    /\ \E n \in 1..pot[r] :
          /\ pot' = [pot EXCEPT ![r] = @ - n]
          /\ given' = [given EXCEPT ![r][s] = n]
    /\ UNCHANGED state

Close(r) ==
    /\ state[r] # "none"
    /\ state' = [state EXCEPT ![r] = "closed"]
    /\ pot' = [pot EXCEPT ![r] = 0]
    /\ UNCHANGED given

Next ==
    \E r \in Rewarders :
        \/ \E total \in Totals : Drop(r, total)
        \/ \E s \in Stakers : Pay(r, s)
        \/ Close(r)

Spec == Init /\ [][Next]_vars
=============================================================================
