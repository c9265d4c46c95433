--------------------------- MODULE MCPoolManager ---------------------------
\* Two stakers, each with a set of its own and one for its locker.
EXTENDS PoolManager, TLC

CONSTANTS ann, bob, annSet, bobSet, annLocked, bobLocked

MCSymmetry == Permutations(Rewarders)

MCSets == {annSet, bobSet, annLocked, bobLocked}
MCSetsOf == [s \in Stakers |-> {IF s = ann THEN annSet ELSE bobSet}]
MCLockedSetsOf == [s \in Stakers |-> {IF s = ann THEN annLocked ELSE bobLocked}]
\* Tokens for two pool tokens each, at a rate of two.
MCWallet == [s \in Stakers |-> 4]
MCUneven == [s \in Stakers |-> IF s = ann THEN 2 ELSE 1]
MCNothing == [s \in Stakers |-> 0]
MCLockerFunds == [s \in Stakers |-> IF s = ann THEN 2 ELSE 0]
=============================================================================
