------------------------------ MODULE Decimals ------------------------------
(***************************************************************************)
(* Fixed-point arithmetic of token-lending/sdk/src/math.  A Decimal is a   *)
(* natural number scaled by WAD; multiplication and division truncate.     *)
(* The checked operations of the source return an error on overflow and    *)
(* on a negative difference: the callers state those as guards (a - b is   *)
(* written only where b =< a is a guard or an earlier conjunct).           *)
(***************************************************************************)
EXTENDS Integers

CONSTANT WAD        \* the scale; 10^18 in the source, small in the models

ASSUME WADAssumption == WAD \in Nat \ {0}

\* Decimal::one and Decimal::from(u64).
One == WAD
FromInt(n) == n * WAD

\* TryMul<Decimal>, TryDiv<Decimal>, TryDiv<u64>: all truncate.
Mul(a, b) == (a * b) \div WAD
Div(a, b) == (a * WAD) \div b
DivInt(a, n) == a \div n

\* try_floor_u64 and try_ceil_u64.
Floor(a) == a \div WAD
Ceil(a) == (a + WAD - 1) \div WAD

\* try_round_u64: a half rounds up.
Round(a) == (a + WAD \div 2) \div WAD

\* Decimal::from_percent (WAD is a multiple of 100 in every instance),
\* from_deca_bps and from_bps.
FromPercent(p) == p * (WAD \div 100)
FromDecaBps(d) == DivInt(FromInt(d), 1000)
FromBps(b) == DivInt(FromInt(b), 10000)

\* Rate::try_pow: square and multiply, truncating at every product.
PowLoop[exp \in Nat] ==
    [base \in Nat |-> [ret \in Nat |->
        IF exp = 0 THEN ret
        ELSE LET half   == exp \div 2
                 square == Mul(base, base)
             IN  PowLoop[half][square][IF half % 2 # 0 THEN Mul(ret, square) ELSE ret]]]
Pow(base, exp) == PowLoop[exp][base][IF exp % 2 # 0 THEN base ELSE One]

Smaller(a, b) == IF a =< b THEN a ELSE b
Larger(a, b) == IF a >= b THEN a ELSE b
=============================================================================
