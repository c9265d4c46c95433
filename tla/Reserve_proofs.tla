--------------------------- MODULE Reserve_proofs ---------------------------
(***************************************************************************)
(* Facts about the operators of a reserve, from the truncating arithmetic  *)
(* of Decimal and the windows of the rate limiter up to interest, loans    *)
(* and liquidations: what the proofs of the modules built on them cite.    *)
(* The provers reason poorly about products and quotients of variables, so *)
(* each fact is stated once and cited by name.                             *)
(***************************************************************************)
EXTENDS Reserve, WellFoundedInduction, TLAPS

\* Integer division truncates: the quotient times the divisor is at most one
\* divisor below the dividend.
LEMMA DivFacts ==
  ASSUME NEW a \in Nat, NEW b \in Nat \ {0}
  PROVE  /\ a \div b \in Nat
         /\ (a \div b) * b =< a
         /\ a < (a \div b) * b + b
BY SMT

\* A product of naturals is a natural, and grows with either factor.
LEMMA ProductNat ==
  ASSUME NEW a \in Nat, NEW b \in Nat
  PROVE  a * b \in Nat
BY SMT

\* A larger factor makes a product no smaller.
LEMMA ProductMonotone ==
  ASSUME NEW a \in Int, NEW b \in Int, NEW n \in Nat, a =< b
  PROVE  a * n =< b * n
BY SMT

\* Division by the same divisor keeps the order.
LEMMA DivMonotone ==
  ASSUME NEW a \in Nat, NEW c \in Nat, NEW b \in Nat \ {0}, a =< c
  PROVE  a \div b =< c \div b
<1>1. /\ a \div b \in Nat /\ (a \div b) * b =< a
      /\ c \div b \in Nat /\ c < (c \div b) * b + b
  BY DivFacts
<1>2. (a \div b) * b < ((c \div b) + 1) * b
  BY <1>1, SMT
<1>3. CASE a \div b > c \div b
  <2>1. ((c \div b) + 1) * b =< (a \div b) * b
    BY <1>1, <1>3, ProductMonotone, SMT
  <2> QED BY <1>1, <1>2, <2>1, SMT
<1> QED BY <1>1, <1>3, SMT

\* Every operation of Decimal yields a natural number.
LEMMA DecimalNat ==
  ASSUME NEW a \in Nat, NEW b \in Nat
  PROVE  /\ FromInt(a) \in Nat
         /\ Mul(a, b) \in Nat
         /\ Floor(a) \in Nat
         /\ Ceil(a) \in Nat
         /\ b # 0 => Div(a, b) \in Nat /\ DivInt(a, b) \in Nat
BY DivFacts, ProductNat, WADAssumption, SMT DEF FromInt, Mul, Floor, Ceil, Div, DivInt

\* Floor of a whole amount is the amount, and rounding brackets its argument.
LEMMA FloorFromInt ==
  ASSUME NEW n \in Nat
  PROVE  Floor(FromInt(n)) = n
<1> DEFINE q == (n * WAD) \div WAD
<1>1. n * WAD \in Nat
  BY WADAssumption, ProductNat
<1>2. q \in Nat /\ q * WAD =< n * WAD /\ n * WAD < q * WAD + WAD
  BY <1>1, WADAssumption, DivFacts
<1>3. CASE q > n
  <2>1. (n + 1) * WAD =< q * WAD
    BY <1>2, <1>3, WADAssumption, ProductMonotone, SMT
  <2> QED BY <1>2, <2>1, WADAssumption, SMT
<1>4. CASE q < n
  <2>1. (q + 1) * WAD =< n * WAD
    BY <1>2, <1>4, WADAssumption, ProductMonotone, SMT
  <2> QED BY <1>2, <2>1, WADAssumption, SMT
<1> QED BY <1>2, <1>3, <1>4, SMT DEF Floor, FromInt

\* A whole number of units within a Decimal is within its floor.
LEMMA FloorBounds ==
  ASSUME NEW a \in Nat
  PROVE  /\ FromInt(Floor(a)) =< a
         /\ a < FromInt(Floor(a)) + WAD
BY WADAssumption, DivFacts DEF Floor, FromInt

\* Multiplication keeps the order, and a fraction of a quantity is at most
\* the quantity.
LEMMA MulMonotone ==
  ASSUME NEW f \in Nat, NEW g \in Nat, NEW q \in Nat, f =< g
  PROVE  Mul(f, q) =< Mul(g, q)
<1>1. f * q =< g * q /\ f * q \in Nat /\ g * q \in Nat
  BY ProductMonotone, ProductNat
<1> QED BY <1>1, WADAssumption, DivMonotone DEF Mul

\* A fraction of a quantity is at most the quantity.
LEMMA FractionBelow ==
  ASSUME NEW f \in Nat, NEW q \in Nat, f =< WAD
  PROVE  Mul(f, q) =< q
<1>1. Mul(f, q) =< Mul(WAD, q)
  BY WADAssumption, MulMonotone
<1>2. Mul(WAD, q) = q
  BY WADAssumption, FloorFromInt, SMT DEF Mul, Floor, FromInt
<1> QED BY <1>1, <1>2
-----------------------------------------------------------------------------
\* Recursion on the naturals, without the library's rules of induction: a set
\* of naturals has a least element.

\* A non-empty set of naturals has a least one.
LEMMA LeastNat ==
  ASSUME NEW T, T \subseteq Nat, T # {}
  PROVE  \E n \in T : \A m \in T : n =< m
<1>1. PICK n \in T : \A m \in T : ~ (<<m, n>> \in OpToRel(<, Nat))
  BY NatLessThanWellFounded, WFMin
<1>2. ASSUME NEW m \in T  PROVE n =< m
  <2>1. <<m, n>> \in Nat \X Nat /\ <<m, n>>[1] = m /\ <<m, n>>[2] = n
    OBVIOUS
  <2>2. ~ (m < n)
    BY <1>1, <2>1 DEF OpToRel
  <2> QED BY <2>2
<1> QED BY <1>2

\* What the recursion of try_pow says of one exponent; its solutions up to an
\* exponent and for all.
PowBody(g, exp) ==
    [base \in Nat |-> [ret \in Nat |->
        IF exp = 0 THEN ret
        ELSE LET half   == exp \div 2
                 square == Mul(base, base)
             IN  g[half][square][IF half % 2 # 0 THEN Mul(ret, square) ELSE ret]]]
PowsUpTo(g, n) == g = [exp \in 0..n |-> PowBody(g, exp)]
Pows(g) == g = [exp \in Nat |-> PowBody(g, exp)]

\* Half of a positive exponent is a smaller one.
LEMMA HalfSmaller ==
  ASSUME NEW e \in Nat, e # 0
  PROVE  e \div 2 \in Nat /\ e \div 2 < e
BY SMT

\* The recursion looks at the half only.
LEMMA PowBodyEqual ==
  ASSUME NEW g, NEW h, NEW e \in Nat, e # 0 => g[e \div 2] = h[e \div 2]
  PROVE  PowBody(g, e) = PowBody(h, e)
<1>1. CASE e = 0
  BY <1>1, Zenon DEF PowBody
<1>2. CASE e # 0
  <2>1. g[e \div 2] = h[e \div 2]
    BY <1>2
  <2> QED BY <2>1, Zenon DEF PowBody
<1> QED BY <1>1, <1>2

\* Solutions up to two exponents agree up to the smaller.
LEMMA PowsAgree ==
  ASSUME NEW n \in Nat, NEW m \in Nat, n =< m,
         NEW g, PowsUpTo(g, n), NEW h, PowsUpTo(h, m)
  PROVE  \A e \in 0..n : g[e] = h[e]
<1> DEFINE Bad == {e \in 0..n : g[e] # h[e]}
<1>1. SUFFICES ASSUME Bad # {}  PROVE FALSE
  OBVIOUS
<1>2. PICK e \in Bad : \A d \in Bad : e =< d
  <2>1. Bad \subseteq Nat
    OBVIOUS
  <2> HIDE DEF Bad
  <2> QED BY <1>1, <2>1, LeastNat
<1>3. e # 0 => g[e \div 2] = h[e \div 2]
  <2>1. SUFFICES ASSUME e # 0  PROVE g[e \div 2] = h[e \div 2]
    OBVIOUS
  <2>2. e \div 2 \in 0..n /\ e \div 2 < e
    BY <2>1, HalfSmaller
  <2>3. e \div 2 \notin Bad
    <3> HIDE DEF Bad
    <3>1. e \in 0..n
      BY DEF Bad
    <3> QED BY <1>2, <2>2, <3>1
  <2> QED BY <2>2, <2>3
<1>4. PowBody(g, e) = PowBody(h, e)
  BY <1>3, PowBodyEqual
<1>5. g[e] = PowBody(g, e) /\ h[e] = PowBody(h, e)
  <2>1. e \in 0..n /\ e \in 0..m
    OBVIOUS
  <2> QED BY <2>1, Zenon DEF PowsUpTo
<1> QED BY <1>4, <1>5

\* There is a solution up to every exponent.
LEMMA PowsUpToExist ==
  ASSUME NEW n \in Nat
  PROVE  \E g : PowsUpTo(g, n)
<1> DEFINE Bad == {m \in Nat : ~ \E g : PowsUpTo(g, m)}
<1>1. SUFFICES ASSUME Bad # {}  PROVE FALSE
  OBVIOUS
<1>2. PICK m \in Bad : \A d \in Bad : m =< d
  <2>1. Bad \subseteq Nat
    OBVIOUS
  <2> HIDE DEF Bad
  <2> QED BY <1>1, <2>1, LeastNat
<1>3. m \in Nat
  OBVIOUS
<1>4. PICK h : m # 0 => PowsUpTo(h, m - 1)
  <2>1. CASE m = 0
    BY <2>1
  <2>2. CASE m # 0
    <3>1. m - 1 \in Nat /\ m - 1 \notin Bad
      <4> HIDE DEF Bad
      <4> QED BY <1>2, <1>3, <2>2
    <3> QED BY <3>1
  <2> QED BY <2>1, <2>2
<1> DEFINE g == [exp \in 0..m |-> PowBody(h, exp)]
<1>5. ASSUME NEW e \in 0..m  PROVE PowBody(g, e) = PowBody(h, e)
  <2>1. ASSUME e # 0  PROVE g[e \div 2] = h[e \div 2]
    <3>1. e \div 2 \in 0..m /\ e \div 2 \in 0..(m - 1) /\ m # 0
      BY <1>3, <2>1, HalfSmaller
    <3>2. h[e \div 2] = PowBody(h, e \div 2)
      BY <1>4, <3>1, Zenon DEF PowsUpTo
    <3> QED BY <3>1, <3>2
  <2> HIDE DEF g
  <2>2. e \in Nat
    BY <1>3
  <2> QED BY <2>1, <2>2, PowBodyEqual
<1>6. g = [exp \in 0..m |-> PowBody(g, exp)]
  <2> DEFINE f == [exp \in 0..m |-> PowBody(g, exp)]
  <2>1. ASSUME NEW e \in 0..m  PROVE g[e] = PowBody(g, e)
    BY <1>5
  <2> QED BY <2>1, Zenon
<1>7. PowsUpTo(g, m)
  BY <1>6 DEF PowsUpTo
<1> QED BY <1>7

\* There is a solution for all exponents, and try_pow is one.
LEMMA PowLoopStep == Pows(PowLoop)
<1> DEFINE Part(n) == CHOOSE g : PowsUpTo(g, n)
           G == [exp \in Nat |-> Part(exp)[exp]]
<1>1. \A n \in Nat : PowsUpTo(Part(n), n)
  BY PowsUpToExist
<1>2. ASSUME NEW e \in Nat  PROVE G[e] = PowBody(G, e)
  <2>1. Part(e)[e] = PowBody(Part(e), e)
    <3> HIDE DEF Part
    <3>1. e \in 0..e
      OBVIOUS
    <3> QED BY <1>1, <3>1, Zenon DEF PowsUpTo
  <2>2. ASSUME e # 0  PROVE Part(e)[e \div 2] = G[e \div 2]
    <3>1. e \div 2 \in Nat /\ e \div 2 =< e /\ e \div 2 \in 0..(e \div 2)
      BY <2>2, HalfSmaller
    <3> HIDE DEF Part
    <3>2. Part(e \div 2)[e \div 2] = Part(e)[e \div 2]
      BY <1>1, <3>1, PowsAgree
    <3> QED BY <3>1, <3>2
  <2> HIDE DEF G, Part
  <2>3. PowBody(Part(e), e) = PowBody(G, e)
    BY <2>2, PowBodyEqual
  <2> QED BY <2>1, <2>3 DEF G
<1>3. G = [exp \in Nat |-> PowBody(G, exp)]
  <2>1. G = [exp \in Nat |-> G[exp]]
    OBVIOUS
  <2> HIDE DEF G
  <2> QED BY <1>2, <2>1, Zenon
<1>4. \E g : Pows(g)
  <2> HIDE DEF G
  <2> QED BY <1>3 DEF Pows
<1> HIDE DEF G
<1>5. PowLoop = CHOOSE g : Pows(g)
  BY Zenon DEF PowLoop, Pows, PowBody
<1> QED BY <1>4, <1>5

\* Squares and products of rates of at least one are at least one.
LEMMA ProductOfRates ==
  ASSUME NEW a \in Nat, NEW b \in Nat, b >= WAD
  PROVE  Mul(a, b) \in Nat /\ Mul(a, b) >= a
<1>1. a * WAD =< a * b
  BY WADAssumption, ProductMonotone, SMT
<1>2. a * WAD \in Nat /\ a * b \in Nat
  BY WADAssumption, ProductNat
<1>3. (a * WAD) \div WAD =< (a * b) \div WAD
  BY <1>1, <1>2, WADAssumption, DivMonotone
<1>4. (a * WAD) \div WAD = a
  BY FloorFromInt DEF Floor, FromInt
<1> QED BY <1>3, <1>4, DecimalNat DEF Mul

\* A power of a rate of at least one is a rate of at least one.
LEMMA PowAtLeastOne ==
  ASSUME NEW base \in Nat, base >= WAD, NEW exp \in Nat
  PROVE  Pow(base, exp) \in Nat /\ Pow(base, exp) >= WAD
<1> DEFINE Rates == {b \in Nat : b >= WAD}
           Bad == {e \in Nat : \E b, r \in Rates : PowLoop[e][b][r] \notin Rates}
<1>1. ASSUME Bad # {}  PROVE FALSE
  <2>1. PICK e \in Bad : \A d \in Bad : e =< d
    <3>1. Bad \subseteq Nat
      OBVIOUS
    <3> HIDE DEF Bad
    <3> QED BY <1>1, <3>1, LeastNat
  <2>2. PICK b, r \in Rates : PowLoop[e][b][r] \notin Rates
    OBVIOUS
  <2> DEFINE half == e \div 2
             square == Mul(b, b)
             next == IF half % 2 # 0 THEN Mul(r, square) ELSE r
  <2>3. e \in Nat /\ b \in Nat /\ r \in Nat
    OBVIOUS
  <2>4. PowLoop[e][b][r] = IF e = 0 THEN r ELSE PowLoop[half][square][next]
    <3>1. PowLoop[e] = PowBody(PowLoop, e)
      BY <2>3, PowLoopStep, Zenon DEF Pows
    <3> QED BY <2>3, <3>1 DEF PowBody
  <2>5. square \in Rates
    BY ProductOfRates, WADAssumption
  <2>6. next \in Rates
    <3> HIDE DEF square
    <3>1. square \in Nat /\ square >= WAD /\ r \in Nat /\ r >= WAD
      BY <2>5
    <3>2. Mul(r, square) \in Nat /\ Mul(r, square) >= r
      BY <3>1, ProductOfRates
    <3>3. Mul(r, square) \in Rates
      BY <3>1, <3>2, WADAssumption
    <3> QED BY <3>3
  <2>7. e # 0
    BY <2>2, <2>4
  <2>8. half \in Nat /\ half < e
    BY <2>3, <2>7, HalfSmaller
  <2> HIDE DEF half, square, next
  <2>9. half \in Bad
    BY <2>2, <2>4, <2>5, <2>6, <2>7, <2>8
  <2> HIDE DEF Bad
  <2> QED BY <2>1, <2>3, <2>8, <2>9
<1>2. base \in Rates /\ One \in Rates
  BY WADAssumption DEF One
<1>3. PowLoop[exp][base][IF exp % 2 # 0 THEN base ELSE One] \in Rates
  BY <1>1, <1>2
<1> QED BY <1>3 DEF Pow

-----------------------------------------------------------------------------
\* The windows of the rate limiter.

\* The start of a slot's window: it is at or before the slot, less than a
\* window away, and the start of its own window.
LEMMA WindowStartFacts ==
  ASSUME NEW s \in Nat, NEW w \in Nat \ {0}
  PROVE  /\ WindowStart(s, w) \in Nat
         /\ WindowStart(s, w) =< s
         /\ s < WindowStart(s, w) + w
         /\ WindowStart(WindowStart(s, w), w) = WindowStart(s, w)
<1> DEFINE q == s \div w
<1>1. q \in Nat /\ q * w =< s /\ s < q * w + w
  BY DivFacts
<1>2. q * w \in Nat
  BY <1>1, ProductNat
<1>3. (q * w) \div w = q
  <2>1. (q * w) \div w \in Nat /\ ((q * w) \div w) * w =< q * w
        /\ q * w < ((q * w) \div w) * w + w
    BY <1>2, DivFacts
  <2>2. (q * w) \div w =< q
    BY <2>1, <1>1, ProductMonotone, SMT
  <2>3. (q * w) \div w >= q
    BY <2>1, <1>1, ProductMonotone, SMT
  <2> QED BY <2>1, <2>2, <2>3, <1>1, SMT
<1> QED BY <1>1, <1>2, <1>3 DEF WindowStart

\* Two window starts less than a window apart are the same window.
LEMMA SameWindow ==
  ASSUME NEW s \in Nat, NEW t \in Nat, NEW w \in Nat \ {0},
         t =< s, t = WindowStart(t, w), WindowStart(s, w) < t + w
  PROVE  WindowStart(s, w) = t
<1>1. /\ s \div w \in Nat /\ (s \div w) * w =< s /\ s < (s \div w) * w + w
      /\ t \div w \in Nat /\ (t \div w) * w =< t /\ t < (t \div w) * w + w
  BY DivFacts
<1>2. t \div w =< s \div w
  BY DivMonotone
<1>3. CASE s \div w > t \div w
  <2>1. ((t \div w) + 1) * w =< (s \div w) * w
    BY <1>1, <1>3, ProductMonotone, SMT
  <2>2. ((t \div w) + 1) * w = (t \div w) * w + w
    BY <1>1, SMT
  <2> QED BY <1>1, <2>1, <2>2, SMT DEF WindowStart
<1>4. CASE s \div w = t \div w
  BY <1>4 DEF WindowStart
<1> QED BY <1>1, <1>2, <1>3, <1>4, SMT

\* Distinct windows start a whole number of windows apart.
LEMMA LaterWindow ==
  ASSUME NEW s \in Nat, NEW t \in Nat, NEW w \in Nat \ {0},
         t = WindowStart(t, w), WindowStart(s, w) > t + w
  PROVE  WindowStart(s, w) >= t + 2 * w
<1> DEFINE i == t \div w
           j == s \div w
<1>1. i \in Nat /\ j \in Nat /\ t = i * w /\ WindowStart(s, w) = j * w
  BY DivFacts DEF WindowStart
<1>2. (i + 1) * w = t + w /\ (i + 2) * w = t + 2 * w
  BY <1>1, SMT
<1> HIDE DEF i, j
<1>3. CASE j =< i + 1
  <2>1. j * w =< (i + 1) * w
    BY <1>1, <1>3, ProductMonotone, SMT
  <2> QED BY <1>1, <1>2, <2>1, SMT
<1>4. CASE j >= i + 2
  <2>1. (i + 2) * w =< j * w
    BY <1>1, <1>4, ProductMonotone, SMT
  <2> QED BY <1>1, <1>2, <2>1, SMT
<1> QED BY <1>1, <1>3, <1>4, SMT

\* A slot lies in one window only.
LEMMA UniqueWindow ==
  ASSUME NEW a \in Nat, NEW b \in Nat, NEW x \in Nat, NEW w \in Nat \ {0},
         a = WindowStart(a, w), a =< x, x < a + w,
         b = WindowStart(b, w), b =< x, x < b + w
  PROVE  a = b
<1> DEFINE i == a \div w
           j == b \div w
<1>1. i \in Nat /\ j \in Nat /\ a = i * w /\ b = j * w
  BY DivFacts DEF WindowStart
<1>2. (i + 1) * w = a + w /\ (j + 1) * w = b + w
  BY <1>1, SMT
<1> HIDE DEF i, j
<1>3. ~(i + 1 =< j)
  BY <1>1, <1>2, ProductMonotone, SMT
<1>4. ~(j + 1 =< i)
  BY <1>1, <1>2, ProductMonotone, SMT
<1>5. i = j
  BY <1>1, <1>3, <1>4, SMT
<1> QED BY <1>1, <1>5

\* The weight of the previous window is a fraction, and falls slot by slot.
LEMMA WeightFacts ==
  ASSUME NEW w \in Nat \ {0}, NEW k \in 1..w, NEW l \in 1..w, k =< l
  PROVE  /\ FromInt(w) - FromInt(k) \in Nat
         /\ DivInt(FromInt(w) - FromInt(k), w) \in Nat
         /\ DivInt(FromInt(w) - FromInt(k), w) =< WAD
         /\ DivInt(FromInt(w) - FromInt(l), w) =< DivInt(FromInt(w) - FromInt(k), w)
<1> DEFINE left(n) == w * WAD - n * WAD
<1>1. k * WAD =< w * WAD /\ l * WAD =< w * WAD /\ k * WAD =< l * WAD
      /\ k * WAD \in Nat /\ l * WAD \in Nat /\ w * WAD \in Nat
  BY WADAssumption, ProductMonotone, ProductNat, SMT
<1>2. left(k) \in Nat /\ left(l) \in Nat /\ left(l) =< left(k) /\ left(k) =< w * WAD
  BY <1>1, SMT
<1>3. left(k) \div w \in Nat /\ left(l) \div w =< left(k) \div w
  BY <1>2, DivFacts, DivMonotone
<1>4. (w * WAD) \div w = WAD
  <2>1. (w * WAD) \div w \in Nat /\ ((w * WAD) \div w) * w =< WAD * w
        /\ WAD * w < ((w * WAD) \div w) * w + w
    BY <1>1, WADAssumption, DivFacts, SMT
  <2> DEFINE q == (w * WAD) \div w
  <2> HIDE DEF q
  <2>2. ~(WAD + 1 =< q)
    <3>1. WAD + 1 =< q => (WAD + 1) * w =< q * w
      BY <2>1, WADAssumption, ProductMonotone, SMT DEF q
    <3>2. (WAD + 1) * w = WAD * w + w
      BY WADAssumption, SMT
    <3> QED BY <2>1, <3>1, <3>2, WADAssumption, SMT DEF q
  <2>3. ~(q + 1 =< WAD)
    <3>1. q + 1 =< WAD => (q + 1) * w =< WAD * w
      BY <2>1, WADAssumption, ProductMonotone, SMT DEF q
    <3>2. (q + 1) * w = q * w + w
      BY <2>1, SMT DEF q
    <3> QED BY <2>1, <3>1, <3>2, WADAssumption, SMT DEF q
  <2> QED BY <2>1, <2>2, <2>3, WADAssumption, SMT DEF q
<1>5. left(k) \div w =< WAD
  BY <1>1, <1>2, <1>4, DivMonotone
<1> QED BY <1>2, <1>3, <1>5 DEF FromInt, DivInt

-----------------------------------------------------------------------------
\* The floor of a quotient is at most a number that bounds it.
LEMMA QuotientBound ==
    ASSUME NEW a \in Nat, NEW b \in Nat \ {0}, NEW n \in Nat, a =< n * b
    PROVE  a \div b =< n
<1>1. a \div b \in Nat /\ (a \div b) * b =< a
  BY DivFacts
<1>2. CASE a \div b > n
  <2>1. (n + 1) * b =< (a \div b) * b
    BY <1>1, <1>2, ProductMonotone, SMT
  <2> QED BY <1>1, <2>1, SMT
<1> QED BY <1>1, <1>2, SMT

\* Liquidity exchanged for collateral tokens and back, at one exchange rate,
\* is never worth more than it was.
THEOREM RoundTripNeverGains ==
    ASSUME NEW res, ExchangeRate(res) \in Nat \ {0}, NEW liq \in Nat
    PROVE  CollateralToLiquidity(res, LiquidityToCollateral(res, liq)) =< liq
<1> DEFINE rate == ExchangeRate(res)
           coll == LiquidityToCollateral(res, liq)
           back == Div(FromInt(coll), rate)
<1>1. PICK x \in Nat : x = Mul(FromInt(liq), rate)
  BY DecimalNat
<1>2. x =< liq * rate
  <2>1. FromInt(liq) * rate = (liq * rate) * WAD /\ liq * rate \in Nat
    BY WADAssumption, ProductNat, SMT DEF FromInt
  <2>2. (liq * rate) * WAD \in Nat
    BY <2>1, WADAssumption, ProductNat
  <2> HIDE DEF rate
  <2> QED BY <1>1, <2>1, <2>2, WADAssumption, QuotientBound DEF Mul
<1>3. coll \in Nat /\ FromInt(coll) =< x /\ FromInt(coll) \in Nat
  BY <1>1, DecimalNat, FloorBounds DEF LiquidityToCollateral
<1> HIDE DEF coll, rate
<1>4. back \in Nat /\ back =< FromInt(liq)
  <2>1. FromInt(coll) * WAD =< (liq * rate) * WAD
    <3>1. liq * rate \in Nat
      BY ProductNat DEF rate
    <3> QED BY <1>2, <1>3, <3>1, WADAssumption, ProductMonotone, SMT
  <2>2. (liq * rate) * WAD = FromInt(liq) * rate
    BY WADAssumption, SMT DEF FromInt, rate
  <2>3. FromInt(coll) * WAD \in Nat /\ FromInt(liq) \in Nat
    BY <1>3, WADAssumption, ProductNat, DecimalNat
  <2> QED BY <2>1, <2>2, <2>3, QuotientBound, DivFacts DEF Div, rate
<1> HIDE DEF back
<1>5. Floor(back) =< liq
  BY <1>4, WADAssumption, QuotientBound DEF Floor, FromInt
<1> QED BY <1>5 DEF back, coll, rate, CollateralToLiquidity, DecimalCollateralToLiquidity

\* A liquidation settles at most the amount it was asked to close and takes
\* at most the collateral of the entry, so that neither checked subtraction
\* of Obligation::repay and Obligation::withdraw can fail, provided that the
\* entry holds at least the token every full liquidation takes.
THEOREM LiquidationWithinEntries ==
    ASSUME NEW collateral \in [deposited_amount : Nat, market_value : Nat \ {0}],
           NEW amount \in Nat, NEW value \in Nat, NEW least \in Nat,
           least =< collateral.deposited_amount
    PROVE  LET taken == TakeCollateral(collateral, amount, value, least)
           IN  /\ taken.settle \in 0..amount
               /\ taken.withdraw \in 0..collateral.deposited_amount
<1> DEFINE held == collateral.deposited_amount
           worth == collateral.market_value
           taken == TakeCollateral(collateral, amount, value, least)
<1>1. held \in Nat /\ worth \in Nat \ {0}
  OBVIOUS
<1>2. /\ taken.settle = IF value > worth THEN Mul(amount, Div(worth, value)) ELSE amount
      /\ taken.withdraw = IF value >= worth THEN held
                          ELSE Larger(least, Floor(Mul(FromInt(held), Div(value, worth))))
  BY DEF TakeCollateral
<1> HIDE DEF taken, held, worth
<1>3. ASSUME NEW a \in Nat, NEW b \in Nat \ {0}, a =< b
      PROVE  Div(a, b) \in 0..WAD
  <2>1. a * WAD =< b * WAD /\ a * WAD \in Nat /\ b * WAD = WAD * b
    BY <1>3, WADAssumption, ProductMonotone, ProductNat, SMT
  <2> QED BY <2>1, WADAssumption, QuotientBound, DivFacts DEF Div
<1>4. ASSUME NEW f \in 0..WAD, NEW q \in Nat
      PROVE  Mul(q, f) \in 0..q
  <2>1. Mul(f, q) \in Nat /\ Mul(f, q) =< q
    <3>1. f \in Nat /\ f =< WAD
      BY WADAssumption
    <3> QED BY <3>1, FractionBelow, DecimalNat
  <2>2. Mul(q, f) = Mul(f, q)
    BY WADAssumption, SMT DEF Mul
  <2> QED BY <2>1, <2>2
<1>5. taken.settle \in 0..amount
  <2>1. CASE value > worth
    <3>1. Div(worth, value) \in 0..WAD
      BY <1>1, <1>3, <2>1
    <3>2. Mul(amount, Div(worth, value)) \in 0..amount
      BY <3>1, <1>4
    <3> QED BY <1>2, <2>1, <3>2
  <2> QED BY <1>1, <1>2, <2>1
<1>6. taken.withdraw \in 0..held
  <2>1. CASE value < worth
    <3> value =< worth
      BY <1>1, <2>1
    <3>1. Div(value, worth) \in 0..WAD
      BY <1>1, <1>3
    <3>. FromInt(held) \in Nat
      BY <1>1, DecimalNat
    <3>2. PICK m \in Nat : m = Mul(FromInt(held), Div(value, worth)) /\ m =< FromInt(held)
      BY <3>1, <1>4
    <3>3. Floor(m) \in Nat /\ Floor(m) =< held
      BY <1>1, <3>2, WADAssumption, DivFacts, QuotientBound DEF Floor, FromInt
    <3>4. least =< held
      BY DEF held
    <3> QED BY <1>1, <1>2, <2>1, <3>2, <3>3, <3>4 DEF Larger
  <2> QED BY <1>1, <1>2, <2>1
<1> QED BY <1>5, <1>6 DEF taken, held
-----------------------------------------------------------------------------
\* Percentages and whole amounts.

\* A multiple of the divisor divides exactly.
LEMMA ExactHundredths == 100 * (WAD \div 100) = WAD
BY WADAssumption, ReserveAssumption, SMT

\* Percentages are naturals, in order, and a hundred of them are one.
LEMMA PercentFacts ==
    ASSUME NEW p \in Nat, NEW q \in Nat
    PROVE  /\ FromPercent(p) \in Nat
           /\ p =< q => FromPercent(p) =< FromPercent(q)
           /\ p < q => FromPercent(p) < FromPercent(q)
           /\ FromPercent(100) = WAD
<1> DEFINE unit == WAD \div 100
<1>1. unit \in Nat \ {0} /\ 100 * unit = WAD
  BY ExactHundredths, WADAssumption, SMT
<1> HIDE DEF unit
<1>2. p * unit \in Nat /\ (p =< q => p * unit =< q * unit)
  BY <1>1, ProductNat, ProductMonotone
<1>3. p < q => p * unit < q * unit
  <2> SUFFICES ASSUME p < q  PROVE p * unit < q * unit
    OBVIOUS
  <2>1. (p + 1) * unit =< q * unit
    BY <1>1, ProductMonotone
  <2>2. (p + 1) * unit = p * unit + unit
    BY <1>1, SMT
  <2> HIDE DEF unit
  <2> QED BY <1>1, <1>2, <2>1, <2>2, ProductNat, SMT
<1> QED BY <1>1, <1>2, <1>3 DEF FromPercent, unit

\* The other conversions yield naturals too.
LEMMA ConversionNat ==
    ASSUME NEW n \in Nat
    PROVE  FromDecaBps(n) \in Nat /\ FromBps(n) \in Nat /\ FromInt(n) \in Nat
           /\ Round(n) \in Nat
<1>1. n * WAD \in Nat
  BY WADAssumption, ProductNat
<1> QED BY <1>1, WADAssumption, DivFacts, SMT DEF FromDecaBps, FromBps, FromInt, DivInt, Round

-----------------------------------------------------------------------------
\* The books of a reserve: what its operators compute from a well-formed one.

\* The total supply is an integer; it may be negative, which is an error.
LEMMA SupplyInt ==
    ASSUME NEW res \in ReserveType
    PROVE  TotalSupply(res) \in Int
<1>1. /\ res.available_amount \in Nat /\ res.borrowed_amount_wads \in Nat
      /\ res.accumulated_protocol_fees_wads \in Nat
  BY DEF ReserveType
<1>2. FromInt(res.available_amount) \in Nat
  BY <1>1, ConversionNat
<1> QED BY <1>1, <1>2 DEF TotalSupply

\* The exchange rate of a reserve that can be refreshed is a natural.
LEMMA ExchangeRateNat ==
    ASSUME NEW res \in ReserveType, TotalSupply(res) >= 0
    PROVE  ExchangeRate(res) \in Nat
<1>1. res.mint_total_supply \in Nat
  BY DEF ReserveType
<1>2. FromInt(res.mint_total_supply) \in Nat
  BY <1>1, ConversionNat
<1>3. CASE TotalSupply(res) = 0
  BY <1>3, WADAssumption DEF ExchangeRate, One
<1>4. CASE TotalSupply(res) # 0
  <2>1. TotalSupply(res) \in Nat \ {0}
    BY <1>4, SupplyInt
  <2>2. Div(FromInt(res.mint_total_supply), TotalSupply(res)) \in Nat
    BY <1>2, <2>1, DecimalNat
  <2> QED BY <2>2, WADAssumption DEF ExchangeRate, One
<1> QED BY <1>3, <1>4

\* Collateral tokens and liquidity convert into naturals.
LEMMA ConvertNat ==
    ASSUME NEW res \in ReserveType, TotalSupply(res) >= 0, NEW n \in Nat
    PROVE  /\ LiquidityToCollateral(res, n) \in Nat
           /\ ExchangeRate(res) > 0 => /\ CollateralToLiquidity(res, n) \in Nat
                                       /\ DecimalCollateralToLiquidity(res, FromInt(n)) \in Nat
<1> DEFINE rate == ExchangeRate(res)
<1>1. rate \in Nat /\ FromInt(n) \in Nat
  BY ExchangeRateNat, ConversionNat
<1>2. rate > 0 => rate # 0
  BY <1>1
<1> HIDE DEF rate
<1>3. Floor(Mul(FromInt(n), rate)) \in Nat
  BY <1>1, DecimalNat
<1>4. rate > 0 => Div(FromInt(n), rate) \in Nat /\ Floor(Div(FromInt(n), rate)) \in Nat
  BY <1>1, <1>2, DecimalNat
<1> QED BY <1>3, <1>4 DEF rate, LiquidityToCollateral, CollateralToLiquidity,
                          DecimalCollateralToLiquidity

\* The market value of an amount, and the amount of a value, are naturals.
LEMMA ValueNat ==
    ASSUME NEW res \in ReserveType, NEW n \in Nat
    PROVE  /\ MarketValue(res, n) \in Nat
           /\ ValueToLiquidity(res, n) \in Nat
           /\ BorrowWeight(res) \in Nat /\ BorrowWeight(res) >= WAD
<1>1. res.mint_scale \in Nat \ {0} /\ res.config.added_borrow_weight_bps \in Nat
  BY DEF ReserveType, ConfigType
<1>2. WAD \in Nat /\ WAD # 0
  BY WADAssumption
<1>3. FromInt(res.mint_scale) \in Nat /\ FromInt(res.mint_scale) # 0
  <2>1. PICK m \in Nat \ {0} : m = res.mint_scale
    BY <1>1
  <2>2. WAD =< m * WAD
    BY <2>1, WADAssumption, ProductMonotone, SMT
  <2> QED BY <1>2, <2>1, <2>2, ConversionNat DEF FromInt
<1>4. Mul(MARKET_PRICE, n) \in Nat
  BY <1>2, DecimalNat DEF MARKET_PRICE, One
<1>5. MarketValue(res, n) \in Nat
  BY <1>3, <1>4, DecimalNat DEF MarketValue
<1>6. n * res.mint_scale \in Nat
  BY <1>1, ProductNat
<1>7. ValueToLiquidity(res, n) \in Nat
  BY <1>2, <1>6, DecimalNat DEF ValueToLiquidity, MARKET_PRICE, One
<1>8. FromBps(res.config.added_borrow_weight_bps) \in Nat
  BY <1>1, ConversionNat
<1> QED BY <1>2, <1>5, <1>7, <1>8 DEF BorrowWeight, One

\* A part of a whole is at most one.
LEMMA PartAtMostOne ==
    ASSUME NEW a \in Nat, NEW b \in Nat \ {0}, a =< b
    PROVE  Div(a, b) \in Nat /\ Div(a, b) =< WAD
<1>1. a * WAD =< b * WAD /\ a * WAD \in Nat /\ b * WAD = WAD * b
  BY WADAssumption, ProductMonotone, ProductNat, SMT
<1> QED BY <1>1, WADAssumption, QuotientBound, DivFacts DEF Div

\* Utilisation is a fraction.
LEMMA UtilizationFraction ==
    ASSUME NEW res \in ReserveType
    PROVE  UtilizationRate(res) \in Nat /\ UtilizationRate(res) =< WAD
<1>1. PICK lent \in Nat, idle \in Nat : lent = res.borrowed_amount_wads
                                       /\ idle = FromInt(res.available_amount)
  BY ConversionNat DEF ReserveType
<1>2. CASE lent = 0
  BY <1>1, <1>2, WADAssumption DEF UtilizationRate
<1>3. CASE lent # 0
  <2>1. lent =< lent + idle /\ lent + idle \in Nat \ {0}
    BY <1>3
  <2>2. Div(lent, lent + idle) \in Nat /\ Div(lent, lent + idle) =< WAD
    BY <2>1, PartAtMostOne
  <2> QED BY <1>1, <2>2, WADAssumption DEF UtilizationRate
<1> QED BY <1>2, <1>3

\* A point of a segment of the rate curve is a natural.
LEMMA BetweenNat ==
    ASSUME NEW w \in Nat, NEW low \in Nat, NEW high \in Nat, low =< high
    PROVE  Between(w, low, high) \in Nat
<1>1. /\ FromPercent(low) \in Nat /\ FromPercent(high) \in Nat
      /\ FromPercent(low) =< FromPercent(high)
  BY PercentFacts
<1>2. FromPercent(high) - FromPercent(low) \in Nat
  BY <1>1
<1>3. Mul(w, FromPercent(high) - FromPercent(low)) \in Nat
  BY <1>2, DecimalNat
<1> QED BY <1>1, <1>3 DEF Between

\* With a consistent configuration the borrow rate is a natural: no segment
\* of the curve has a negative slope or no width.
LEMMA BorrowRateNat ==
    ASSUME NEW res \in ReserveType, ConsistentConfig(res.config)
    PROVE  CurrentBorrowRate(res) \in Nat
<1> DEFINE c       == res.config
           use     == UtilizationRate(res)
           optimal == FromPercent(c.optimal_utilization_rate)
           max     == FromPercent(c.max_utilization_rate)
           rest    == FromPercent(100 - c.max_utilization_rate)
<1>1. /\ c.optimal_utilization_rate \in Nat /\ c.max_utilization_rate \in Nat
      /\ c.min_borrow_rate \in Nat /\ c.optimal_borrow_rate \in Nat
      /\ c.max_borrow_rate \in Nat /\ c.super_max_borrow_rate \in Nat
  BY DEF ReserveType, ConfigType
<1>2. /\ c.optimal_utilization_rate =< c.max_utilization_rate
      /\ c.max_utilization_rate =< 100
      /\ c.min_borrow_rate =< c.optimal_borrow_rate
      /\ c.optimal_borrow_rate =< c.max_borrow_rate
      /\ c.max_borrow_rate =< c.super_max_borrow_rate
  BY DEF ConsistentConfig
<1>3. use \in Nat /\ use =< WAD
  BY UtilizationFraction
<1>4. optimal \in Nat /\ max \in Nat
  BY <1>1, PercentFacts
<1>5. CASE use =< optimal
  <2>1. FromPercent(c.min_borrow_rate) \in Nat
    BY <1>1, PercentFacts
  <2>2. optimal # 0 => Div(use, optimal) \in Nat
    <3> HIDE DEF use, optimal
    <3> QED BY <1>3, <1>4, DecimalNat
  <2>3. optimal # 0 =>
            Between(Div(use, optimal), c.min_borrow_rate, c.optimal_borrow_rate) \in Nat
    <3> HIDE DEF use, optimal, c
    <3> QED BY <1>1, <1>2, <2>2, BetweenNat
  <2> QED BY <1>5, <2>1, <2>3 DEF CurrentBorrowRate
<1>6. CASE ~ (use =< optimal) /\ use =< max
  <2>1. use - optimal \in Nat /\ max - optimal \in Nat \ {0}
    <3> HIDE DEF use, optimal, max
    <3> QED BY <1>3, <1>4, <1>6
  <2>2. Div(use - optimal, max - optimal) \in Nat
    <3> HIDE DEF use, optimal, max
    <3> QED BY <2>1, DecimalNat
  <2>3. Between(Div(use - optimal, max - optimal), c.optimal_borrow_rate, c.max_borrow_rate) \in Nat
    <3> HIDE DEF use, optimal, max, c
    <3> QED BY <1>1, <1>2, <2>2, BetweenNat
  <2> QED BY <1>6, <2>3 DEF CurrentBorrowRate
<1>7. CASE ~ (use =< optimal) /\ ~ (use =< max)
  <2>1. c.max_utilization_rate < 100
    <3>1. CASE c.max_utilization_rate = 100
      <4>1. max = WAD
        BY <3>1, PercentFacts
      <4> HIDE DEF use, max
      <4> QED BY <1>3, <1>7, <4>1
    <3> QED BY <1>1, <1>2, <3>1
  <2>2. rest \in Nat \ {0}
    <3>1. PICK u \in Nat : u = c.max_utilization_rate /\ u < 100
      BY <1>1, <2>1
    <3>2. 100 - u \in Nat /\ 0 < 100 - u
      BY <3>1
    <3>3. FromPercent(0) < FromPercent(100 - u) /\ FromPercent(0) \in Nat
          /\ FromPercent(100 - u) \in Nat
      BY <3>2, PercentFacts
    <3> QED BY <3>1, <3>3
  <2>3. use - max \in Nat
    <3> HIDE DEF use, max
    <3> QED BY <1>3, <1>4, <1>7
  <2>4. Div(use - max, rest) \in Nat
    <3> HIDE DEF use, max, rest
    <3> QED BY <2>2, <2>3, DecimalNat
  <2>5. Between(Div(use - max, rest), c.max_borrow_rate, c.super_max_borrow_rate) \in Nat
    <3> HIDE DEF use, max, rest, c
    <3> QED BY <1>1, <1>2, <2>4, BetweenNat
  <2> QED BY <1>7, <2>5 DEF CurrentBorrowRate
<1> QED BY <1>5, <1>6, <1>7
\* The rate compounded over any number of slots is at least one...
LEMMA CompoundedAtLeastOne ==
    ASSUME NEW res \in ReserveType, ConsistentConfig(res.config), NEW elapsed \in Nat
    PROVE  CompoundedRate(res, elapsed) \in Nat /\ CompoundedRate(res, elapsed) >= WAD
<1> DEFINE slotRate == DivInt(CurrentBorrowRate(res), SLOTS_PER_YEAR)
<1>1. slotRate \in Nat
  BY BorrowRateNat, ReserveAssumption, DivFacts DEF DivInt
<1> HIDE DEF slotRate
<1>2. One + slotRate \in Nat /\ One + slotRate >= WAD
  BY <1>1, WADAssumption DEF One
<1> QED BY <1>2, PowAtLeastOne DEF CompoundedRate, slotRate

\* ...so that a debt never shrinks by accruing.
LEMMA DebtGrows ==
    ASSUME NEW res \in ReserveType, NEW rate \in Nat, rate >= WAD
    PROVE  NetNewDebt(res, rate) \in Nat
<1>1. res.borrowed_amount_wads \in Nat
  BY DEF ReserveType
<1>2. /\ Mul(res.borrowed_amount_wads, rate) \in Nat
      /\ Mul(res.borrowed_amount_wads, rate) >= res.borrowed_amount_wads
  BY <1>1, ProductOfRates
<1> QED BY <1>1, <1>2 DEF NetNewDebt

\* Compounding keeps the type; the rate and the debt grow, nothing else but
\* the fees changes.
LEMMA CompoundFacts ==
    ASSUME NEW res \in ReserveType, NEW rate \in Nat, rate >= WAD
    PROVE  LET b == Compound(res, rate)
           IN  /\ b \in ReserveType
               /\ b.cumulative_borrow_rate_wads >= res.cumulative_borrow_rate_wads
               /\ b.borrowed_amount_wads >= res.borrowed_amount_wads
<1> DEFINE cum  == Mul(res.cumulative_borrow_rate_wads, rate)
           fees == Mul(NetNewDebt(res, rate), FromPercent(res.config.protocol_take_rate))
                       + res.accumulated_protocol_fees_wads
           debt == res.borrowed_amount_wads + NetNewDebt(res, rate)
           b    == Compound(res, rate)
<1>1. /\ res.cumulative_borrow_rate_wads \in Nat /\ res.borrowed_amount_wads \in Nat
      /\ res.accumulated_protocol_fees_wads \in Nat /\ res.config.protocol_take_rate \in Nat
  BY DEF ReserveType, ConfigType
<1>2. cum \in Nat /\ cum >= res.cumulative_borrow_rate_wads
  BY <1>1, ProductOfRates
<1>3. NetNewDebt(res, rate) \in Nat
  BY DebtGrows
<1>4. fees \in Nat
  <2>1. FromPercent(res.config.protocol_take_rate) \in Nat
    BY <1>1, PercentFacts
  <2>2. Mul(NetNewDebt(res, rate), FromPercent(res.config.protocol_take_rate)) \in Nat
    BY <1>3, <2>1, DecimalNat
  <2> QED BY <1>1, <2>2
<1>5. debt \in Nat /\ debt >= res.borrowed_amount_wads
  BY <1>1, <1>3
<1>6. b = [res EXCEPT !.cumulative_borrow_rate_wads = cum,
                      !.accumulated_protocol_fees_wads = fees,
                      !.borrowed_amount_wads = debt]
  BY DEF Compound
<1> HIDE DEF cum, fees, debt, b
<1>7. /\ b \in ReserveType
      /\ b.cumulative_borrow_rate_wads = cum /\ b.borrowed_amount_wads = debt
  BY <1>2, <1>4, <1>5, <1>6 DEF ReserveType
<1> QED BY <1>2, <1>5, <1>7 DEF b

\* What a refresh leaves alone.
SameAccounts(a, b) ==
    /\ b.version = a.version
    /\ b.available_amount = a.available_amount
    /\ b.mint_total_supply = a.mint_total_supply
    /\ b.mint_scale = a.mint_scale
    /\ b.config = a.config
    /\ b.rate_limiter = a.rate_limiter

\* Compounding touches the rate, the fees and the debt only.
LEMMA CompoundKeepsAccounts ==
    ASSUME NEW res \in ReserveType, NEW rate
    PROVE  SameAccounts(res, Compound(res, rate))
BY DEF ReserveType, Compound, SameAccounts

\* A refresh keeps the type, brings the update to the slot, never lowers the
\* rate or the debt, and within one slot changes neither.
LEMMA RefreshFacts ==
    ASSUME NEW res \in ReserveType, ConsistentConfig(res.config), NEW slot \in Nat,
           slot >= res.last_update.slot
    PROVE  LET b == RefreshInterest(res, slot)
           IN  /\ b \in ReserveType
               /\ SameAccounts(res, b)
               /\ b.last_update = UpdatedAt(slot)
               /\ b.cumulative_borrow_rate_wads >= res.cumulative_borrow_rate_wads
               /\ b.borrowed_amount_wads >= res.borrowed_amount_wads
               /\ slot = res.last_update.slot =>
                     /\ b.cumulative_borrow_rate_wads = res.cumulative_borrow_rate_wads
                     /\ b.borrowed_amount_wads = res.borrowed_amount_wads
                     /\ b.accumulated_protocol_fees_wads = res.accumulated_protocol_fees_wads
<1> DEFINE elapsed == slot - res.last_update.slot
           rate    == CompoundedRate(res, elapsed)
           grown   == IF elapsed > 0 THEN Compound(res, rate) ELSE res
<1>1. res.last_update.slot \in Nat /\ elapsed \in Nat
  BY DEF ReserveType, UpdateType
<1>2. rate \in Nat /\ rate >= WAD
  BY <1>1, CompoundedAtLeastOne
<1> HIDE DEF rate
<1>3. /\ grown \in ReserveType /\ SameAccounts(res, grown)
      /\ grown.cumulative_borrow_rate_wads >= res.cumulative_borrow_rate_wads
      /\ grown.borrowed_amount_wads >= res.borrowed_amount_wads
      /\ slot = res.last_update.slot => grown = res
  <2>1. SameAccounts(res, res)
    BY DEF SameAccounts
  <2>2. /\ res.cumulative_borrow_rate_wads >= res.cumulative_borrow_rate_wads
        /\ res.borrowed_amount_wads >= res.borrowed_amount_wads
    BY DEF ReserveType
  <2>3. slot = res.last_update.slot => ~ (elapsed > 0)
    BY <1>1
  <2> HIDE DEF elapsed
  <2> QED BY <1>2, <2>1, <2>2, <2>3, CompoundFacts, CompoundKeepsAccounts
<1>4. RefreshInterest(res, slot) = [grown EXCEPT !.last_update = UpdatedAt(slot)]
  BY DEF RefreshInterest, rate
<1> HIDE DEF grown
<1>5. UpdatedAt(slot) \in UpdateType
  BY DEF UpdatedAt, UpdateType
<1>6. /\ RefreshInterest(res, slot) \in ReserveType
      /\ SameAccounts(grown, RefreshInterest(res, slot))
      /\ RefreshInterest(res, slot).last_update = UpdatedAt(slot)
      /\ RefreshInterest(res, slot).cumulative_borrow_rate_wads = grown.cumulative_borrow_rate_wads
      /\ RefreshInterest(res, slot).borrowed_amount_wads = grown.borrowed_amount_wads
      /\ RefreshInterest(res, slot).accumulated_protocol_fees_wads
            = grown.accumulated_protocol_fees_wads
  <2>1. PICK b : b = RefreshInterest(res, slot)
    OBVIOUS
  <2>2. b \in ReserveType
    BY <1>3, <1>4, <1>5, <2>1, Zenon DEF ReserveType
  <2>3. /\ SameAccounts(grown, b)
        /\ b.last_update = UpdatedAt(slot)
        /\ b.cumulative_borrow_rate_wads = grown.cumulative_borrow_rate_wads
        /\ b.borrowed_amount_wads = grown.borrowed_amount_wads
        /\ b.accumulated_protocol_fees_wads = grown.accumulated_protocol_fees_wads
    BY <1>3, <1>4, <2>1 DEF ReserveType, SameAccounts
  <2> QED BY <2>1, <2>2, <2>3
<1> QED BY <1>3, <1>6 DEF SameAccounts

\* A reserve whose supply covers its fees can always be refreshed, however long
\* it was left: the net new debt that compound_interest adds is never negative,
\* although the power of the rate is truncated at every product.
THEOREM CanAlwaysRefresh ==
    ASSUME NEW res \in ReserveType, ConsistentConfig(res.config), NEW slot \in Nat,
           slot >= res.last_update.slot, TotalSupply(res) >= 0
    PROVE  CanRefresh(res, slot)
<1>1. res.last_update.slot \in Nat /\ slot - res.last_update.slot \in Nat
  BY DEF ReserveType, UpdateType
<1>2. /\ CompoundedRate(res, slot - res.last_update.slot) \in Nat
      /\ CompoundedRate(res, slot - res.last_update.slot) >= WAD
  BY <1>1, CompoundedAtLeastOne
<1>3. NetNewDebt(res, CompoundedRate(res, slot - res.last_update.slot)) \in Nat
  BY <1>2, DebtGrows
<1> QED BY <1>3 DEF CanRefresh
-----------------------------------------------------------------------------
\* The operations of a reserve, one lemma each: the type they keep and the
\* amounts they change.

\* b is the reserve a later: same configuration, a rate that has not fallen,
\* and one that has not moved if a was already up to date in this slot.
Follows(a, b, slot) ==
    /\ b \in ReserveType
    /\ b.config = a.config
    /\ b.cumulative_borrow_rate_wads >= a.cumulative_borrow_rate_wads
    /\ b.last_update.slot =< slot
    /\ a.last_update.slot = slot =>
          /\ b.last_update.slot = slot
          /\ b.cumulative_borrow_rate_wads = a.cumulative_borrow_rate_wads

\* Following composes.
LEMMA FollowsTransitive ==
    ASSUME NEW a \in ReserveType, NEW b, NEW c, NEW slot, Follows(a, b, slot), Follows(b, c, slot)
    PROVE  Follows(a, c, slot)
<1>1. PICK x \in Nat, y \in Nat, z \in Nat :
          /\ x = a.cumulative_borrow_rate_wads /\ y = b.cumulative_borrow_rate_wads
          /\ z = c.cumulative_borrow_rate_wads
  BY DEF Follows, ReserveType
<1> QED BY <1>1 DEF Follows

\* A refresh is followed by the refreshed reserve.
LEMMA RefreshFollows ==
    ASSUME NEW res \in ReserveType, ConsistentConfig(res.config), NEW slot \in Nat,
           slot >= res.last_update.slot
    PROVE  LET b == RefreshInterest(res, slot)
           IN  /\ Follows(res, b, slot)
               /\ b.last_update.slot = slot
               /\ b.available_amount = res.available_amount
<1>1. PICK b : b = RefreshInterest(res, slot)
  OBVIOUS
<1>2. b.last_update = UpdatedAt(slot)
  BY <1>1, RefreshFacts
<1>3. b.last_update.slot = slot
  BY <1>2 DEF UpdatedAt
<1> QED BY <1>1, <1>3, RefreshFacts DEF Follows, SameAccounts

\* A reserve marked stale differs in the mark only.
LEMMA MarkStaleFollows ==
    ASSUME NEW res \in ReserveType, NEW slot \in Nat, res.last_update.slot =< slot
    PROVE  /\ Follows(res, MarkStale(res), slot)
           /\ MarkStale(res).available_amount = res.available_amount
<1>1. PICK b : b = MarkStale(res)
  OBVIOUS
<1>2. [res.last_update EXCEPT !.stale = TRUE] \in UpdateType
  BY DEF ReserveType, UpdateType
<1>3. b = [res EXCEPT !.last_update = [res.last_update EXCEPT !.stale = TRUE]]
  BY <1>1 DEF MarkStale, ReserveType
<1>4. b \in ReserveType
  BY <1>2, <1>3, Zenon DEF ReserveType
<1>5. /\ b.config = res.config /\ b.available_amount = res.available_amount
      /\ b.cumulative_borrow_rate_wads = res.cumulative_borrow_rate_wads
      /\ b.last_update.slot = res.last_update.slot
      /\ res.cumulative_borrow_rate_wads \in Nat
  BY <1>3 DEF ReserveType, UpdateType
<1> QED BY <1>1, <1>4, <1>5 DEF Follows

\* An operation on amounts moves neither the rate nor the update.
Unmoved(a, b) ==
    /\ b.config = a.config
    /\ b.cumulative_borrow_rate_wads = a.cumulative_borrow_rate_wads
    /\ b.last_update = a.last_update

\* What an operation on amounts returns follows its argument.
LEMMA UnmovedFollows ==
    ASSUME NEW res \in ReserveType, NEW slot \in Nat, res.last_update.slot =< slot,
           NEW b \in ReserveType, Unmoved(res, b)
    PROVE  Follows(res, b, slot)
<1>1. res.cumulative_borrow_rate_wads \in Nat
  BY DEF ReserveType
<1> QED BY <1>1 DEF Follows, Unmoved

\* Deposits and redemptions.
LEMMA DepositFollows ==
    ASSUME NEW res \in ReserveType, NEW slot \in Nat, res.last_update.slot =< slot,
           NEW liq \in Nat, NEW coll \in Nat
    PROVE  LET b == DepositLiquidity(res, liq, coll)
           IN  Follows(res, b, slot) /\ b.available_amount = res.available_amount + liq
<1>1. PICK b : b = DepositLiquidity(res, liq, coll)
  OBVIOUS
<1>2. res.available_amount + liq \in Nat /\ res.mint_total_supply + coll \in Nat
  BY DEF ReserveType
<1>3. b \in ReserveType
  BY <1>1, <1>2 DEF ReserveType, DepositLiquidity
<1>4. Unmoved(res, b) /\ b.available_amount = res.available_amount + liq
  BY <1>1 DEF ReserveType, Unmoved, DepositLiquidity
<1> QED BY <1>1, <1>3, <1>4, UnmovedFollows

\* A redemption of what is there and minted.
LEMMA RedeemFollows ==
    ASSUME NEW res \in ReserveType, NEW slot \in Nat, res.last_update.slot =< slot,
           NEW liq \in Nat, NEW coll \in Nat, CanRedeem(res, liq, coll)
    PROVE  LET b == RedeemCollateral(res, liq, coll)
           IN  Follows(res, b, slot) /\ b.available_amount = res.available_amount - liq
<1>1. PICK b : b = RedeemCollateral(res, liq, coll)
  OBVIOUS
<1>2. res.available_amount - liq \in Nat /\ res.mint_total_supply - coll \in Nat
  BY DEF ReserveType, CanRedeem
<1>3. b \in ReserveType
  BY <1>1, <1>2 DEF ReserveType, RedeemCollateral
<1>4. Unmoved(res, b) /\ b.available_amount = res.available_amount - liq
  BY <1>1 DEF ReserveType, Unmoved, RedeemCollateral
<1> QED BY <1>1, <1>3, <1>4, UnmovedFollows

\* A loan of what is there.
LEMMA LendFollows ==
    ASSUME NEW res \in ReserveType, NEW slot \in Nat, res.last_update.slot =< slot,
           NEW amount \in Nat, CanLend(res, amount)
    PROVE  LET b == Lend(res, amount)
           IN  Follows(res, b, slot) /\ b.available_amount = res.available_amount - Floor(amount)
<1>1. PICK b : b = Lend(res, amount)
  OBVIOUS
<1>2. res.available_amount - Floor(amount) \in Nat /\ res.borrowed_amount_wads + amount \in Nat
  <2>1. Floor(amount) \in Nat
    BY DecimalNat
  <2> QED BY <2>1 DEF ReserveType, CanLend
<1>3. b \in ReserveType
  BY <1>1, <1>2 DEF ReserveType, Lend
<1>4. Unmoved(res, b) /\ b.available_amount = res.available_amount - Floor(amount)
  BY <1>1 DEF ReserveType, Unmoved, Lend
<1> QED BY <1>1, <1>3, <1>4, UnmovedFollows

\* A repayment, clipped to the debt.
LEMMA SettleFollows ==
    ASSUME NEW res \in ReserveType, NEW slot \in Nat, res.last_update.slot =< slot,
           NEW amount \in Nat, NEW settle \in Nat
    PROVE  LET b == Settle(res, amount, settle)
           IN  Follows(res, b, slot) /\ b.available_amount = res.available_amount + amount
<1>1. PICK b : b = Settle(res, amount, settle)
  OBVIOUS
<1>2. /\ res.available_amount + amount \in Nat
      /\ res.borrowed_amount_wads - Smaller(settle, res.borrowed_amount_wads) \in Nat
  BY DEF ReserveType, Smaller
<1>3. b \in ReserveType
  BY <1>1, <1>2 DEF ReserveType, Settle
<1>4. Unmoved(res, b) /\ b.available_amount = res.available_amount + amount
  BY <1>1 DEF ReserveType, Unmoved, Settle
<1> QED BY <1>1, <1>3, <1>4, UnmovedFollows

\* A debt forgiven.
LEMMA ForgiveFollows ==
    ASSUME NEW res \in ReserveType, NEW slot \in Nat, res.last_update.slot =< slot,
           NEW amount \in Nat, amount =< res.borrowed_amount_wads
    PROVE  LET b == Forgive(res, amount)
           IN  Follows(res, b, slot) /\ b.available_amount = res.available_amount
<1>1. PICK b : b = Forgive(res, amount)
  OBVIOUS
<1>2. res.borrowed_amount_wads - amount \in Nat
  BY DEF ReserveType
<1>3. b \in ReserveType
  BY <1>1, <1>2 DEF ReserveType, Forgive
<1>4. Unmoved(res, b) /\ b.available_amount = res.available_amount
  BY <1>1 DEF ReserveType, Unmoved, Forgive
<1> QED BY <1>1, <1>3, <1>4, UnmovedFollows

\* The protocol's fees: what is redeemed is both there and earned.
LEMMA RedeemFeesFollows ==
    ASSUME NEW res \in ReserveType, NEW slot \in Nat, res.last_update.slot =< slot,
           NEW amount, amount = RedeemableFees(res)
    PROVE  /\ amount \in Nat
           /\ Follows(res, RedeemFees(res, amount), slot)
           /\ RedeemFees(res, amount).available_amount = res.available_amount - amount
<1>1. PICK fees \in Nat : fees = res.accumulated_protocol_fees_wads
  BY DEF ReserveType
<1>2. Floor(fees) \in Nat /\ FromInt(Floor(fees)) =< fees
  BY DecimalNat, FloorBounds
<1>3. amount \in Nat /\ amount =< res.available_amount /\ amount =< Floor(fees)
  BY <1>1, <1>2 DEF RedeemableFees, Smaller, ReserveType
<1>4. FromInt(amount) =< FromInt(Floor(fees)) /\ FromInt(amount) \in Nat
      /\ FromInt(Floor(fees)) \in Nat
  BY <1>2, <1>3, WADAssumption, ProductMonotone, ConversionNat DEF FromInt
<1>5. fees - FromInt(amount) \in Nat
  BY <1>2, <1>4
<1>6. res.available_amount - amount \in Nat
  BY <1>3 DEF ReserveType
<1>7. PICK b : b = RedeemFees(res, amount)
  OBVIOUS
<1>8. b \in ReserveType
  BY <1>1, <1>5, <1>6, <1>7 DEF ReserveType, RedeemFees
<1>9. Unmoved(res, b) /\ b.available_amount = res.available_amount - amount
  BY <1>7 DEF ReserveType, Unmoved, RedeemFees
<1> QED BY <1>3, <1>7, <1>8, <1>9, UnmovedFollows
-----------------------------------------------------------------------------
\* The limiters of the market and of a reserve.

\* A new limiter.
LEMMA NewLimiterType ==
    ASSUME NEW c \in LimiterConfigType, NEW slot \in Nat
    PROVE  New(c, slot) \in LimiterType
<1>1. WindowStart(slot, c.window_duration) \in Nat
  <2>1. PICK w \in Nat : w = c.window_duration
    BY DEF LimiterConfigType
  <2>2. CASE w = 0
    BY <2>1, <2>2 DEF WindowStart
  <2>3. CASE w # 0
    <3>1. slot \div w \in Nat /\ (slot \div w) * w \in Nat
      BY <2>1, <2>3, DivFacts, ProductNat
    <3> QED BY <2>1, <2>3, <3>1 DEF WindowStart
  <2> QED BY <2>2, <2>3
<1> QED BY <1>1 DEF New, LimiterType

\* A limiter rolled to a slot.
LEMMA RolledType ==
    ASSUME NEW rl \in LimiterType, NEW slot \in Nat
    PROVE  Rolled(rl, slot) \in LimiterType
<1>1. rl.config \in LimiterConfigType
  BY DEF LimiterType
<1>2. PICK start \in Nat : start = WindowStart(slot, rl.config.window_duration)
  <2>1. New(rl.config, slot).window_start \in Nat
    BY <1>1, NewLimiterType DEF LimiterType
  <2> QED BY <2>1 DEF New
<1>3. PICK prev \in Nat :
          prev = IF start = rl.window_start + rl.config.window_duration THEN rl.cur_qty ELSE 0
  BY DEF LimiterType
<1>4. Rolled(rl, slot) = rl \/
      Rolled(rl, slot) = [rl EXCEPT !.window_start = start, !.prev_qty = prev, !.cur_qty = 0]
  BY <1>2, <1>3 DEF Rolled
<1>5. [rl EXCEPT !.window_start = start, !.prev_qty = prev, !.cur_qty = 0] \in LimiterType
  BY DEF LimiterType
<1> QED BY <1>4, <1>5

\* A limiter that has counted an outflow.
LEMMA UpdatedType ==
    ASSUME NEW rl \in LimiterType, NEW slot \in Nat, NEW qty \in Nat
    PROVE  Updated(rl, slot, qty) \in LimiterType
<1>1. PICK r \in LimiterType : r = Rolled(rl, slot)
  BY RolledType
<1>2. [r EXCEPT !.cur_qty = @ + qty] \in LimiterType
  BY DEF LimiterType
<1> QED BY <1>1, <1>2 DEF Updated

\* Division of an integer by a natural.
LEMMA DivInteger ==
    ASSUME NEW a \in Int, NEW b \in Nat \ {0}
    PROVE  a \div b \in Int
BY SMT

\* What a limiter still lets out is a natural.
LEMMA RemainingNat ==
    ASSUME NEW rl \in LimiterType, NEW slot \in Nat, NEW most \in Nat
    PROVE  RemainingOutflow(rl, slot, most) \in Nat
<1>1. PICK r \in LimiterType : r = Rolled(rl, slot)
  BY RolledType
<1>2. CASE rl.config.window_duration = 0
  BY <1>2 DEF RemainingOutflow
<1>3. CASE rl.config.window_duration # 0
  <2>1. PICK w \in Nat \ {0} : w = rl.config.window_duration
    BY <1>3 DEF LimiterType, LimiterConfigType
  <2>2. r.config = rl.config
    BY <1>1 DEF Rolled, LimiterType
  <2>3. PICK max \in Nat : max = FromInt(rl.config.max_outflow)
    BY ConversionNat DEF LimiterType, LimiterConfigType
  <2>4. CurrentOutflow(r, slot) \in Int
    <3>1. PICK p \in Nat, c \in Nat, s \in Nat :
              p = r.prev_qty /\ c = r.cur_qty /\ s = r.window_start
      BY DEF LimiterType
    <3>2. FromInt(w) \in Int /\ FromInt(slot - s + 1) \in Int
      BY WADAssumption, SMT DEF FromInt
    <3>3. DivInt(FromInt(w) - FromInt(slot - s + 1), w) \in Int
      <4>1. FromInt(w) - FromInt(slot - s + 1) \in Int
        BY <3>2
      <4> QED BY <4>1, DivInteger DEF DivInt
    <3>4. Mul(DivInt(FromInt(w) - FromInt(slot - s + 1), w), p) \in Int
      <4> DEFINE d == DivInt(FromInt(w) - FromInt(slot - s + 1), w)
      <4>1. d * p \in Int
        BY <3>3, SMT
      <4> HIDE DEF d
      <4>2. (d * p) \div WAD \in Int
        BY <4>1, WADAssumption, DivInteger
      <4> QED BY <4>2 DEF Mul, d
    <3>5. CurrentOutflow(r, slot) = Mul(DivInt(FromInt(w) - FromInt(slot - s + 1), w), p) + c
      BY <2>1, <2>2, <3>1 DEF CurrentOutflow
    <3> QED BY <3>4, <3>5
  <2>5. RemainingOutflow(rl, slot, most) =
            IF CurrentOutflow(r, slot) > max THEN 0 ELSE max - CurrentOutflow(r, slot)
    BY <1>1, <1>3, <2>3 DEF RemainingOutflow
  <2> QED BY <2>3, <2>4, <2>5
<1> QED BY <1>2, <1>3

-----------------------------------------------------------------------------
\* Loans.

\* A fee and the host's part of it are naturals.
LEMMA FeesNat ==
    ASSUME NEW config \in ConfigType, NEW amount \in Nat, NEW rate \in Nat, NEW inclusive \in BOOLEAN
    PROVE  LET fees == Fees(config, amount, rate, inclusive)
           IN  fees.total \in Nat /\ fees.host \in Nat
<1> DEFINE charge == IF inclusive THEN Mul(amount, Div(rate, rate + One)) ELSE Mul(amount, rate)
           least  == FromInt(IF config.host_fee_percentage > 0 THEN 2 ELSE 1)
           fee    == Larger(charge, least)
           part   == FromPercent(config.host_fee_percentage)
           host   == Larger(Round(Mul(fee, part)), 1)
<1>1. rate + One \in Nat /\ rate + One # 0
  BY WADAssumption DEF One
<1>2. Div(rate, rate + One) \in Nat
  BY <1>1, DecimalNat
<1>3. charge \in Nat
  BY <1>2, DecimalNat
<1>4. least \in Nat
  BY ConversionNat
<1> HIDE DEF charge, least
<1>5. fee \in Nat
  BY <1>3, <1>4 DEF Larger
<1>6. part \in Nat
  BY PercentFacts DEF ConfigType
<1> HIDE DEF fee, part
<1>7. Round(Mul(fee, part)) \in Nat /\ Round(fee) \in Nat
  BY <1>5, <1>6, DecimalNat, ConversionNat
<1>8. host \in Nat
  BY <1>7 DEF Larger
<1> HIDE DEF host
<1>9. PICK fees : fees = Fees(config, amount, rate, inclusive)
  OBVIOUS
<1>10. fees.total \in {Round(fee), 0} /\ fees.host \in {host, 0}
  BY <1>9 DEF Fees, charge, least, fee, part, host
<1> QED BY <1>7, <1>8, <1>9, <1>10

\* A loan of an exact amount, and one of as much as possible: what leaves the
\* vault is what the borrower receives and the fee, in whole tokens.
LEMMA ExactBorrowFacts ==
    ASSUME NEW res \in ReserveType, NEW receive \in Nat, NEW max_value \in Nat
    PROVE  LET loan == ExactBorrow(res, receive, max_value)
           IN  /\ loan.amount \in Nat /\ loan.receive \in Nat
               /\ loan.fees.total \in Nat /\ loan.fees.host \in Nat
               /\ Floor(loan.amount) = loan.receive + loan.fees.total
<1>1. PICK fees : fees = Fees(res.config, FromInt(receive), res.config.borrow_fee_wad, FALSE)
  OBVIOUS
<1>2. fees.total \in Nat /\ fees.host \in Nat
  <2>1. /\ res.config \in ConfigType /\ res.config.borrow_fee_wad \in Nat
        /\ FromInt(receive) \in Nat
    BY ConversionNat DEF ReserveType, ConfigType
  <2> QED BY <1>1, <2>1, FeesNat
<1>3. PICK t \in Nat : t = fees.total
  BY <1>2
<1>4. FromInt(receive) + FromInt(t) = FromInt(receive + t)
  BY WADAssumption, SMT DEF FromInt
<1>5. FromInt(receive + t) \in Nat /\ Floor(FromInt(receive + t)) = receive + t
  BY ConversionNat, FloorFromInt
<1>6. PICK loan : loan = ExactBorrow(res, receive, max_value)
  OBVIOUS
<1>7. loan.amount = FromInt(receive) + FromInt(t) /\ loan.receive = receive /\ loan.fees = fees
  BY <1>1, <1>3, <1>6 DEF ExactBorrow
<1> QED BY <1>2, <1>3, <1>4, <1>5, <1>6, <1>7

\* The same of as much as possible.
LEMMA MaxBorrowFacts ==
    ASSUME NEW res \in ReserveType, NEW max_value \in Nat, NEW remaining \in Nat
    PROVE  LET loan == MaxBorrow(res, max_value, remaining)
           IN  /\ loan.amount \in Nat /\ loan.fees.total \in Nat /\ loan.fees.host \in Nat
               /\ loan.ok => /\ loan.receive \in Nat
                             /\ Floor(loan.amount) = loan.receive + loan.fees.total
<1> DEFINE value  == Div(ValueToLiquidity(res, max_value), BorrowWeight(res))
           amount == Smaller(Smaller(value, remaining), FromInt(res.available_amount))
<1>1. value \in Nat
  <2>1. ValueToLiquidity(res, max_value) \in Nat /\ BorrowWeight(res) \in Nat
        /\ BorrowWeight(res) # 0
    BY ValueNat, WADAssumption
  <2> QED BY <2>1, DecimalNat
<1>2. FromInt(res.available_amount) \in Nat
  BY ConversionNat DEF ReserveType
<1> HIDE DEF value
<1>3. amount \in Nat
  BY <1>1, <1>2 DEF Smaller
<1> HIDE DEF amount
<1>4. PICK fees : fees = Fees(res.config, amount, res.config.borrow_fee_wad, TRUE)
  OBVIOUS
<1>5. fees.total \in Nat /\ fees.host \in Nat
  <2>1. res.config \in ConfigType /\ res.config.borrow_fee_wad \in Nat
    BY DEF ReserveType, ConfigType
  <2> QED BY <1>3, <1>4, <2>1, FeesNat
<1>6. PICK loan : loan = MaxBorrow(res, max_value, remaining)
  OBVIOUS
<1>7. /\ loan.amount = amount /\ loan.fees = fees
      /\ loan.receive = Floor(amount) - fees.total
      /\ loan.ok => fees.total =< Floor(amount)
  BY <1>4, <1>6 DEF MaxBorrow, amount, value
<1>8. Floor(amount) \in Nat
  BY <1>3, DecimalNat
<1> QED BY <1>3, <1>5, <1>6, <1>7, <1>8
-----------------------------------------------------------------------------
\* Liquidations.

\* An account that init_reserve has just written is well formed and empty.
LEMMA NewReserveFacts ==
    ASSUME NEW config \in ConfigType, NEW scale \in Nat \ {0}, NEW s \in Nat
    PROVE  LET res == NewReserve(s, config, scale)
           IN  /\ res \in ReserveType
               /\ res.config = config /\ res.available_amount = 0
               /\ res.cumulative_borrow_rate_wads = WAD
               /\ res.last_update.slot = s
               /\ TotalSupply(res) = 0
<1>1. PICK res : res = NewReserve(s, config, scale)
  OBVIOUS
<1>2. New(Config(0, 0), s) \in LimiterType
  BY NewLimiterType DEF Config, LimiterConfigType
<1>3. PICK rl \in LimiterType : rl = New(Config(0, 0), s)
  BY <1>2
<1>4. NewUpdate(s) \in UpdateType
  BY DEF NewUpdate, UpdateType
<1>5. PICK up \in UpdateType : up = NewUpdate(s) /\ up.slot = s
  BY <1>4 DEF NewUpdate
<1>6. res \in ReserveType
  BY <1>1, <1>3, <1>5, WADAssumption DEF NewReserve, ReserveType, One
<1>7. /\ res.config = config /\ res.available_amount = 0 /\ res.borrowed_amount_wads = 0
      /\ res.accumulated_protocol_fees_wads = 0 /\ res.cumulative_borrow_rate_wads = WAD
      /\ res.last_update = up
  BY <1>1, <1>5 DEF NewReserve, One
<1>8. TotalSupply(res) = 0
  BY <1>7, WADAssumption, SMT DEF TotalSupply, FromInt
<1> QED BY <1>1, <1>5, <1>6, <1>7, <1>8

\* The bonus of an obligation past its unhealthy borrow value is a natural
\* rate of at least one.
LEMMA BonusFacts ==
    ASSUME NEW res \in ReserveType, ConsistentConfig(res.config), NEW ob,
           ob.borrowed_value \in Nat, ob.unhealthy_borrow_value \in Nat,
           ob.super_unhealthy_borrow_value \in Nat,
           ob.unhealthy_borrow_value =< ob.super_unhealthy_borrow_value,
           ob.unhealthy_borrow_value =< ob.borrowed_value
    PROVE  BonusRate(res, ob) \in Nat /\ BonusRate(res, ob) >= WAD
<1> DEFINE fee    == FromDecaBps(res.config.protocol_liquidation_fee)
           low    == FromPercent(res.config.liquidation_bonus)
           high   == FromPercent(res.config.max_liquidation_bonus)
           range  == ob.super_unhealthy_borrow_value - ob.unhealthy_borrow_value
           over   == ob.borrowed_value - ob.unhealthy_borrow_value
           weight == Smaller(Div(over, range), One)
           bonus  == IF range = 0 THEN low + fee ELSE low + Mul(weight, high - low) + fee
           cap    == FromPercent(MAX_BONUS_PCT)
<1>1. /\ res.config.protocol_liquidation_fee \in Nat /\ res.config.liquidation_bonus \in Nat
      /\ res.config.max_liquidation_bonus \in Nat
      /\ res.config.liquidation_bonus =< res.config.max_liquidation_bonus
  BY DEF ReserveType, ConfigType, ConsistentConfig
<1>2. fee \in Nat /\ low \in Nat /\ high \in Nat /\ low =< high /\ cap \in Nat
  BY <1>1, ConversionNat, PercentFacts, ReserveAssumption
<1>3. range \in Nat /\ over \in Nat
  OBVIOUS
<1>4. BonusRate(res, ob) = One + Smaller(bonus, cap)
  BY DEF BonusRate
<1> HIDE DEF fee, low, high, range, over, cap
<1>5. range # 0 => weight \in Nat
  BY <1>3, DecimalNat, WADAssumption DEF Smaller, One
<1>6. high - low \in Nat
  BY <1>2
<1> HIDE DEF weight
<1>7. range # 0 => Mul(weight, high - low) \in Nat
  BY <1>5, <1>6, DecimalNat
<1>8. bonus \in Nat
  BY <1>2, <1>7
<1> HIDE DEF bonus
<1> QED BY <1>2, <1>4, <1>8, WADAssumption DEF Smaller, One

\* A debt and a deposit that a liquidation can be computed from.
Takeable(res, ob, liquidity, collateral) ==
    /\ BonusRate(res, ob) \in Nat
    /\ liquidity.market_value \in Nat /\ liquidity.borrowed_amount_wads \in Nat \ {0}
    /\ collateral \in [deposited_amount : Nat, market_value : Nat \ {0}]
    /\ collateral.deposited_amount # 0

\* What a liquidation settles is part of the debt, what it withdraws part of
\* the deposit, and what it repays the settled debt in whole tokens.
LEMMA LiquidationFacts ==
    ASSUME NEW res, NEW ob, NEW liquidity, NEW collateral, NEW amount \in Nat, NEW closable \in Nat,
           Takeable(res, ob, liquidity, collateral)
    PROVE  LET part == Liquidation(res, ob, liquidity, collateral, amount, closable)
           IN  /\ part.settle \in 0..liquidity.borrowed_amount_wads
               /\ part.withdraw \in 0..collateral.deposited_amount
               /\ part.repay = Ceil(part.settle)
<1> DEFINE owed  == liquidity.borrowed_amount_wads
           share == Smaller(closable, Smaller(amount, owed))
           bonus == BonusRate(res, ob)
           most  == Mul(liquidity.market_value, bonus)
           value == Mul(Mul(liquidity.market_value, Div(share, owed)), bonus)
<1>1. /\ collateral.deposited_amount \in Nat /\ collateral.deposited_amount # 0
      /\ collateral \in [deposited_amount : Nat, market_value : Nat \ {0}]
      /\ bonus \in Nat /\ liquidity.market_value \in Nat /\ owed \in Nat \ {0}
  BY DEF Takeable
<1>2. share \in Nat /\ share =< owed
  BY <1>1 DEF Smaller
<1>3. most \in Nat
  BY <1>1, DecimalNat
<1>4. Div(share, owed) \in Nat
  BY <1>1, <1>2, DecimalNat
<1>5. value \in Nat
  <2>1. Mul(liquidity.market_value, Div(share, owed)) \in Nat
    BY <1>1, <1>4, DecimalNat
  <2> QED BY <1>1, <2>1, DecimalNat
<1>6. PICK part : part = Liquidation(res, ob, liquidity, collateral, amount, closable)
  OBVIOUS
<1>7. \/ part = TakeCollateral(collateral, owed, most, 1)
      \/ part = TakeCollateral(collateral, share, value, 0)
  BY <1>6 DEF Liquidation
<1> HIDE DEF share, bonus, most, value
<1>8. ASSUME NEW a \in Nat, a =< owed, NEW v \in Nat, NEW least \in Nat,
             least =< collateral.deposited_amount, part = TakeCollateral(collateral, a, v, least)
      PROVE  /\ part.settle \in 0..owed
             /\ part.withdraw \in 0..collateral.deposited_amount
             /\ part.repay = Ceil(part.settle)
  <2>1. part.settle \in 0..a /\ part.withdraw \in 0..collateral.deposited_amount
    BY <1>1, <1>8, LiquidationWithinEntries
  <2>2. part.repay = Ceil(part.settle)
    BY <1>8 DEF TakeCollateral
  <2> QED BY <1>1, <1>8, <2>1, <2>2
<1>9. owed \in Nat /\ owed =< owed /\ 1 =< collateral.deposited_amount
      /\ 0 =< collateral.deposited_amount
  BY <1>1
<1> HIDE DEF owed
<1>10. /\ part.settle \in 0..owed
       /\ part.withdraw \in 0..collateral.deposited_amount
       /\ part.repay = Ceil(part.settle)
  BY <1>2, <1>3, <1>5, <1>7, <1>8, <1>9
<1> QED BY <1>6, <1>10 DEF owed

\* The protocol's part of a liquidation.
LEMMA LiquidationFeeNat ==
    ASSUME NEW res \in ReserveType, NEW n \in Nat, NEW bonus \in Nat, bonus >= WAD
    PROVE  ProtocolLiquidationFee(res, n, bonus) \in Nat
<1>1. res.config.protocol_liquidation_fee \in Nat
  BY DEF ReserveType, ConfigType
<1>2. FromDecaBps(res.config.protocol_liquidation_fee) \in Nat /\ FromInt(n) \in Nat
  BY <1>1, ConversionNat
<1>3. bonus # 0
  BY WADAssumption
<1>4. Div(FromInt(n), bonus) \in Nat
  BY <1>2, <1>3, DecimalNat
<1>5. Mul(Div(FromInt(n), bonus), FromDecaBps(res.config.protocol_liquidation_fee)) \in Nat
  BY <1>2, <1>4, DecimalNat
<1>6. Ceil(Mul(Div(FromInt(n), bonus), FromDecaBps(res.config.protocol_liquidation_fee))) \in Nat
  BY <1>5, DecimalNat
<1> QED BY <1>6 DEF ProtocolLiquidationFee, Larger

-----------------------------------------------------------------------------
\* What a collateral token is worth: the total supply over the tokens minted.

\* What the supply and the tokens are computed from.
SameBooks(a, b) ==
    /\ b.available_amount = a.available_amount
    /\ b.borrowed_amount_wads = a.borrowed_amount_wads
    /\ b.accumulated_protocol_fees_wads = a.accumulated_protocol_fees_wads
    /\ b.mint_total_supply = a.mint_total_supply

\* No other field bears on the supply.
LEMMA SameSupply ==
    ASSUME NEW a, NEW b, SameBooks(a, b)
    PROVE  TotalSupply(b) = TotalSupply(a) /\ b.mint_total_supply = a.mint_total_supply
BY DEF SameBooks, TotalSupply

\* Marking a reserve stale leaves its books alone.
LEMMA MarkStaleBooks ==
    ASSUME NEW res \in ReserveType
    PROVE  SameBooks(res, MarkStale(res))
BY DEF ReserveType, MarkStale, SameBooks

\* Interest never lowers the supply: of the new debt the protocol takes at
\* most the whole.
LEMMA RefreshSupply ==
    ASSUME NEW res \in ReserveType, ConsistentConfig(res.config), NEW slot \in Nat,
           slot >= res.last_update.slot
    PROVE  /\ TotalSupply(RefreshInterest(res, slot)) >= TotalSupply(res)
           /\ RefreshInterest(res, slot).mint_total_supply = res.mint_total_supply
           /\ slot = res.last_update.slot => SameBooks(res, RefreshInterest(res, slot))
<1> DEFINE elapsed == slot - res.last_update.slot
           rate    == CompoundedRate(res, elapsed)
           new     == NetNewDebt(res, rate)
           taken   == Mul(new, FromPercent(res.config.protocol_take_rate))
           b       == RefreshInterest(res, slot)
<1>1. /\ res.last_update.slot \in Nat /\ elapsed \in Nat
      /\ res.available_amount \in Nat /\ res.borrowed_amount_wads \in Nat
      /\ res.accumulated_protocol_fees_wads \in Nat
      /\ res.config.protocol_take_rate \in Nat /\ res.config.protocol_take_rate =< 100
  BY DEF ReserveType, UpdateType, ConfigType, ConsistentConfig
<1>2. /\ SameAccounts(res, b)
      /\ slot = res.last_update.slot => SameBooks(res, b)
  BY <1>1, RefreshFacts DEF SameAccounts, SameBooks
<1>3. new \in Nat
  BY <1>1, CompoundedAtLeastOne, DebtGrows
<1>4. taken \in Nat /\ taken =< new
  <2>1. PICK f \in Nat : f = FromPercent(res.config.protocol_take_rate) /\ f =< WAD
    BY <1>1, PercentFacts
  <2>2. Mul(f, new) =< new /\ Mul(f, new) \in Nat
    BY <1>3, <2>1, FractionBelow, DecimalNat
  <2> HIDE DEF new
  <2>3. Mul(new, f) = Mul(f, new)
    BY <1>3, <2>1, SMT DEF Mul
  <2> QED BY <2>1, <2>2, <2>3
<1> HIDE DEF new, taken, rate
<1>5. CASE elapsed > 0
  <2>1. b = [Compound(res, rate) EXCEPT !.last_update = UpdatedAt(slot)]
    BY <1>5 DEF RefreshInterest, rate
  <2>2. /\ b.available_amount = res.available_amount
        /\ b.borrowed_amount_wads = res.borrowed_amount_wads + new
        /\ b.accumulated_protocol_fees_wads = taken + res.accumulated_protocol_fees_wads
    BY <2>1 DEF Compound, ReserveType, new, taken
  <2>3. FromInt(res.available_amount) \in Nat
    BY <1>1, ConversionNat
  <2>4. TotalSupply(b) >= TotalSupply(res)
    BY <1>1, <1>3, <1>4, <2>2, <2>3 DEF TotalSupply
  <2> QED BY <1>2, <2>4 DEF SameAccounts
<1>6. CASE ~ (elapsed > 0)
  <2>1. slot = res.last_update.slot
    BY <1>1, <1>6
  <2>2. TotalSupply(b) = TotalSupply(res)
    BY <1>2, <2>1, SameSupply
  <2> QED BY <1>2, <2>1, <2>2, SupplyInt DEF SameAccounts
<1> QED BY <1>5, <1>6

\* A loan, fee included, is owed for what it takes; a repayment brings at
\* least the debt it settles; fees redeemed were not part of the supply.
LEMMA LendSupply ==
    ASSUME NEW res \in ReserveType, NEW amount \in Nat
    PROVE  /\ TotalSupply(Lend(res, amount)) >= TotalSupply(res)
           /\ Lend(res, amount).mint_total_supply = res.mint_total_supply
<1>1. PICK b : b = Lend(res, amount)
  OBVIOUS
<1>2. PICK n \in Nat : n = Floor(amount) /\ FromInt(n) =< amount
  BY DecimalNat, FloorBounds
<1>3. /\ b.available_amount = res.available_amount - n
      /\ b.borrowed_amount_wads = res.borrowed_amount_wads + amount
      /\ b.accumulated_protocol_fees_wads = res.accumulated_protocol_fees_wads
      /\ b.mint_total_supply = res.mint_total_supply
  BY <1>1, <1>2 DEF Lend, ReserveType
<1>4. /\ res.available_amount \in Nat /\ res.borrowed_amount_wads \in Nat
      /\ res.accumulated_protocol_fees_wads \in Nat
  BY DEF ReserveType
<1>5. PICK x \in Nat : x = res.available_amount
  BY <1>4
<1>6. FromInt(x - n) = FromInt(x) - FromInt(n) /\ FromInt(x) \in Nat /\ FromInt(n) \in Nat
  BY WADAssumption, ConversionNat, SMT DEF FromInt
<1>7. TotalSupply(b) = FromInt(x) - FromInt(n) + (res.borrowed_amount_wads + amount)
                          - res.accumulated_protocol_fees_wads
  BY <1>3, <1>5, <1>6 DEF TotalSupply
<1>8. TotalSupply(res) = FromInt(x) + res.borrowed_amount_wads - res.accumulated_protocol_fees_wads
  BY <1>5 DEF TotalSupply
<1> QED BY <1>1, <1>2, <1>3, <1>4, <1>6, <1>7, <1>8

\* A ceiling is no less than what it is the ceiling of.
LEMMA CeilBound ==
    ASSUME NEW a \in Nat
    PROVE  Ceil(a) \in Nat /\ a =< FromInt(Ceil(a))
BY WADAssumption, DivFacts, SMT DEF Ceil, FromInt

\* A repayment brings at least the debt it settles.
LEMMA SettleSupply ==
    ASSUME NEW res \in ReserveType, NEW settle \in Nat
    PROVE  LET b == Settle(res, Ceil(settle), settle)
           IN  TotalSupply(b) >= TotalSupply(res) /\ b.mint_total_supply = res.mint_total_supply
<1>1. PICK n \in Nat : n = Ceil(settle) /\ settle =< FromInt(n)
  BY CeilBound
<1>2. PICK b : b = Settle(res, n, settle)
  OBVIOUS
<1>3. /\ res.available_amount \in Nat /\ res.borrowed_amount_wads \in Nat
      /\ res.accumulated_protocol_fees_wads \in Nat
  BY DEF ReserveType
<1>4. PICK d \in Nat : d = Smaller(settle, res.borrowed_amount_wads) /\ d =< settle
  BY <1>3 DEF Smaller
<1>5. /\ b.available_amount = res.available_amount + n
      /\ b.borrowed_amount_wads = res.borrowed_amount_wads - d
      /\ b.accumulated_protocol_fees_wads = res.accumulated_protocol_fees_wads
      /\ b.mint_total_supply = res.mint_total_supply
  BY <1>2, <1>4 DEF Settle, ReserveType
<1>6. PICK x \in Nat : x = res.available_amount
  BY <1>3
<1>7. FromInt(x + n) = FromInt(x) + FromInt(n) /\ FromInt(x) \in Nat /\ FromInt(n) \in Nat
  BY WADAssumption, ConversionNat, SMT DEF FromInt
<1>8. TotalSupply(b) = FromInt(x) + FromInt(n) + (res.borrowed_amount_wads - d)
                          - res.accumulated_protocol_fees_wads
  BY <1>5, <1>6, <1>7 DEF TotalSupply
<1>9. TotalSupply(res) = FromInt(x) + res.borrowed_amount_wads - res.accumulated_protocol_fees_wads
  BY <1>6 DEF TotalSupply
<1> QED BY <1>1, <1>2, <1>3, <1>4, <1>5, <1>7, <1>8, <1>9

\* Fees redeemed were never part of the supply.
LEMMA FeesSupply ==
    ASSUME NEW res \in ReserveType, NEW n \in Nat
    PROVE  /\ TotalSupply(RedeemFees(res, n)) = TotalSupply(res)
           /\ RedeemFees(res, n).mint_total_supply = res.mint_total_supply
<1>1. PICK b : b = RedeemFees(res, n)
  OBVIOUS
<1>2. /\ b.available_amount = res.available_amount - n
      /\ b.borrowed_amount_wads = res.borrowed_amount_wads
      /\ b.accumulated_protocol_fees_wads = res.accumulated_protocol_fees_wads - FromInt(n)
      /\ b.mint_total_supply = res.mint_total_supply
  BY <1>1 DEF RedeemFees, ReserveType
<1>3. /\ res.available_amount \in Nat /\ res.borrowed_amount_wads \in Nat
      /\ res.accumulated_protocol_fees_wads \in Nat
  BY DEF ReserveType
<1>4. PICK x \in Nat : x = res.available_amount
  BY <1>3
<1>5. FromInt(x - n) = FromInt(x) - FromInt(n) /\ FromInt(x) \in Nat /\ FromInt(n) \in Nat
  BY WADAssumption, ConversionNat, SMT DEF FromInt
<1> QED BY <1>1, <1>2, <1>3, <1>4, <1>5 DEF TotalSupply

\* The exchange rate of a reserve with both, between its bounds.
LEMMA RateBounds ==
    ASSUME NEW res \in ReserveType, TotalSupply(res) > 0, res.mint_total_supply > 0
    PROVE  LET rate  == ExchangeRate(res)
               exact == FromInt(FromInt(res.mint_total_supply))
           IN  /\ rate \in Nat /\ exact \in Nat /\ TotalSupply(res) \in Nat
               /\ rate * TotalSupply(res) =< exact
               /\ exact =< (rate + 1) * TotalSupply(res)
<1>1. PICK m \in Nat : m = FromInt(res.mint_total_supply)
  BY ConversionNat DEF ReserveType
<1>2. PICK t \in Nat \ {0} : t = TotalSupply(res)
  BY SupplyInt
<1>3. FromInt(m) \in Nat
  BY ConversionNat
<1>4. ExchangeRate(res) = FromInt(m) \div t
  BY <1>1, <1>2 DEF ExchangeRate, Div, FromInt
<1>5. PICK q \in Nat : q = FromInt(m) \div t /\ q * t =< FromInt(m) /\ FromInt(m) < q * t + t
  BY <1>3, DivFacts
<1>6. (q + 1) * t = q * t + t /\ q * t \in Nat
  BY SMT
<1>7. FromInt(m) =< (q + 1) * t
  BY <1>3, <1>5, <1>6
<1> QED BY <1>1, <1>2, <1>3, <1>4, <1>5, <1>7

\* A deposit is given at most the tokens that its liquidity is worth.
LEMMA DepositWorth ==
    ASSUME NEW res \in ReserveType, TotalSupply(res) > 0, res.mint_total_supply > 0,
           NEW n \in Nat, NEW c, c = LiquidityToCollateral(res, n)
    PROVE  c \in Nat /\ c * TotalSupply(res) =< FromInt(n) * res.mint_total_supply
<1>1. PICK m \in Nat : m = res.mint_total_supply
  BY DEF ReserveType
<1>2. PICK t \in Nat : t = TotalSupply(res)
  BY RateBounds
<1>3. PICK rate \in Nat : rate = ExchangeRate(res) /\ rate * t =< FromInt(FromInt(m))
  BY <1>1, <1>2, RateBounds
<1>4. PICK x \in Nat : x = Mul(FromInt(n), rate)
  BY DecimalNat
<1>5. c \in Nat /\ FromInt(c) =< x
  BY <1>3, <1>4, FloorBounds, DecimalNat DEF LiquidityToCollateral
<1>6. FromInt(x) =< FromInt(n) * rate /\ FromInt(n) * rate \in Nat
  <2>1. FromInt(n) * rate \in Nat
    BY ConversionNat, ProductNat
  <2> QED BY <1>4, <2>1, FloorBounds DEF Mul, Floor
<1>7. x =< n * rate /\ n * rate \in Nat
  <2>1. FromInt(n) * rate = (n * rate) * WAD /\ n * rate \in Nat
    BY WADAssumption, ProductNat, SMT DEF FromInt
  <2>2. FromInt(x) = x * WAD
    BY DEF FromInt
  <2> QED BY <1>4, <2>1, WADAssumption, QuotientBound, ProductNat DEF Mul
<1>8. c * WAD =< n * rate
  BY <1>5, <1>7, ConversionNat DEF FromInt
<1>9. (c * WAD) * t =< (n * rate) * t
  BY <1>5, <1>7, <1>8, WADAssumption, ProductNat, ProductMonotone
<1>10. (rate * t) * n =< FromInt(FromInt(m)) * n
  BY <1>3, ConversionNat, ProductNat, ProductMonotone
<1>11. (n * rate) * t = (rate * t) * n
  BY SMT
<1>12. /\ (c * WAD) * t = (c * t) * WAD
       /\ FromInt(FromInt(m)) * n = (FromInt(n) * m) * WAD
       /\ c * t \in Nat /\ FromInt(n) * m \in Nat
       /\ (c * t) * WAD \in Nat /\ (FromInt(n) * m) * WAD \in Nat
  BY <1>5, WADAssumption, ConversionNat, ProductNat, SMT DEF FromInt
<1>13. (c * t) * WAD =< (FromInt(n) * m) * WAD
  BY <1>9, <1>10, <1>11, <1>12
<1>14. (FromInt(n) * m) * WAD = FromInt(FromInt(n) * m) /\ (c * t) * WAD = FromInt(c * t)
  BY DEF FromInt
<1>15. c * t =< FromInt(n) * m
  BY <1>12, <1>13, WADAssumption, QuotientBound, FloorFromInt DEF Floor, FromInt
<1> QED BY <1>1, <1>2, <1>5, <1>15

\* Tokens redeemed are paid at most what they are worth, but for one part in
\* WAD of the supply for each token of liquidity paid.
LEMMA RedemptionWorth ==
    ASSUME NEW res \in ReserveType, TotalSupply(res) > 0, res.mint_total_supply > 0,
           ExchangeRate(res) > 0, NEW n \in Nat, NEW liq, liq = CollateralToLiquidity(res, n)
    PROVE  /\ liq \in Nat
           /\ FromInt(liq) * res.mint_total_supply * WAD =< (FromInt(n) + liq) * TotalSupply(res)
<1>1. PICK m \in Nat : m = res.mint_total_supply
  BY DEF ReserveType
<1>2. PICK t \in Nat : t = TotalSupply(res)
  BY RateBounds
<1>3. PICK rate \in Nat \ {0} : rate = ExchangeRate(res) /\ FromInt(FromInt(m)) =< (rate + 1) * t
  BY <1>1, <1>2, RateBounds
<1>4. PICK d \in Nat : d = Div(FromInt(n), rate) /\ d * rate =< FromInt(FromInt(n))
  <2>1. FromInt(n) \in Nat /\ FromInt(FromInt(n)) \in Nat
    BY ConversionNat
  <2> QED BY <2>1, DivFacts DEF Div, FromInt
<1>5. liq \in Nat /\ FromInt(liq) =< d
  BY <1>3, <1>4, FloorBounds, DecimalNat DEF CollateralToLiquidity, DecimalCollateralToLiquidity
<1>6. FromInt(liq) * rate =< FromInt(FromInt(n))
  <2>1. FromInt(liq) * rate =< d * rate
    BY <1>5, ConversionNat, ProductMonotone
  <2> QED BY <1>4, <1>5, <2>1, ConversionNat, ProductNat
<1>7. liq * rate =< FromInt(n)
  <2>1. FromInt(liq) * rate = FromInt(liq * rate) /\ liq * rate \in Nat
    BY <1>5, WADAssumption, ProductNat, SMT DEF FromInt
  <2>2. FromInt(n) \in Nat /\ FromInt(liq * rate) \in Nat
    BY <2>1, ConversionNat
  <2>3. FromInt(liq * rate) \div WAD =< FromInt(FromInt(n)) \div WAD
    BY <1>6, <2>1, <2>2, WADAssumption, ConversionNat, DivMonotone
  <2> QED BY <2>1, <2>2, <2>3, FloorFromInt DEF Floor
<1>8. FromInt(FromInt(m)) * liq =< ((rate + 1) * t) * liq
  BY <1>3, <1>5, ConversionNat, ProductNat, ProductMonotone
<1>9. ((rate + 1) * t) * liq = (liq * rate + liq) * t
  BY <1>5, SMT
<1>10. (liq * rate + liq) * t =< (FromInt(n) + liq) * t
  BY <1>5, <1>7, ConversionNat, ProductNat, ProductMonotone
<1>11. FromInt(FromInt(m)) * liq = FromInt(liq) * m * WAD
  BY <1>5, WADAssumption, SMT DEF FromInt
<1>12. /\ FromInt(FromInt(m)) * liq \in Nat /\ (liq * rate + liq) * t \in Nat
       /\ (FromInt(n) + liq) * t \in Nat
  BY <1>5, ConversionNat, ProductNat
<1> QED BY <1>1, <1>2, <1>5, <1>8, <1>9, <1>10, <1>11, <1>12
=============================================================================
