------------------------------ MODULE SumLemmas ------------------------------
(***************************************************************************)
(* Sums of a function over a finite set.  The models total accounts with   *)
(* SumFunctionOnSet of the community module Functions; these are the facts *)
(* their proofs use: a sum loses a term with an element, changes with the  *)
(* terms that change, and is bounded term by term.                         *)
(*                                                                         *)
(* The sum is defined by a recursive function on the subsets of the set.   *)
(* The library's rule of induction on finite sets takes a predicate as a   *)
(* parameter, which the provers cannot instantiate; that a non-empty set   *)
(* of subsets has a least one (WFMin) takes none and does the same work.   *)
(***************************************************************************)
EXTENDS Integers, FiniteSets, Functions, FiniteSetTheorems, WellFoundedInduction, TLAPS

\* The element the fold takes out of a set, the equation it solves, its solution.
Pick(S) == CHOOSE x \in S : TRUE

IsFold(f, D, g) ==
  g = [s \in SUBSET D |-> IF s = {} THEN 0 ELSE f[Pick(s)] + g[s \ {Pick(s)}]]

Fold(f, D) == CHOOSE g : IsFold(f, D, g)

\* The sum is the value, at the whole set, of the function that the fold chooses.
LEMMA Unfold ==
  ASSUME NEW f, NEW D
  PROVE  SumFunctionOnSet(f, D) = Fold(f, D)[D]
BY DEF SumFunctionOnSet, FoldFunctionOnSet, MapThenFoldSet, Fold, IsFold, Pick

\* The fold takes an element of the set.
LEMMA PickMember ==
  ASSUME NEW S, S # {}
  PROVE  Pick(S) \in S
BY DEF Pick

\* Among some subsets of a finite set there is one that includes no other.
LEMMA LeastSubset ==
  ASSUME NEW D, IsFiniteSet(D), NEW T, T \subseteq SUBSET D, T # {}
  PROVE  \E U \in T : \A V \in T : V \subseteq U => V = U
<1>1. IsWellFoundedOn(StrictSubsetOrdering(D), SUBSET D)
  BY FS_StrictSubsetOrderingWellFounded, FS_FiniteSubsetsOfFinite
<1>2. PICK U \in T : \A V \in T : ~ (<<V, U>> \in StrictSubsetOrdering(D))
  BY <1>1, WFMin
<1>3. ASSUME NEW V \in T, V \subseteq U  PROVE V = U
  <2>1. <<V, U>> \in (SUBSET D) \X (SUBSET D)  OBVIOUS
  <2>2. <<V, U>>[1] = V /\ <<V, U>>[2] = U  OBVIOUS
  <2>. QED  BY <1>2, <1>3, <2>1, <2>2 DEF StrictSubsetOrdering
<1>. QED  BY <1>3

\* What the recursion says of one subset.
LEMMA FoldStep ==
  ASSUME NEW f, NEW D, NEW g, IsFold(f, D, g), NEW s \in SUBSET D
  PROVE  g[s] = IF s = {} THEN 0 ELSE f[Pick(s)] + g[s \ {Pick(s)}]
BY DEF IsFold

\* The recursion has one solution: those on a set and on a part of it agree on
\* the part.
LEMMA FoldUnique ==
  ASSUME NEW f, NEW D, IsFiniteSet(D), NEW E, E \subseteq D,
         NEW g, IsFold(f, D, g), NEW h, IsFold(f, E, h)
  PROVE  \A s \in SUBSET E : g[s] = h[s]
<1>. DEFINE Bad == {s \in SUBSET E : g[s] # h[s]}
<1>1. SUFFICES ASSUME Bad # {}  PROVE FALSE
  OBVIOUS
<1>. HIDE DEF Bad
<1>2. PICK U \in Bad : \A V \in Bad : V \subseteq U => V = U
  <2>1. Bad \subseteq SUBSET D  BY DEF Bad
  <2>. QED  BY <1>1, <2>1, LeastSubset
<1>3. U \in SUBSET E /\ U \in SUBSET D /\ g[U] # h[U]
  BY <1>2 DEF Bad
<1>4. CASE U = {}
  BY <1>3, <1>4, FoldStep
<1>5. CASE U # {}
  <2>. DEFINE V == U \ {Pick(U)}
  <2>1. V \subseteq U /\ V # U /\ V \in SUBSET E
    BY <1>3, <1>5, PickMember
  <2>2. g[V] = h[V]
    BY <2>1, <1>2 DEF Bad
  <2>3. g[U] = IF U = {} THEN 0 ELSE f[Pick(U)] + g[U \ {Pick(U)}]
    BY <1>3, FoldStep
  <2>4. h[U] = IF U = {} THEN 0 ELSE f[Pick(U)] + h[U \ {Pick(U)}]
    BY <1>3, FoldStep
  <2>. QED  BY <2>2, <2>3, <2>4, <1>3, <1>5
<1>. QED  BY <1>4, <1>5

\* The recursion has a solution on every finite set, so that the fold chooses one.
LEMMA FoldExists ==
  ASSUME NEW f, NEW D, IsFiniteSet(D)
  PROVE  IsFold(f, D, Fold(f, D))
<1>. DEFINE Bad == {s \in SUBSET D : ~ \E g : IsFold(f, s, g)}
<1>1. SUFFICES ASSUME Bad # {}  PROVE FALSE
  <2>1. \E g : IsFold(f, D, g)  BY <1>1
  <2>. QED  BY <2>1 DEF Fold
<1>. HIDE DEF Bad
<1>2. PICK U \in Bad : \A V \in Bad : V \subseteq U => V = U
  <2>1. Bad \subseteq SUBSET D  BY DEF Bad
  <2>. QED  BY <1>1, <2>1, LeastSubset
<1>3. U \in SUBSET D /\ ~ \E g : IsFold(f, U, g)
  BY <1>2 DEF Bad
<1>4. ASSUME NEW t \in SUBSET U, t # U
      PROVE  IsFold(f, t, Fold(f, t))
  <2>1. t \notin Bad  BY <1>2, <1>4
  <2>2. \E g : IsFold(f, t, g)  BY <2>1, <1>3 DEF Bad
  <2>. QED  BY <2>2 DEF Fold
<1>. DEFINE Rest(s) == s \ {Pick(s)}
            h == [s \in SUBSET U |->
                    IF s = {} THEN 0 ELSE f[Pick(s)] + Fold(f, Rest(s))[Rest(s)]]
<1>5. ASSUME NEW s \in SUBSET U, s # {}
      PROVE  h[Rest(s)] = Fold(f, Rest(s))[Rest(s)]
  <2>. DEFINE t == Rest(s)
  <2>1. t \in SUBSET U /\ t # U
    BY <1>5, PickMember
  <2>2. IsFold(f, t, Fold(f, t))
    BY <2>1, <1>4
  <2>3. CASE t = {}
    <3>1. h[t] = 0  BY <2>1, <2>3
    <3>2. Fold(f, t)[t] = 0  BY <2>2, <2>3, FoldStep
    <3>. QED  BY <3>1, <3>2
  <2>4. CASE t # {}
    <3>. DEFINE u == Rest(t)
    <3>1. u \in SUBSET t /\ u \in SUBSET U /\ u # U
      BY <2>1, <2>4, PickMember
    <3>2. h[t] = f[Pick(t)] + Fold(f, u)[u]
      BY <2>1, <2>4
    <3>. HIDE DEF h
    <3>3. Fold(f, t)[t] = f[Pick(t)] + Fold(f, t)[u]
      <4>. HIDE DEF t
      <4>1. t \in SUBSET t  OBVIOUS
      <4>2. Fold(f, t)[t] = IF t = {} THEN 0 ELSE f[Pick(t)] + Fold(f, t)[t \ {Pick(t)}]
        BY <4>1, <2>2, FoldStep
      <4>. QED  BY <4>2, <2>4
    <3>4. IsFold(f, u, Fold(f, u))
      BY <3>1, <1>4
    <3>5. IsFiniteSet(t)
      BY <2>1, <1>3, FS_Subset
    <3>6. Fold(f, t)[u] = Fold(f, u)[u]
      <4>. HIDE DEF t, u
      <4>. QED BY <2>2, <3>1, <3>4, <3>5, FoldUnique
    <3>. QED  BY <3>2, <3>3, <3>6
  <2>. QED  BY <2>3, <2>4
<1>6. h = [s \in SUBSET U |-> IF s = {} THEN 0 ELSE f[Pick(s)] + h[s \ {Pick(s)}]]
  <2>. DEFINE k == [s \in SUBSET U |-> IF s = {} THEN 0 ELSE f[Pick(s)] + h[s \ {Pick(s)}]]
  <2>1. ASSUME NEW s \in SUBSET U  PROVE h[s] = k[s]
    <3>1. CASE s = {}  BY <3>1
    <3>2. CASE s # {}
      <4>1. h[s] = f[Pick(s)] + Fold(f, Rest(s))[Rest(s)]  BY <3>2
      <4>2. k[s] = f[Pick(s)] + h[Rest(s)]  BY <3>2
      <4>3. h[Rest(s)] = Fold(f, Rest(s))[Rest(s)]  BY <3>2, <1>5
      <4>. QED  BY <4>1, <4>2, <4>3
    <3>. QED  BY <3>1, <3>2
  <2>2. h = [s \in SUBSET U |-> h[s]] /\ k = [s \in SUBSET U |-> k[s]]
    OBVIOUS
  <2>. HIDE DEF h, k
  <2>3. h = k  BY <2>1, <2>2
  <2>. QED  BY <2>3 DEF k
<1>7. IsFold(f, U, h)
  BY <1>6 DEF IsFold
<1>. QED  BY <1>7, <1>3

\* The sum over nothing is zero; another sum is that of one element and the rest.
LEMMA SumStep ==
  ASSUME NEW f, NEW S, IsFiniteSet(S)
  PROVE  /\ S = {} => SumFunctionOnSet(f, S) = 0
         /\ S # {} => /\ Pick(S) \in S
                      /\ SumFunctionOnSet(f, S) =
                           f[Pick(S)] + SumFunctionOnSet(f, S \ {Pick(S)})
<1>. DEFINE R == S \ {Pick(S)}
<1>1. IsFold(f, S, Fold(f, S))  BY FoldExists
<1>2. IsFiniteSet(R)  BY FS_Subset
<1>3. IsFold(f, R, Fold(f, R))  BY <1>2, FoldExists
<1>4. Fold(f, S)[R] = Fold(f, R)[R]
  <2>. HIDE DEF R
  <2>1. R \subseteq S  BY DEF R
  <2>. QED  BY <1>1, <1>3, <2>1, FoldUnique
<1>5. Fold(f, S)[S] = IF S = {} THEN 0 ELSE f[Pick(S)] + Fold(f, S)[R]
  BY <1>1, FoldStep
<1>. QED  BY <1>4, <1>5, Unfold, PickMember

\* Induction: a set of subsets of S that has every subset which it has less any
\* one element, has S.
LEMMA SubsetInduction ==
  ASSUME NEW S, IsFiniteSet(S), NEW Good, Good \subseteq SUBSET S,
         \A U \in SUBSET S : (\A x \in U : U \ {x} \in Good) => U \in Good
  PROVE  S \in Good
<1>. DEFINE Bad == (SUBSET S) \ Good
<1>1. SUFFICES ASSUME Bad # {}  PROVE FALSE
  OBVIOUS
<1>2. PICK U \in Bad : \A V \in Bad : V \subseteq U => V = U
  <2>1. Bad \subseteq SUBSET S  OBVIOUS
  <2>. HIDE DEF Bad
  <2>. QED  BY <1>1, <2>1, LeastSubset
<1>3. \A x \in U : U \ {x} \in Good
  BY <1>2
<1>. QED  BY <1>2, <1>3

\* A sum of integers is an integer.
LEMMA SumInt ==
  ASSUME NEW f, NEW S, IsFiniteSet(S), \A x \in S : f[x] \in Int
  PROVE  SumFunctionOnSet(f, S) \in Int
<1>. DEFINE Good == {U \in SUBSET S : SumFunctionOnSet(f, U) \in Int}
<1>1. ASSUME NEW U \in SUBSET S, \A x \in U : U \ {x} \in Good
      PROVE  U \in Good
  <2>1. IsFiniteSet(U)  BY FS_Subset
  <2>2. CASE U = {}
    <3>1. SumFunctionOnSet(f, U) = 0  BY <2>1, <2>2, SumStep
    <3>. QED  BY <3>1
  <2>3. CASE U # {}
    <3>1. Pick(U) \in U /\ SumFunctionOnSet(f, U) =
             f[Pick(U)] + SumFunctionOnSet(f, U \ {Pick(U)})
      BY <2>1, <2>3, SumStep
    <3>2. SumFunctionOnSet(f, U \ {Pick(U)}) \in Int
      BY <3>1, <1>1
    <3>. QED  BY <3>1, <3>2
  <2>. QED  BY <2>2, <2>3
<1>. QED  BY <1>1, SubsetInduction

\* A sum of naturals is a natural.
LEMMA SumNat ==
  ASSUME NEW f, NEW S, IsFiniteSet(S), \A x \in S : f[x] \in Nat
  PROVE  SumFunctionOnSet(f, S) \in Nat
<1>. DEFINE Good == {U \in SUBSET S : SumFunctionOnSet(f, U) \in Nat}
<1>1. ASSUME NEW U \in SUBSET S, \A x \in U : U \ {x} \in Good
      PROVE  U \in Good
  <2>1. IsFiniteSet(U)  BY FS_Subset
  <2>2. CASE U = {}
    <3>1. SumFunctionOnSet(f, U) = 0  BY <2>1, <2>2, SumStep
    <3>. QED  BY <3>1
  <2>3. CASE U # {}
    <3>1. Pick(U) \in U /\ SumFunctionOnSet(f, U) =
             f[Pick(U)] + SumFunctionOnSet(f, U \ {Pick(U)})
      BY <2>1, <2>3, SumStep
    <3>2. SumFunctionOnSet(f, U \ {Pick(U)}) \in Nat
      BY <3>1, <1>1
    <3>. QED  BY <3>1, <3>2
  <2>. QED  BY <2>2, <2>3
<1>. QED  BY <1>1, SubsetInduction

\* Whichever element is taken out, the sum loses its term.
LEMMA SumRemove ==
  ASSUME NEW f, NEW S, IsFiniteSet(S), \A x \in S : f[x] \in Int, NEW y \in S
  PROVE  SumFunctionOnSet(f, S) = f[y] + SumFunctionOnSet(f, S \ {y})
<1>. DEFINE Sum(U) == SumFunctionOnSet(f, U)
            Good == {U \in SUBSET S : \A x \in U : Sum(U) = f[x] + Sum(U \ {x})}
<1>1. ASSUME NEW U \in SUBSET S, \A x \in U : U \ {x} \in Good, NEW x \in U
      PROVE  Sum(U) = f[x] + Sum(U \ {x})
  <2>. DEFINE p == Pick(U)
  <2>1. IsFiniteSet(U)  BY FS_Subset
  <2>2. p \in U /\ Sum(U) = f[p] + Sum(U \ {p})
    BY <2>1, SumStep
  <2>3. CASE p = x  BY <2>2, <2>3
  <2>4. CASE p # x
    <3>1. Sum(U \ {p}) = f[x] + Sum((U \ {p}) \ {x})
      BY <2>2, <2>4, <1>1
    <3>2. Sum(U \ {x}) = f[p] + Sum((U \ {x}) \ {p})
      BY <2>2, <2>4, <1>1
    <3>3. (U \ {p}) \ {x} = (U \ {x}) \ {p}
      OBVIOUS
    <3>4. Sum((U \ {x}) \ {p}) \in Int
      <4>1. IsFiniteSet((U \ {x}) \ {p})  BY <2>1, FS_Subset
      <4>. QED  BY <4>1, SumInt
    <3>5. f[x] \in Int /\ f[p] \in Int
      BY <2>2
    <3>. DEFINE fp == f[p]
                fx == f[x]
                rest == Sum((U \ {x}) \ {p})
                noP == Sum(U \ {p})
                noX == Sum(U \ {x})
    <3>6. /\ fp \in Int /\ fx \in Int /\ rest \in Int
          /\ Sum(U) = fp + noP /\ noP = fx + rest /\ noX = fp + rest
      BY <2>2, <3>1, <3>2, <3>3, <3>4, <3>5
    <3>. HIDE DEF fp, fx, rest, noP, noX
    <3>7. Sum(U) = fx + noX
      BY <3>6
    <3>. QED  BY <3>7 DEF fx, noX
  <2>. QED  BY <2>3, <2>4
<1>2. S \in Good
  <2>. HIDE DEF Sum
  <2>1. \A U \in SUBSET S : (\A x \in U : U \ {x} \in Good) => U \in Good
    BY <1>1
  <2>. HIDE DEF Good
  <2>2. Good \subseteq SUBSET S  BY DEF Good
  <2>. QED  BY <2>1, <2>2, SubsetInduction
<1>. QED  BY <1>2

\* Functions that agree on a set have the same sum over it.
LEMMA SumEqual ==
  ASSUME NEW f, NEW g, NEW S, IsFiniteSet(S), \A x \in S : f[x] = g[x]
  PROVE  SumFunctionOnSet(f, S) = SumFunctionOnSet(g, S)
<1>. DEFINE Good == {U \in SUBSET S : SumFunctionOnSet(f, U) = SumFunctionOnSet(g, U)}
<1>1. ASSUME NEW U \in SUBSET S, \A x \in U : U \ {x} \in Good
      PROVE  U \in Good
  <2>1. IsFiniteSet(U)  BY FS_Subset
  <2>2. CASE U = {}  BY <2>1, <2>2, SumStep
  <2>3. CASE U # {}
    <3>1. /\ Pick(U) \in U
          /\ SumFunctionOnSet(f, U) = f[Pick(U)] + SumFunctionOnSet(f, U \ {Pick(U)})
          /\ SumFunctionOnSet(g, U) = g[Pick(U)] + SumFunctionOnSet(g, U \ {Pick(U)})
      BY <2>1, <2>3, SumStep
    <3>2. SumFunctionOnSet(f, U \ {Pick(U)}) = SumFunctionOnSet(g, U \ {Pick(U)})
      BY <3>1, <1>1
    <3>. QED  BY <3>1, <3>2
  <2>. QED  BY <2>2, <2>3
<1>. QED  BY <1>1, SubsetInduction

\* A sum of zeros is zero.
LEMMA SumZero ==
  ASSUME NEW f, NEW S, IsFiniteSet(S), \A x \in S : f[x] = 0
  PROVE  SumFunctionOnSet(f, S) = 0
<1>. DEFINE Good == {U \in SUBSET S : SumFunctionOnSet(f, U) = 0}
<1>1. ASSUME NEW U \in SUBSET S, \A x \in U : U \ {x} \in Good
      PROVE  U \in Good
  <2>1. IsFiniteSet(U)  BY FS_Subset
  <2>2. CASE U = {}  BY <2>1, <2>2, SumStep
  <2>3. CASE U # {}
    <3>1. /\ Pick(U) \in U
          /\ SumFunctionOnSet(f, U) = f[Pick(U)] + SumFunctionOnSet(f, U \ {Pick(U)})
      BY <2>1, <2>3, SumStep
    <3>2. SumFunctionOnSet(f, U \ {Pick(U)}) = 0 /\ f[Pick(U)] = 0
      BY <3>1, <1>1
    <3>. QED  BY <3>1, <3>2
  <2>. QED  BY <2>2, <2>3
<1>. QED  BY <1>1, SubsetInduction

\* A sum changes by as much as its one term that changes.
LEMMA SumUpdate ==
  ASSUME NEW f, NEW g, NEW S, IsFiniteSet(S), NEW y \in S,
         \A x \in S : f[x] \in Int, g[y] \in Int,
         \A x \in S \ {y} : g[x] = f[x]
  PROVE  SumFunctionOnSet(g, S) = SumFunctionOnSet(f, S) - f[y] + g[y]
<1>. DEFINE R == S \ {y}
<1>1. SumFunctionOnSet(g, S) = g[y] + SumFunctionOnSet(g, R)
  BY SumRemove
<1>2. SumFunctionOnSet(f, S) = f[y] + SumFunctionOnSet(f, R)
  BY SumRemove
<1>3. IsFiniteSet(R)  BY FS_Subset
<1>4. SumFunctionOnSet(g, R) = SumFunctionOnSet(f, R)
  BY <1>3, SumEqual
<1>5. SumFunctionOnSet(f, R) \in Int
  BY <1>3, SumInt
<1>. QED  BY <1>1, <1>2, <1>4, <1>5

\* A sum changes by as much as its two terms that change.
LEMMA SumUpdateTwo ==
  ASSUME NEW f, NEW g, NEW S, IsFiniteSet(S), NEW y \in S, NEW z \in S, y # z,
         \A x \in S : f[x] \in Int, g[y] \in Int, g[z] \in Int,
         \A x \in S \ {y, z} : g[x] = f[x]
  PROVE  SumFunctionOnSet(g, S) =
           SumFunctionOnSet(f, S) - f[y] - f[z] + g[y] + g[z]
<1>. DEFINE R == S \ {y}
<1>1. SumFunctionOnSet(g, S) = g[y] + SumFunctionOnSet(g, R)
  BY SumRemove
<1>2. SumFunctionOnSet(f, S) = f[y] + SumFunctionOnSet(f, R)
  BY SumRemove
<1>3. IsFiniteSet(R) /\ z \in R  BY FS_Subset
<1>4. SumFunctionOnSet(g, R) = SumFunctionOnSet(f, R) - f[z] + g[z]
  BY <1>3, SumUpdate
<1>5. SumFunctionOnSet(f, R) \in Int
  BY <1>3, SumInt
<1>. QED  BY <1>1, <1>2, <1>4, <1>5

\* No term of a sum of naturals exceeds it.
LEMMA SumTerm ==
  ASSUME NEW f, NEW S, IsFiniteSet(S), \A x \in S : f[x] \in Nat, NEW y \in S
  PROVE  f[y] =< SumFunctionOnSet(f, S)
<1>1. SumFunctionOnSet(f, S) = f[y] + SumFunctionOnSet(f, S \ {y})
  BY SumRemove
<1>2. SumFunctionOnSet(f, S \ {y}) \in Nat
  <2>1. IsFiniteSet(S \ {y})  BY FS_Subset
  <2>. QED  BY <2>1, SumNat
<1>. QED  BY <1>1, <1>2

\* The sum over two disjoint sets is the sum of both.
LEMMA SumUnion ==
  ASSUME NEW f, NEW A, IsFiniteSet(A), NEW B, IsFiniteSet(B), A \cap B = {},
         \A x \in A \cup B : f[x] \in Int
  PROVE  SumFunctionOnSet(f, A \cup B) = SumFunctionOnSet(f, A) + SumFunctionOnSet(f, B)
<1>. DEFINE Sum(U) == SumFunctionOnSet(f, U)
            Good == {U \in SUBSET A : Sum(U \cup B) = Sum(U) + Sum(B)}
<1>1. Sum(B) \in Int
  BY SumInt
<1>2. ASSUME NEW U \in SUBSET A, \A x \in U : U \ {x} \in Good
      PROVE  Sum(U \cup B) = Sum(U) + Sum(B)
  <2>1. IsFiniteSet(U) /\ IsFiniteSet(U \cup B)
    BY FS_Subset, FS_Union
  <2>2. CASE U = {}
    <3>1. Sum(U) = 0 /\ U \cup B = B  BY <2>1, <2>2, SumStep
    <3>. HIDE DEF Sum
    <3>. QED  BY <3>1, <1>1
  <2>3. CASE U # {}
    <3>1. PICK x \in U : TRUE  BY <2>3
    <3>. DEFINE R == U \ {x}
    <3>2. Sum(R \cup B) = Sum(R) + Sum(B)
      BY <1>2, <3>1
    <3>3. Sum(U) = f[x] + Sum(R)
      BY <2>1, SumRemove
    <3>4. Sum(U \cup B) = f[x] + Sum((U \cup B) \ {x})
      <4>1. x \in U \cup B  OBVIOUS
      <4>2. \A y \in U \cup B : f[y] \in Int  OBVIOUS
      <4>. QED  BY <2>1, <4>1, <4>2, SumRemove
    <3>5. (U \cup B) \ {x} = R \cup B  OBVIOUS
    <3>6. Sum(R) \in Int /\ f[x] \in Int
      <4>1. IsFiniteSet(R)  BY <2>1, FS_Subset
      <4>. QED  BY <4>1, SumInt
    <3>. DEFINE fx == f[x]
                r == Sum(R)
                b == Sum(B)
    <3>7. /\ fx \in Int /\ r \in Int /\ b \in Int
          /\ Sum(U) = fx + r /\ Sum(U \cup B) = fx + (r + b)
      BY <3>2, <3>3, <3>4, <3>5, <3>6, <1>1
    <3>. HIDE DEF Sum, fx, r, b
    <3>8. Sum(U \cup B) = Sum(U) + b
      BY <3>7
    <3>. QED  BY <3>8 DEF b
  <2>. QED  BY <2>2, <2>3
<1>3. A \in Good
  <2>. HIDE DEF Sum
  <2>1. \A U \in SUBSET A : (\A x \in U : U \ {x} \in Good) => U \in Good
    BY <1>2
  <2>. HIDE DEF Good
  <2>2. Good \subseteq SUBSET A  BY DEF Good
  <2>. QED  BY <2>1, <2>2, SubsetInduction
<1>. QED  BY <1>3

\* A sum of naturals over a part is at most that over the whole.
LEMMA SumPart ==
  ASSUME NEW f, NEW S, IsFiniteSet(S), NEW A, A \subseteq S, \A x \in S : f[x] \in Nat
  PROVE  SumFunctionOnSet(f, A) =< SumFunctionOnSet(f, S)
<1>. DEFINE B == S \ A
<1>1. IsFiniteSet(A) /\ IsFiniteSet(B)  BY FS_Subset
<1>2. SumFunctionOnSet(f, A) \in Nat /\ SumFunctionOnSet(f, B) \in Nat
  BY <1>1, SumNat
<1>3. SumFunctionOnSet(f, A \cup B) = SumFunctionOnSet(f, A) + SumFunctionOnSet(f, B)
  BY <1>1, SumUnion
<1>4. A \cup B = S  OBVIOUS
<1>5. SumFunctionOnSet(f, S) = SumFunctionOnSet(f, A) + SumFunctionOnSet(f, B)
  BY <1>3, <1>4
<1>. HIDE DEF B
<1>. QED  BY <1>2, <1>5

\* Weighted term by term, a sum is weighted as a whole.
LEMMA SumScaled ==
  ASSUME NEW f, NEW g, NEW S, IsFiniteSet(S), NEW m \in Int, NEW n \in Int,
         \A x \in S : f[x] \in Int /\ g[x] \in Int /\ m * f[x] =< n * g[x]
  PROVE  m * SumFunctionOnSet(f, S) =< n * SumFunctionOnSet(g, S)
<1>. DEFINE F(U) == SumFunctionOnSet(f, U)
            G(U) == SumFunctionOnSet(g, U)
            Good == {U \in SUBSET S : m * F(U) =< n * G(U)}
<1>1. ASSUME NEW U \in SUBSET S, \A x \in U : U \ {x} \in Good
      PROVE  m * F(U) =< n * G(U)
  <2>1. IsFiniteSet(U)  BY FS_Subset
  <2>2. CASE U = {}
    <3>1. F(U) = 0 /\ G(U) = 0  BY <2>1, <2>2, SumStep
    <3>. QED  BY <3>1
  <2>3. CASE U # {}
    <3>1. PICK x \in U : TRUE  BY <2>3
    <3>. DEFINE R == U \ {x}
                fx == f[x]
                gx == g[x]
                fr == F(R)
                gr == G(R)
    <3>2. F(U) = fx + fr /\ G(U) = gx + gr
      BY <2>1, SumRemove
    <3>3. m * fr =< n * gr
      BY <1>1, <3>1
    <3>4. fr \in Int /\ gr \in Int /\ fx \in Int /\ gx \in Int /\ m * fx =< n * gx
      <4>1. IsFiniteSet(R)  BY <2>1, FS_Subset
      <4>. QED  BY <4>1, SumInt
    <3>. HIDE DEF fx, gx, fr, gr
    <3>5. m * (fx + fr) = m * fx + m * fr /\ n * (gx + gr) = n * gx + n * gr
      BY <3>4
    <3>6. m * fx \in Int /\ m * fr \in Int /\ n * gx \in Int /\ n * gr \in Int
      BY <3>4
    <3>. QED  BY <3>2, <3>3, <3>4, <3>5, <3>6
  <2>. QED  BY <2>2, <2>3
<1>2. S \in Good
  <2>. HIDE DEF F, G
  <2>1. \A U \in SUBSET S : (\A x \in U : U \ {x} \in Good) => U \in Good
    BY <1>1
  <2>. HIDE DEF Good
  <2>2. Good \subseteq SUBSET S  BY DEF Good
  <2>. QED  BY <2>1, <2>2, SubsetInduction
<1>. QED  BY <1>2

\* Summed over the disjoint parts of a set, then over the parts, naturals make no
\* more than summed over the set.
LEMMA SumOfParts ==
  ASSUME NEW f, NEW T, IsFiniteSet(T), \A x \in T : f[x] \in Nat,
         NEW S, IsFiniteSet(S), NEW part, \A s \in S : part[s] \subseteq T,
         \A s, t \in S : s # t => part[s] \cap part[t] = {}
  PROVE  SumFunctionOnSet([s \in S |-> SumFunctionOnSet(f, part[s])], S)
           =< SumFunctionOnSet(f, T)
<1>. DEFINE h == [s \in S |-> SumFunctionOnSet(f, part[s])]
            All(U) == UNION {part[s] : s \in U}
            Good == {U \in SUBSET S : SumFunctionOnSet(h, U) = SumFunctionOnSet(f, All(U))}
<1>1. \A s \in S : h[s] \in Int
  <2>1. ASSUME NEW s \in S  PROVE h[s] \in Int
    <3>1. IsFiniteSet(part[s]) /\ \A x \in part[s] : f[x] \in Int  BY FS_Subset
    <3>2. SumFunctionOnSet(f, part[s]) \in Int  BY <3>1, SumInt
    <3>. QED  BY <3>2
  <2>. QED  BY <2>1
<1>2. ASSUME NEW U \in SUBSET S, \A x \in U : U \ {x} \in Good
      PROVE  SumFunctionOnSet(h, U) = SumFunctionOnSet(f, All(U))
  <2>1. IsFiniteSet(U)  BY FS_Subset
  <2>2. CASE U = {}
    <3>1. All(U) = {} /\ IsFiniteSet({})  BY <2>2, FS_EmptySet
    <3>2. SumFunctionOnSet(h, U) = 0  BY <2>1, <2>2, SumStep
    <3>3. SumFunctionOnSet(f, {}) = 0  BY <3>1, SumStep
    <3>. QED  BY <3>1, <3>2, <3>3
  <2>3. CASE U # {}
    <3>1. PICK p \in U : TRUE  BY <2>3
    <3>. DEFINE R == U \ {p}
    <3>2. SumFunctionOnSet(h, U) = h[p] + SumFunctionOnSet(h, R)
      <4>. HIDE DEF h
      <4>. QED  BY <1>1, <2>1, SumRemove
    <3>3. SumFunctionOnSet(h, R) = SumFunctionOnSet(f, All(R))
      BY <1>2, <3>1
    <3>4. h[p] = SumFunctionOnSet(f, part[p])
      BY <3>1
    <3>5. All(U) = part[p] \cup All(R) /\ part[p] \cap All(R) = {} /\ All(R) \subseteq T
      OBVIOUS
    <3>6. IsFiniteSet(part[p]) /\ IsFiniteSet(All(R)) /\ \A x \in part[p] \cup All(R) : f[x] \in Int
      BY <3>5, FS_Subset
    <3>. HIDE DEF All, R
    <3>7. SumFunctionOnSet(f, part[p] \cup All(R))
            = SumFunctionOnSet(f, part[p]) + SumFunctionOnSet(f, All(R))
      BY <3>5, <3>6, SumUnion
    <3>. HIDE DEF h
    <3>. QED  BY <3>2, <3>3, <3>4, <3>5, <3>7
  <2>. QED  BY <2>2, <2>3
<1>3. SumFunctionOnSet(h, S) = SumFunctionOnSet(f, All(S))
  <2>. HIDE DEF h, All
  <2>1. \A U \in SUBSET S : (\A x \in U : U \ {x} \in Good) => U \in Good
    BY <1>2
  <2>2. Good \subseteq SUBSET S  OBVIOUS
  <2>3. S \in Good
    <3>. HIDE DEF Good
    <3>. QED  BY <2>1, <2>2, SubsetInduction
  <2>. QED  BY <2>3
<1>4. All(S) \subseteq T
  OBVIOUS
<1>5. SumFunctionOnSet(f, All(S)) =< SumFunctionOnSet(f, T)
  BY <1>4, SumPart
<1>. QED  BY <1>3, <1>5

\* What bounds the terms of three sums bounds the sums.
LEMMA SumWithin ==
  ASSUME NEW f, NEW g, NEW t, NEW S, IsFiniteSet(S),
         NEW m \in Int, NEW n \in Int, NEW k \in Int,
         \A x \in S : /\ f[x] \in Int /\ g[x] \in Int /\ t[x] \in Int
                      /\ m * f[x] =< n * g[x] + k * t[x]
  PROVE  m * SumFunctionOnSet(f, S) =< n * SumFunctionOnSet(g, S) + k * SumFunctionOnSet(t, S)
<1>. DEFINE F(U) == SumFunctionOnSet(f, U)
            G(U) == SumFunctionOnSet(g, U)
            T(U) == SumFunctionOnSet(t, U)
            Good == {U \in SUBSET S : m * F(U) =< n * G(U) + k * T(U)}
<1>1. ASSUME NEW U \in SUBSET S, \A x \in U : U \ {x} \in Good
      PROVE  m * F(U) =< n * G(U) + k * T(U)
  <2>1. IsFiniteSet(U)  BY FS_Subset
  <2>2. CASE U = {}
    <3>1. F(U) = 0 /\ G(U) = 0 /\ T(U) = 0  BY <2>1, <2>2, SumStep
    <3>. QED  BY <3>1
  <2>3. CASE U # {}
    <3>1. PICK x \in U : TRUE  BY <2>3
    <3>. DEFINE R == U \ {x}
                fx == f[x]
                gx == g[x]
                tx == t[x]
                fr == F(R)
                gr == G(R)
                tr == T(R)
    <3>2. F(U) = fx + fr /\ G(U) = gx + gr /\ T(U) = tx + tr
      BY <2>1, SumRemove
    <3>3. m * fr =< n * gr + k * tr
      BY <1>1, <3>1
    <3>4. /\ fr \in Int /\ gr \in Int /\ tr \in Int
          /\ fx \in Int /\ gx \in Int /\ tx \in Int
          /\ m * fx =< n * gx + k * tx
      <4>1. IsFiniteSet(R)  BY <2>1, FS_Subset
      <4>. QED  BY <4>1, SumInt
    <3>. HIDE DEF fx, gx, tx, fr, gr, tr
    <3>5. /\ m * (fx + fr) = m * fx + m * fr
          /\ n * (gx + gr) = n * gx + n * gr
          /\ k * (tx + tr) = k * tx + k * tr
      BY <3>4
    <3>6. /\ m * fx \in Int /\ m * fr \in Int /\ n * gx \in Int /\ n * gr \in Int
          /\ k * tx \in Int /\ k * tr \in Int
      BY <3>4
    <3>. QED  BY <3>2, <3>3, <3>4, <3>5, <3>6
  <2>. QED  BY <2>2, <2>3
<1>2. S \in Good
  <2>. HIDE DEF F, G, T
  <2>1. \A U \in SUBSET S : (\A x \in U : U \ {x} \in Good) => U \in Good
    BY <1>1
  <2>. HIDE DEF Good
  <2>2. Good \subseteq SUBSET S  BY DEF Good
  <2>. QED  BY <2>1, <2>2, SubsetInduction
<1>. QED  BY <1>2

=============================================================================
