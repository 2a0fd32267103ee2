------------------------ MODULE Calculations_proofs ------------------------
(***************************************************************************)
(* Proofs about the three calculations.  For any number of assets and any  *)
(* cap the allocator's projection keeps the order of the weights it was    *)
(* given, needs no more rounds than there are weights, and ends with       *)
(* weights that are a whole and, on the stated conditions, within the cap. *)
(* For any window of rows and any equities that are not negative the one   *)
(* pass finds the worst drawdown, and the returns are those of neighbours. *)
(* And a symbol's GARCH model yields a volatility unless arch raises.      *)
(***************************************************************************)
EXTENDS Calculations, FiniteSetTheorems, WellFoundedInduction, TLAPS

-----------------------------------------------------------------------------
(* Induction and recursion over the subsets of a finite set.               *)

\* The order of the numbers, as the library's relation that is well founded.
LEMMA LessThan ==
  \E R : IsWellFoundedOn(R, Nat) /\ \A x, y \in Nat : <<y, x>> \in R <=> y < x
PROOF
<1>1. \A x, y \in Nat : <<y, x>> \in OpToRel(<, Nat) <=> y < x
  BY DEF OpToRel
<1> QED
  BY Zenon, NatLessThanWellFounded, <1>1

\* Every set of numbers that is not empty has a least one.
LEMMA Least ==
  ASSUME NEW T, T \subseteq Nat, T # {}
  PROVE  \E x \in T : \A y \in T : x <= y
PROOF
<1>1. PICK R : IsWellFoundedOn(R, Nat) /\ \A x, y \in Nat : <<y, x>> \in R <=> y < x
  BY LessThan
<1>2. PICK x \in T : \A y \in T : ~ (<<y, x>> \in R)
  BY <1>1, WFMin
<1>3. ASSUME NEW y \in T PROVE x <= y
  <2>1. x \in Nat /\ y \in Nat /\ ~(y < x)
    BY <1>1, <1>2
  <2> QED
    BY <2>1
<1> QED
  BY <1>3

\* Induction over the subsets of a finite set.
LEMMA OverSubsets ==
  ASSUME NEW S, IsFiniteSet(S), NEW T, {} \in T,
         \A s \in SUBSET S : s # {} /\ (\A x \in s : s \ {x} \in T) => s \in T
  PROVE  \A s \in SUBSET S : s \in T
PROOF
<1> DEFINE Bad == { s \in SUBSET S : s \notin T }
<1> DEFINE Sizes == { n \in Nat : \E s \in Bad : Cardinality(s) = n }
<1>1. \A s \in SUBSET S : IsFiniteSet(s) /\ Cardinality(s) \in Nat
  BY FS_Subset, FS_CardinalityType
<1>2. ASSUME Bad # {} PROVE FALSE
  <2>1. Sizes # {}
    BY <1>1, <1>2
  <2>2. PICK n \in Sizes : \A m \in Sizes : n <= m
    BY <2>1, Least
  <2>3. PICK s \in Bad : Cardinality(s) = n
    BY <2>2
  <2>4. s # {}
    BY <2>3
  <2>5. PICK x \in s : s \ {x} \notin T
    BY <2>3, <2>4
  <2>6. s \ {x} \in SUBSET S /\ s \ {x} \notin T
    BY <2>3, <2>5
  <2>7. Cardinality(s \ {x}) = n - 1
    BY <1>1, <2>3, <2>5, FS_RemoveElement
  <2>8. n - 1 \in Sizes
    BY <1>1, <2>6, <2>7
  <2> QED
    BY <2>2, <2>8
<1> QED
  BY <1>2

\* c chooses an element of every set.
Chooses(c, S) == \A s \in SUBSET S : s # {} => c[s] \in s

\* g is the function that takes the step h with the element chosen, down to the empty set.
Recursion(S, c, base, h, g) ==
  \A s \in SUBSET S : g[s] = IF s = {} THEN base ELSE h[<< c[s], g[s \ {c[s]}] >>]

\* A recursive definition over the subsets of a finite set defines a function.
LEMMA RecursionExists ==
  ASSUME NEW S, IsFiniteSet(S), NEW c, Chooses(c, S),
         NEW R, NEW base \in R, NEW h \in [S \X R -> R]
  PROVE  \E g \in [SUBSET S -> R] : Recursion(S, c, base, h, g)
PROOF
<1> USE DEF Chooses, Recursion
<1> DEFINE Good(g, s) == g[s] = IF s = {} THEN base ELSE h[<< c[s], g[s \ {c[s]}] >>]
<1> DEFINE Level(n) == \E g \in [SUBSET S -> R] :
                         \A s \in SUBSET S : Cardinality(s) <= n => Good(g, s)
<1>1. \A s \in SUBSET S : IsFiniteSet(s) /\ Cardinality(s) \in Nat
  BY FS_Subset, FS_CardinalityType
<1>2. Level(0)
  <2> DEFINE g == [s \in SUBSET S |-> base]
  <2>1. \A s \in SUBSET S : Cardinality(s) <= 0 => s = {}
    BY <1>1, FS_EmptySet
  <2>2. g \in [SUBSET S -> R]
    OBVIOUS
  <2>3. \A s \in SUBSET S : Cardinality(s) <= 0 => Good(g, s)
    BY <2>1
  <2> QED
    BY <2>2, <2>3
<1>3. ASSUME NEW n \in Nat, Level(n) PROVE Level(n + 1)
  <2>1. PICK g \in [SUBSET S -> R] : \A s \in SUBSET S : Cardinality(s) <= n => Good(g, s)
    BY <1>3
  <2> DEFINE k == [s \in SUBSET S |-> IF s = {} THEN base ELSE h[<< c[s], g[s \ {c[s]}] >>]]
  <2>2. k \in [SUBSET S -> R]
    <3>1. ASSUME NEW s \in SUBSET S, s # {} PROVE h[<< c[s], g[s \ {c[s]}] >>] \in R
      <4>1. c[s] \in S /\ s \ {c[s]} \in SUBSET S
        BY <3>1
      <4> QED
        BY <4>1
    <3> QED
      BY <3>1
  <2>3. ASSUME NEW s \in SUBSET S, Cardinality(s) <= n + 1 PROVE Good(k, s)
    <3>1. CASE s = {}
      BY <3>1
    <3>2. CASE s # {}
      <4>1. c[s] \in s /\ s \ {c[s]} \in SUBSET S
        BY <3>2
      <4>2. Cardinality(s \ {c[s]}) <= n
        BY <1>1, <2>3, <4>1, FS_RemoveElement
      <4>3. k[s \ {c[s]}] = g[s \ {c[s]}]
        BY <2>1, <4>1, <4>2
      <4> QED
        BY <3>2, <4>3
    <3> QED
      BY <3>1, <3>2
  <2> HIDE DEF k
  <2> QED
    BY <2>2, <2>3
<1> HIDE DEF Level
<1>4. Level(Cardinality(S))
  <2> DEFINE Bad == { n \in Nat : ~ Level(n) }
  <2>1. ASSUME Bad # {} PROVE FALSE
    <3>1. PICK n \in Bad : \A m \in Bad : n <= m
      BY <2>1, Least
    <3>2. n # 0 /\ n \in Nat
      BY <1>2, <3>1
    <3>3. n - 1 \in Nat /\ n - 1 \notin Bad
      BY <3>1, <3>2
    <3>4. Level(n - 1 + 1)
      BY <1>3, <3>3
    <3> QED
      BY <3>1, <3>2, <3>4
  <2> QED
    BY <1>1, <2>1
<1>5. \A s \in SUBSET S : Cardinality(s) <= Cardinality(S)
  BY FS_Subset
<1> QED
  BY <1>4, <1>5 DEF Level

-----------------------------------------------------------------------------
(* Sums over the assets.                                                   *)

\* g[s] is the sum of f over s, taken in the order in which c chooses.
Sums(c, f, g) ==
  /\ g \in [SUBSET Assets -> Int]
  /\ g[{}] = 0
  /\ \A s \in SUBSET Assets : s # {} => g[s] = f[c[s]] + g[s \ {c[s]}]

Some(s) == CHOOSE x \in s : TRUE
chosen == [s \in SUBSET Assets |-> Some(s)]

\* Total is such a sum, in the same order whatever is summed up.
LEMMA TotalSums ==
  /\ Chooses(chosen, Assets)
  /\ \A f \in [Assets -> Int] : \E g : Sums(chosen, f, g) /\ Total(f) = g[Assets]
PROOF
<1>1. IsFiniteSet(Assets)
  BY AllocatorAssumption
<1>2. \A s : s # {} => Some(s) \in s
  BY DEF Some
<1>3. Chooses(chosen, Assets)
  BY <1>2 DEF chosen, Chooses
<1>4. \A s \in SUBSET Assets : chosen[s] = Some(s)
  BY DEF chosen
<1>5. ASSUME NEW f \in [Assets -> Int]
      PROVE  \E g : Sums(chosen, f, g) /\ Total(f) = g[Assets]
  <2> DEFINE Eq(g) == g = [s \in SUBSET Assets |->
                             IF s = {} THEN 0 ELSE f[Some(s)] + g[s \ {Some(s)}]]
  <2>1. \E g : Eq(g)
    <3> DEFINE h == [p \in Assets \X Int |-> f[p[1]] + p[2]]
    <3>1. 0 \in Int
      OBVIOUS
    <3>2. h \in [Assets \X Int -> Int]
      OBVIOUS
    <3>3. \A x \in Assets, y \in Int : h[<< x, y >>] = f[x] + y
      OBVIOUS
    <3> HIDE DEF h
    <3>4. PICK g \in [SUBSET Assets -> Int] : Recursion(Assets, chosen, 0, h, g)
      BY Zenon, <1>1, <1>3, <3>1, <3>2, RecursionExists
    <3>5. ASSUME NEW s \in SUBSET Assets
          PROVE  g[s] = IF s = {} THEN 0 ELSE f[Some(s)] + g[s \ {Some(s)}]
      BY <1>2, <1>4, <3>3, <3>4 DEF Recursion
    <3>6. g = [s \in SUBSET Assets |-> g[s]]
      BY <3>4
    <3> QED
      BY <3>5, <3>6
  <2>2. Total(f) = (CHOOSE g : Eq(g))[Assets]
    BY DEF Total, FoldFunctionOnSet, MapThenFoldSet, Some
  <2> DEFINE g == CHOOSE gg : Eq(gg)
  <2>3. Eq(g) /\ Total(f) = g[Assets]
    BY Zenon, <2>1, <2>2
  <2> HIDE DEF g
  <2>4. ASSUME NEW s \in SUBSET Assets, s # {}
        PROVE  Some(s) \in s /\ g[s] = f[Some(s)] + g[s \ {Some(s)}]
    BY <1>2, <2>3, <2>4
  <2>5. g[{}] = 0 /\ DOMAIN g = SUBSET Assets
    BY <2>3
  <2> DEFINE T == { s \in SUBSET Assets : g[s] \in Int }
  <2>6. ASSUME NEW s \in SUBSET Assets, s # {}, \A x \in s : s \ {x} \in T
        PROVE  s \in T
    <3>1. Some(s) \in s /\ g[s] = f[Some(s)] + g[s \ {Some(s)}]
      BY <2>4, <2>6
    <3>2. g[s \ {Some(s)}] \in Int /\ f[Some(s)] \in Int
      BY <2>6, <3>1
    <3> QED
      BY <3>1, <3>2
  <2>7. {} \in T
    BY <2>5
  <2> HIDE DEF T
  <2>8. \A s \in SUBSET Assets : s \in T
    BY <1>1, <2>6, <2>7, OverSubsets
  <2>9. g = [s \in SUBSET Assets |-> g[s]]
    BY <2>3
  <2>10. g \in [SUBSET Assets -> Int]
    BY <2>8, <2>9 DEF T
  <2>11. Sums(chosen, f, g)
    BY <1>4, <2>4, <2>5, <2>10 DEF Sums
  <2> QED
    BY <2>3, <2>11
<1> QED
  BY <1>3, <1>5

\* The assets, and every set of some of them, can be counted.
LEMMA AssetsFinite ==
  /\ IsFiniteSet(Assets)
  /\ \A s \in SUBSET Assets : IsFiniteSet(s) /\ Cardinality(s) \in Nat
                              /\ Cardinality(s) <= Cardinality(Assets)
  BY AllocatorAssumption, FS_Subset, FS_CardinalityType

\* Integers add up to an integer.
LEMMA TotalType ==
  ASSUME NEW f \in [Assets -> Int]
  PROVE  Total(f) \in Int
  BY TotalSums DEF Sums

\* Products distribute over sums.
LEMMA ProductAdds ==
  ASSUME NEW x \in Int, NEW y \in Int, NEW k \in Int
  PROVE  (x + y) * k = x * k + y * k
  OBVIOUS

\* A sum is linear.
LEMMA TotalLinear ==
  ASSUME NEW f \in [Assets -> Int], NEW e \in [Assets -> Int], NEW k \in Int, NEW l \in Int
  PROVE  Total([a \in Assets |-> f[a] * k + e[a] * l]) = Total(f) * k + Total(e) * l
PROOF
<1> DEFINE u == [a \in Assets |-> f[a] * k + e[a] * l]
<1>1. u \in [Assets -> Int] /\ \A a \in Assets : u[a] = f[a] * k + e[a] * l
  OBVIOUS
<1> HIDE DEF u
<1>2. PICK g : Sums(chosen, f, g) /\ Total(f) = g[Assets]
  BY TotalSums
<1>3. PICK h : Sums(chosen, e, h) /\ Total(e) = h[Assets]
  BY TotalSums
<1>4. PICK w : Sums(chosen, u, w) /\ Total(u) = w[Assets]
  BY <1>1, TotalSums
<1> DEFINE T == { s \in SUBSET Assets : w[s] = g[s] * k + h[s] * l }
<1>5. {} \in T
  BY <1>2, <1>3, <1>4 DEF Sums
<1>6. ASSUME NEW s \in SUBSET Assets, s # {}, \A x \in s : s \ {x} \in T
      PROVE  s \in T
  <2> DEFINE x == chosen[s]
  <2>1. x \in s /\ x \in Assets /\ s \ {x} \in SUBSET Assets
    BY <1>6, TotalSums DEF Chooses
  <2> HIDE DEF x
  <2> DEFINE r == s \ {x}
  <2>2. w[r] = g[r] * k + h[r] * l
    BY <1>6, <2>1
  <2>3. w[s] = u[x] + w[r] /\ g[s] = f[x] + g[r] /\ h[s] = e[x] + h[r]
    BY <1>2, <1>3, <1>4, <1>6 DEF Sums, x
  <2>4. f[x] \in Int /\ e[x] \in Int /\ g[r] \in Int /\ h[r] \in Int
    BY <1>2, <1>3, <2>1 DEF Sums
  <2>5. u[x] = f[x] * k + e[x] * l
    BY <1>1, <2>1
  <2> HIDE DEF r
  <2>6. g[s] * k = f[x] * k + g[r] * k
    BY <2>3, <2>4, ProductAdds
  <2>7. h[s] * l = e[x] * l + h[r] * l
    BY <2>3, <2>4, ProductAdds
  <2>8. w[s] = g[s] * k + h[s] * l
    <3>1. f[x] * k \in Int /\ g[r] * k \in Int /\ e[x] * l \in Int /\ h[r] * l \in Int
      BY <2>4
    <3> QED
      BY <2>2, <2>3, <2>5, <2>6, <2>7, <3>1
  <2> QED
    BY <2>8
<1> HIDE DEF T
<1>7. \A s \in SUBSET Assets : s \in T
  BY <1>5, <1>6, AssetsFinite, OverSubsets
<1>8. w[Assets] = g[Assets] * k + h[Assets] * l
  BY <1>7 DEF T
<1> QED
  BY <1>2, <1>3, <1>4, <1>8 DEF u

\* 1 on F and 0 elsewhere.
On(F) == [a \in Assets |-> IF a \in F THEN 1 ELSE 0]

\* Its sum counts the members of F.
LEMMA TotalCounts ==
  ASSUME NEW F \in SUBSET Assets
  PROVE  On(F) \in [Assets -> Int] /\ Total(On(F)) = Cardinality(F)
PROOF
<1>1. On(F) \in [Assets -> Int] /\ \A a \in Assets : On(F)[a] = IF a \in F THEN 1 ELSE 0
  BY DEF On
<1>2. PICK g : Sums(chosen, On(F), g) /\ Total(On(F)) = g[Assets]
  BY <1>1, TotalSums
<1> DEFINE T == { s \in SUBSET Assets : g[s] = Cardinality(s \cap F) }
<1>3. {} \in T
  BY <1>2, FS_EmptySet DEF Sums
<1>4. ASSUME NEW s \in SUBSET Assets, s # {}, \A x \in s : s \ {x} \in T
      PROVE  s \in T
  <2> DEFINE x == chosen[s]
  <2>1. x \in s /\ x \in Assets
    BY <1>4, TotalSums DEF Chooses
  <2>2. g[s] = On(F)[x] + g[s \ {x}]
    BY <1>2, <1>4 DEF Sums
  <2> HIDE DEF x
  <2>3. g[s \ {x}] = Cardinality((s \ {x}) \cap F)
    BY <1>4, <2>1
  <2>4. IsFiniteSet(s \cap F) /\ Cardinality(s \cap F) \in Nat
    BY AssetsFinite
  <2>5. CASE x \in F
    <3>1. (s \ {x}) \cap F = (s \cap F) \ {x} /\ x \in s \cap F
      BY <2>1, <2>5
    <3>2. Cardinality((s \cap F) \ {x}) = Cardinality(s \cap F) - 1
      BY <2>4, <3>1, FS_RemoveElement
    <3>3. On(F)[x] = 1
      BY <1>1, <2>1, <2>5
    <3>4. g[s \ {x}] = Cardinality(s \cap F) - 1
      BY <2>3, <3>1, <3>2
    <3>5. g[s] = Cardinality(s \cap F)
      BY <2>2, <2>4, <3>3, <3>4
    <3> QED
      BY <3>5
  <2>6. CASE x \notin F
    <3>1. (s \ {x}) \cap F = s \cap F
      BY <2>6
    <3> QED
      BY <1>1, <2>1, <2>2, <2>3, <2>4, <2>6, <3>1
  <2> QED
    BY <2>5, <2>6
<1> HIDE DEF T
<1>5. \A s \in SUBSET Assets : s \in T
  BY <1>3, <1>4, AssetsFinite, OverSubsets
<1>6. g[Assets] = Cardinality(Assets \cap F)
  BY <1>5 DEF T
<1>7. Assets \cap F = F
  OBVIOUS
<1> QED
  BY <1>1, <1>2, <1>6, <1>7

\* It is monotone.
LEMMA TotalMonotone ==
  ASSUME NEW f \in [Assets -> Int], NEW e \in [Assets -> Int], \A a \in Assets : f[a] <= e[a]
  PROVE  Total(f) <= Total(e)
PROOF
<1>1. PICK g : Sums(chosen, f, g) /\ Total(f) = g[Assets]
  BY TotalSums
<1>2. PICK h : Sums(chosen, e, h) /\ Total(e) = h[Assets]
  BY TotalSums
<1> DEFINE T == { s \in SUBSET Assets : g[s] <= h[s] }
<1>3. {} \in T
  BY <1>1, <1>2 DEF Sums
<1>4. ASSUME NEW s \in SUBSET Assets, s # {}, \A x \in s : s \ {x} \in T
      PROVE  s \in T
  <2> DEFINE x == chosen[s]
  <2>1. x \in s /\ x \in Assets
    BY <1>4, TotalSums DEF Chooses
  <2>2. g[s] = f[x] + g[s \ {x}] /\ h[s] = e[x] + h[s \ {x}]
    BY <1>1, <1>2, <1>4 DEF Sums
  <2> HIDE DEF x
  <2>3. g[s \ {x}] <= h[s \ {x}]
    BY <1>4, <2>1
  <2>4. g[s \ {x}] \in Int /\ h[s \ {x}] \in Int
    BY <1>1, <1>2 DEF Sums
  <2> QED
    BY <2>1, <2>2, <2>3, <2>4
<1> HIDE DEF T
<1>5. \A s \in SUBSET Assets : s \in T
  BY <1>3, <1>4, AssetsFinite, OverSubsets
<1> QED
  BY <1>1, <1>2, <1>5 DEF T

-----------------------------------------------------------------------------
(* Allocator: order.                                                       *)

Ordered == \A a, b \in Assets : target[a] <= target[b] => v[a] <= v[b]

\* While weights are spread, all of them lie within their bounds: the one fact about
\* a weight that is not free is that it lies at a bound.
OInv ==
  /\ start \in [Assets -> Int]
  /\ stage = "spread" =>
       /\ target \in [Assets -> Int]
       /\ v \in [Assets -> 0 .. Cap]
       /\ Ordered

\* Clipping keeps order and ends within the bounds.
LEMMA ClipKeepsOrder ==
  ASSUME NEW x \in Int, NEW y \in Int, x <= y
  PROVE  /\ Clip(x) <= Clip(y)
         /\ Clip(x) \in 0 .. Cap
  BY AllocatorAssumption DEF Clip

\* What _project_weights starts from has the order of its argument.
LEMMA ProjectOrders ==
  ASSUME NEW from, NEW f \in [Assets -> Int], Project(from, f)
  PROVE  /\ target' \in [Assets -> Int]
         /\ v' \in [Assets -> 0 .. Cap]
         /\ Ordered'
PROOF
<1>1. target' = f /\ v' = [a \in Assets |-> Clip(f[a])]
  BY DEF Project
<1>2. \A a \in Assets : f[a] \in Int
  OBVIOUS
<1>3. v' \in [Assets -> 0 .. Cap]
  BY <1>1, <1>2, ClipKeepsOrder
<1>4. ASSUME NEW a \in Assets, NEW b \in Assets, f[a] <= f[b]
      PROVE  v'[a] <= v'[b]
  BY <1>1, <1>2, <1>4, ClipKeepsOrder
<1> QED
  BY <1>1, <1>3, <1>4 DEF Ordered

\* One round of spreading keeps the order: free weights get the same, and those at a
\* bound cannot be passed.
LEMMA SpreadOrders ==
  ASSUME target \in [Assets -> Int], v \in [Assets -> 0 .. Cap], Ordered, Spread
  PROVE  v' \in [Assets -> 0 .. Cap] /\ Ordered'
PROOF
<1>1. PICK d \in Amounts :
        v' = [a \in Assets |-> IF a \in Free(v) THEN Refilled(v[a], d) ELSE v[a]]
  BY DEF Spread
<1>2. target' = target
  BY DEF Spread
<1>3. d \in Int /\ Cap \in Int
  BY AllocatorAssumption DEF Amounts
<1>4. \A a \in Assets : v[a] \in Int /\ v[a] >= 0 /\ v[a] <= Cap
  BY <1>3
<1>5. \A a \in Assets : v[a] + d \in Int /\ Clip(v[a] + d) \in 0 .. Cap
  BY <1>3, <1>4, ClipKeepsOrder
<1>6. v' \in [Assets -> 0 .. Cap]
  BY <1>1, <1>5 DEF Refilled
<1>7. ASSUME NEW a \in Assets, NEW b \in Assets, target[a] <= target[b]
      PROVE  v'[a] <= v'[b]
  <2>1. v[a] <= v[b]
    BY <1>7 DEF Ordered
  <2>2. CASE a \in Free(v) /\ b \in Free(v)
    BY <1>1, <1>3, <1>4, <2>1, <2>2, ClipKeepsOrder DEF Refilled
  <2>3. CASE a \in Free(v) /\ b \notin Free(v)
    <3>1. v[b] = Cap
      BY <1>3, <1>4, <2>1, <2>3 DEF Free
    <3> QED
      BY <1>1, <1>3, <1>5, <2>3, <3>1 DEF Refilled
  <2>4. CASE a \notin Free(v) /\ b \in Free(v)
    <3>1. v[a] = 0
      BY <1>3, <1>4, <2>1, <2>4 DEF Free
    <3> QED
      BY <1>1, <1>5, <2>4, <3>1 DEF Refilled
  <2>5. CASE a \notin Free(v) /\ b \notin Free(v)
    BY <1>1, <2>1, <2>5
  <2> QED
    BY <2>2, <2>3, <2>4, <2>5
<1> QED
  BY <1>2, <1>6, <1>7 DEF Ordered

\* An ascent starts in order.
LEMMA OInvInit == AInit => OInv
  BY DEF AInit, OInv, Simplex, Grid

\* Every step of the allocator keeps the order.
LEMMA OInvStep == OInv /\ [ANext]_avars => OInv'
PROOF
<1> SUFFICES ASSUME OInv, [ANext]_avars PROVE OInv'
  OBVIOUS
<1> USE DEF OInv
<1>1. CASE Ascend
  <2>1. PICK m \in Moves : Project("ascent", [a \in Assets |-> start[a] + m[a]])
    BY <1>1 DEF Ascend
  <2>2. [a \in Assets |-> start[a] + m[a]] \in [Assets -> Int]
    BY <2>1 DEF Moves, Grid
  <2> QED
    BY <1>1, <2>1, <2>2, ProjectOrders DEF Ascend
<1>2. CASE Diverge
  BY <1>2 DEF Diverge
<1>3. CASE Spread
  <2>1. stage = "spread" /\ UNCHANGED << stage, start, target >>
    BY <1>3 DEF Spread
  <2> QED
    BY <1>3, <2>1, SpreadOrders
<1>4. CASE Return
  BY <1>4 DEF Return
<1>5. CASE InverseVol
  <2>1. PICK f \in Simplex : Project("inverse", f)
    BY <1>5 DEF InverseVol
  <2>2. f \in [Assets -> Int]
    BY <2>1 DEF Simplex, Grid
  <2>3. start' \in [Assets -> Int]
    BY <1>5 DEF InverseVol, Zeros
  <2> QED
    BY <2>1, <2>2, <2>3, ProjectOrders
<1>6. CASE Combine
  BY <1>6 DEF Combine
<1>7. CASE NextAscent
  BY <1>7 DEF NextAscent, Simplex, Grid
<1>8. CASE UNCHANGED avars
  BY <1>8 DEF avars, Ordered
<1> QED
  BY <1>1, <1>2, <1>3, <1>4, <1>5, <1>6, <1>7, <1>8 DEF ANext

-----------------------------------------------------------------------------
(* Allocator: rounds, and what a projection returns.                       *)

Bounded == v \in [Assets -> 0 .. Cap]

\* One round: d more for every free weight, within the bounds.
LEMMA SpreadStep ==
  ASSUME Bounded, Spread
  PROVE  /\ Total(v) \in Int /\ Total(v) # Unit
         /\ Cardinality(Free(v)) \in Nat /\ Cardinality(Free(v)) > 0
         /\ \E d \in Int :
              /\ d * Cardinality(Free(v)) = Unit - Total(v)
              /\ v' = [a \in Assets |-> IF a \in Free(v) THEN Clip(v[a] + d) ELSE v[a]]
PROOF
<1>1. v \in [Assets -> Int]
  BY AllocatorAssumption DEF Bounded
<1>2. Total(v) \in Int
  BY <1>1, TotalType
<1>3. Free(v) \in SUBSET Assets /\ Free(v) # {} /\ Total(v) # Unit
  BY DEF Free, Spread
<1>4. Cardinality(Free(v)) \in Nat /\ Cardinality(Free(v)) # 0
  BY <1>3, AssetsFinite, FS_EmptySet
<1>5. PICK d \in Amounts :
        /\ d * Cardinality(Free(v)) = Unit - Total(v)
        /\ v' = [a \in Assets |-> IF a \in Free(v) THEN Refilled(v[a], d) ELSE v[a]]
  BY DEF Spread
<1>6. d \in Int
  BY DEF Amounts
<1> QED
  BY <1>2, <1>3, <1>4, <1>5, <1>6 DEF Refilled

\* What the weights add up to when every free one has got d.
LEMMA TotalAfter ==
  ASSUME Bounded, NEW d \in Int
  PROVE  LET u == [a \in Assets |-> IF a \in Free(v) THEN v[a] + d ELSE v[a]]
         IN  /\ u \in [Assets -> Int]
             /\ Total(u) = Total(v) + d * Cardinality(Free(v))
PROOF
<1> DEFINE u == [a \in Assets |-> IF a \in Free(v) THEN v[a] + d ELSE v[a]]
<1> DEFINE F == Free(v)
<1>1. v \in [Assets -> Int] /\ F \in SUBSET Assets
  BY AllocatorAssumption DEF Bounded, Free
<1>2. On(F) \in [Assets -> Int] /\ Total(On(F)) = Cardinality(F)
  BY <1>1, TotalCounts
<1>3. u = [a \in Assets |-> v[a] * 1 + On(F)[a] * d]
  BY <1>1 DEF On
<1> HIDE DEF F
<1>4. Total([a \in Assets |-> v[a] * 1 + On(F)[a] * d]) = Total(v) * 1 + Total(On(F)) * d
  BY <1>1, <1>2, TotalLinear
<1>5. Total(v) \in Int /\ Cardinality(F) \in Int
  BY <1>1, TotalType, AssetsFinite
<1>6. Total(v) * 1 + Cardinality(F) * d = Total(v) + d * Cardinality(F)
  BY <1>5
<1>7. u \in [Assets -> Int]
  BY <1>1
<1> HIDE DEF u
<1>8. Total(u) = Total(v) + d * Cardinality(F)
  BY <1>2, <1>3, <1>4, <1>6
<1> QED
  BY <1>7, <1>8 DEF u, F

\* A weight at a bound stays there, and a round that pins none is the last one.
LEMMA SpreadPins ==
  ASSUME Bounded, Spread
  PROVE  /\ Free(v') \subseteq Free(v)
         /\ Free(v') = Free(v) => Total(v') = Unit
PROOF
<1>1. PICK d \in Int :
        /\ d * Cardinality(Free(v)) = Unit - Total(v)
        /\ v' = [a \in Assets |-> IF a \in Free(v) THEN Clip(v[a] + d) ELSE v[a]]
  BY SpreadStep
<1>2. Free(v') \subseteq Free(v)
  BY <1>1 DEF Free
<1>3. ASSUME Free(v') = Free(v) PROVE Total(v') = Unit
  <2> DEFINE u == [a \in Assets |-> IF a \in Free(v) THEN v[a] + d ELSE v[a]]
  <2>1. Total(u) = Total(v) + d * Cardinality(Free(v))
    BY TotalAfter
  <2>2. ASSUME NEW a \in Free(v) PROVE Clip(v[a] + d) = v[a] + d
    <3>1. a \in Assets /\ Clip(v[a] + d) > 0 /\ Clip(v[a] + d) < Cap
      BY <1>1, <1>3, <2>2 DEF Free
    <3>2. v[a] + d \in Int /\ Cap \in Int
      BY <3>1, AllocatorAssumption DEF Bounded
    <3> QED
      BY <3>1, <3>2 DEF Clip
  <2>3. v' = u
    BY <1>1, <2>2
  <2>4. Total(v) \in Int /\ Unit \in Int /\ Cardinality(Free(v)) \in Int
    BY SpreadStep, AllocatorAssumption
  <2> HIDE DEF u
  <2>5. d * Cardinality(Free(v)) \in Int
    BY <2>4
  <2> QED
    BY <1>1, <2>1, <2>3, <2>4, <2>5
<1> QED
  BY <1>2, <1>3

\* A product with a positive number has the sign of the other factor.
LEMMA SignOf ==
  ASSUME NEW d \in Int, NEW n \in Nat, n > 0
  PROVE  /\ d * n > 0 => d > 0
         /\ d * n < 0 => d < 0
  OBVIOUS

\* Weights that miss something after a round missed something before it, and none
\* of them has become smaller.
LEMMA SpreadClimbs ==
  ASSUME Bounded, Spread, Bounded', Total(v') < Unit
  PROVE  Total(v) < Unit /\ \A a \in Assets : v[a] <= v'[a]
PROOF
<1> DEFINE n == Cardinality(Free(v))
<1>1. PICK d \in Int :
        /\ d * n = Unit - Total(v)
        /\ v' = [a \in Assets |-> IF a \in Free(v) THEN Clip(v[a] + d) ELSE v[a]]
  BY SpreadStep
<1>2. n \in Nat /\ n > 0 /\ Total(v) \in Int /\ Total(v) # Unit
  BY SpreadStep
<1>3. Unit \in Int /\ Cap \in Int /\ Cap > 0
  BY AllocatorAssumption
<1>4. \A a \in Assets : v[a] \in Int /\ v[a] >= 0 /\ v[a] <= Cap
  BY <1>3 DEF Bounded
<1>5. Total(v') \in Int
  <2>1. v' \in [Assets -> Int]
    BY <1>3 DEF Bounded
  <2> QED
    BY <2>1, TotalType
<1>6. CASE Total(v) < Unit
  <2>1. d > 0
    BY <1>1, <1>2, <1>3, <1>6, SignOf
  <2>2. ASSUME NEW a \in Assets PROVE v[a] <= v'[a]
    <3>1. Clip(v[a] + d) >= v[a]
      BY <1>3, <1>4, <2>1 DEF Clip
    <3> QED
      BY <1>1, <1>4, <3>1
  <2> QED
    BY <1>6, <2>2
<1>7. CASE Total(v) > Unit
  <2> DEFINE u == [a \in Assets |-> IF a \in Free(v) THEN v[a] + d ELSE v[a]]
  <2>1. d < 0
    BY <1>1, <1>2, <1>3, <1>7, SignOf
  <2>2. u \in [Assets -> Int] /\ Total(u) = Total(v) + d * n
    BY TotalAfter
  <2>3. \A a \in Assets : u[a] <= v'[a]
    <3>1. \A a \in Assets : Clip(v[a] + d) >= v[a] + d
      BY <1>3, <1>4, <2>1 DEF Clip
    <3> QED
      BY <1>1, <1>4, <3>1
  <2>4. v' \in [Assets -> Int]
    BY <1>3 DEF Bounded
  <2> HIDE DEF u
  <2>5. Total(u) <= Total(v')
    BY <2>2, <2>3, <2>4, TotalMonotone
  <2>6. d * n \in Int
    BY <1>2
  <2> HIDE DEF n
  <2> QED
    BY <1>1, <1>2, <1>3, <1>5, <2>2, <2>5, <2>6
<1> QED
  BY <1>2, <1>3, <1>6, <1>7

\* Integer division rounds down.
LEMMA Quotient ==
  ASSUME NEW x \in Nat, NEW y \in Nat \ {0}
  PROVE  /\ x \div y \in Int
         /\ (x \div y) * y <= x
         /\ x - (x \div y) * y < y
  OBVIOUS

\* The sum of a constant.
LEMMA TotalConstant ==
  ASSUME NEW k \in Int
  PROVE  /\ [a \in Assets |-> k] \in [Assets -> Int]
         /\ Total([a \in Assets |-> k]) = k * Cardinality(Assets)
PROOF
<1> DEFINE u == On(Assets)
<1>1. u \in [Assets -> Int] /\ Total(u) = Cardinality(Assets)
  BY TotalCounts
<1>2. [a \in Assets |-> u[a] * k + u[a] * 0] = [a \in Assets |-> k]
  BY DEF On
<1> HIDE DEF u
<1>3. Total([a \in Assets |-> u[a] * k + u[a] * 0]) = Total(u) * k + Total(u) * 0
  BY <1>1, TotalLinear
<1>4. Cardinality(Assets) \in Int
  BY AssetsFinite
<1> QED
  BY <1>1, <1>2, <1>3, <1>4

\* Weights of a whole, none of them negative.
Allocation(w) ==
  /\ w.share \in [Assets -> Int]
  /\ w.total \in Nat \ {0}
  /\ Invested(w)

\* Equal weights are an allocation, and within a cap that leaves room for a whole.
LEMMA EqualIsAllocation ==
  ASSUME Assets # {}
  PROVE  /\ Allocation(EqualWeights)
         /\ Cap * Cardinality(Assets) >= Unit => WithinCap(EqualWeights)
PROOF
<1> DEFINE n == Cardinality(Assets)
<1>1. n \in Nat /\ n # 0
  BY AssetsFinite, FS_EmptySet
<1>2. [a \in Assets |-> 1] \in [Assets -> Int] /\ Total([a \in Assets |-> 1]) = 1 * n
  <2>1. 1 \in Int
    OBVIOUS
  <2> QED
    BY Zenon, <2>1, TotalConstant
<1> HIDE DEF n
<1>3. EqualWeights.share = [a \in Assets |-> 1] /\ EqualWeights.total = n
  BY DEF EqualWeights, Shares, n
<1>4. Invested(EqualWeights)
  <2>1. \A a \in Assets : EqualWeights.share[a] >= 0
    BY <1>3
  <2>2. Total(EqualWeights.share) = n
    BY <1>1, <1>2, <1>3
  <2> QED
    BY <1>3, <2>1, <2>2 DEF Invested
<1>5. ASSUME Cap * n >= Unit PROVE WithinCap(EqualWeights)
  BY <1>3, <1>5, AllocatorAssumption DEF WithinCap
<1> QED
  BY <1>1, <1>2, <1>3, <1>4, <1>5 DEF Allocation, n

\* Normalisation makes an allocation of what the loop leaves, and keeps the cap if
\* nothing is missing, or all of it is and equal weights fit under the cap.
LEMMA Normalises ==
  ASSUME Bounded, Assets # {}
  PROVE  /\ Allocation(Normalised(v))
         /\ Total(v) >= Unit => WithinCap(Normalised(v))
         /\ Total(v) <= 0 /\ Cap * Cardinality(Assets) >= Unit => WithinCap(Normalised(v))
PROOF
<1>1. /\ v \in [Assets -> Int] /\ Total(v) \in Int
      /\ Unit \in Int /\ Cap \in Int /\ Unit > 0 /\ Cap > 0
  BY AllocatorAssumption, TotalType DEF Bounded
<1>2. CASE Total(v) <= 0
  <2>1. Normalised(v) = EqualWeights
    BY <1>2 DEF Normalised
  <2> QED
    BY <1>1, <1>2, <2>1, EqualIsAllocation
<1>3. CASE Total(v) > 0
  <2>1. Normalised(v) = Shares(v, Total(v))
    BY <1>1, <1>3 DEF Normalised
  <2>2. Normalised(v).share = v /\ Normalised(v).total = Total(v)
    BY <2>1 DEF Shares
  <2>3. \A a \in Assets : v[a] \in Int /\ v[a] >= 0 /\ v[a] <= Cap
    BY <1>1 DEF Bounded
  <2>4. Allocation(Normalised(v))
    BY <1>1, <1>3, <2>2, <2>3 DEF Allocation, Invested
  <2>5. ASSUME Total(v) >= Unit PROVE WithinCap(Normalised(v))
    <3>1. ASSUME NEW a \in Assets PROVE v[a] * Unit <= Cap * Total(v)
      BY <1>1, <2>3, <2>5
    <3> QED
      BY <2>2, <3>1 DEF WithinCap
  <2> QED
    BY <1>1, <1>3, <2>4, <2>5
<1> QED
  BY <1>1, <1>2, <1>3

\* With every weight at a bound, the total is that of the weights at the cap.
LEMMA AllPinned ==
  ASSUME Bounded, Free(v) = {}
  PROVE  LET M == { a \in Assets : v[a] = Cap }
         IN  Total(v) = Cap * Cardinality(M) /\ \A a \in Assets \ M : v[a] = 0
PROOF
<1> DEFINE M == { a \in Assets : v[a] = Cap }
<1>1. \A a \in Assets : v[a] \in Int /\ v[a] >= 0 /\ v[a] <= Cap /\ Cap \in Int
  BY AllocatorAssumption DEF Bounded
<1>2. \A a \in Assets \ M : v[a] = 0
  BY <1>1 DEF Free
<1>3. M \in SUBSET Assets /\ Cap \in Int
  BY AllocatorAssumption
<1>4. v = [a \in Assets |-> On(M)[a] * Cap + On(M)[a] * 0]
  BY <1>1, <1>2, <1>3 DEF On, Bounded
<1> HIDE DEF M
<1>5. On(M) \in [Assets -> Int] /\ Total(On(M)) = Cardinality(M)
  BY <1>3, TotalCounts
<1>6. Total([a \in Assets |-> On(M)[a] * Cap + On(M)[a] * 0])
        = Total(On(M)) * Cap + Total(On(M)) * 0
  BY <1>3, <1>5, TotalLinear
<1>7. Cardinality(M) \in Int
  BY <1>3, AssetsFinite
<1>8. Total(v) = Cap * Cardinality(M)
  BY <1>3, <1>4, <1>5, <1>6, <1>7
<1> QED
  BY <1>2, <1>8 DEF M

\* Products distribute, associate and commute.
LEMMA Distributes ==
  ASSUME NEW x \in Int, NEW y \in Int, NEW z \in Int
  PROVE  /\ x * (y + z) = x * y + x * z
         /\ x * (y - z) = x * y - x * z
         /\ x * (y * z) = (x * y) * z
         /\ x * y = y * x
  OBVIOUS

\* A factor that is not negative keeps order.
LEMMA ProductOrder ==
  ASSUME NEW k \in Nat, NEW x \in Int, NEW y \in Int, x <= y
  PROVE  k * x <= k * y
  OBVIOUS

\* With m of n weights at the cap, of which q fill most of a whole, and each of the
\* others at most y, all together are less than a whole.
LEMMA TooLittle ==
  ASSUME NEW m \in Nat, NEW q \in Int, NEW n \in Int, m <= q, n - q > 0,
         NEW r \in Nat, r < Cap
  PROVE  ((n - q) * Cap) * m + (r - 1) * (n - m) < (n - q) * (q * Cap + r)
PROOF
<1> DEFINE k == n - q
<1> DEFINE j == q - m
<1>1. k \in Nat /\ k > 0 /\ j \in Nat /\ Cap \in Nat /\ n - m = k + j /\ q = m + j
  BY AllocatorAssumption
<1> HIDE DEF k, j
<1>2. (r - 1) * (k + j) = (r - 1) * k + (r - 1) * j
  BY <1>1, Distributes
<1>3. k * (q * Cap + r) = k * (m * Cap) + k * (j * Cap) + k * r
  BY <1>1
<1>4. (r - 1) * j <= k * (j * Cap)
  <2>1. j * (r - 1) <= j * Cap
    BY <1>1, ProductOrder
  <2>2. 1 * (j * Cap) <= k * (j * Cap)
    BY <1>1
  <2> QED
    BY <1>1, <2>1, <2>2
<1>5. (r - 1) * k < k * r
  BY <1>1
<1>6. (k * Cap) * m = k * (m * Cap)
  BY <1>1
<1>7. (k * Cap) * m + (r - 1) * (k + j) < k * (q * Cap + r)
  <2>1. /\ (r - 1) * k \in Int /\ (r - 1) * j \in Int /\ k * r \in Int
        /\ k * (m * Cap) \in Int /\ k * (j * Cap) \in Int
    BY <1>1
  <2> QED
    BY <1>2, <1>3, <1>4, <1>5, <1>6, <2>1
<1> QED
  BY <1>1, <1>7 DEF k

\* Nobody has less than the projection started from.
Climbed == \A a \in Assets : Clip(target[a]) <= v[a]

\* After a small move weights do not run out of room before they are a whole.
LEMMA SmallMoveFills ==
  ASSUME Bounded, Free(v) = {}, start \in Simplex, target \in [Assets -> Int],
         Climbed, SmallMove, Assets # {}
  PROVE  Total(v) >= Unit
PROOF
<1> DEFINE M == { a \in Assets : v[a] = Cap }
           q == Unit \div Cap
           n == Cardinality(Assets)
           r == Unit - q * Cap
           m == Cardinality(M)
<1>1. Unit \in Nat /\ Unit > 0 /\ Cap \in Nat /\ Cap > 0
  BY AllocatorAssumption
<1>2. q \in Int /\ q * Cap <= Unit /\ r < Cap
  BY <1>1, Quotient
<1>3. n \in Nat /\ m \in Nat
  BY AssetsFinite
<1>4. Total(v) = Cap * m /\ \A a \in Assets \ M : v[a] = 0
  BY AllPinned
<1>5. /\ Cap * n >= Unit
      /\ \A a \in Assets : start[a] <= Cap /\ (n - q) * (start[a] - target[a]) < r
  BY DEF SmallMove
<1>6. start \in [Assets -> Int] /\ Total(start) = Unit /\ \A a \in Assets : start[a] >= 0
  BY DEF Simplex, Grid
<1>7. \A a \in Assets : a \in M => v[a] = Cap
  OBVIOUS
<1>8. M \in SUBSET Assets
  OBVIOUS
<1>9. On(M) \in [Assets -> Int] /\ Total(On(M)) = m
  BY <1>8, TotalCounts
<1>10. \A a \in Assets : On(M)[a] = IF a \in M THEN 1 ELSE 0
  BY DEF On
<1>11. On(Assets \ M) \in [Assets -> Int] /\ Total(On(Assets \ M)) = n - m
  <2>1. Cardinality(Assets \ M) = n - m
    <3>1. Assets \cap M = M
      BY <1>8
    <3> HIDE DEF M
    <3> QED
      BY <3>1, AllocatorAssumption, FS_Difference
  <2>2. Assets \ M \in SUBSET Assets
    OBVIOUS
  <2> QED
    BY Zenon, <2>1, <2>2, TotalCounts
<1>12. \A a \in Assets : On(Assets \ M)[a] = IF a \in M THEN 0 ELSE 1
  BY DEF On
<1> HIDE DEF M, q, n, r, m
<1>13. n - q \in Nat /\ n - q > 0 /\ r \in Nat
  <2>1. r \in Nat
    BY <1>1, <1>2 DEF r
  <2>2. PICK a : a \in Assets
    OBVIOUS
  <2>3. start[a] \in Int /\ target[a] \in Int
    BY <1>6, <2>2
  <2>4. ASSUME n <= q PROVE FALSE
    <3>1. Cap * n <= Cap * q /\ Cap * q = q * Cap
      BY <1>1, <1>2, <1>3, <2>4
    <3>2. Cap * n = Cap * q /\ r = 0
      BY <1>1, <1>2, <1>3, <1>5, <3>1 DEF r
    <3>3. n = q
      BY <1>1, <1>2, <1>3, <2>4, <3>2
    <3>4. (n - q) * (start[a] - target[a]) = 0
      BY <1>3, <2>3, <3>3
    <3> QED
      BY <1>5, <2>2, <3>2, <3>4
  <2> QED
    BY <1>2, <1>3, <2>1, <2>4
<1>14. ASSUME Total(v) < Unit PROVE m <= q
  <2>1. ASSUME q + 1 <= m PROVE FALSE
    <3>1. Cap * (q + 1) <= Cap * m
      BY <1>1, <1>2, <1>3, <2>1
    <3>2. Cap * (q + 1) = q * Cap + Cap
      BY <1>1, <1>2
    <3> QED
      BY <1>1, <1>2, <1>3, <1>4, <1>14, <3>1, <3>2 DEF r
  <2> QED
    BY <1>2, <1>3, <2>1
<1>15. ASSUME NEW a \in Assets
       PROVE  start[a] * (n - q) <= On(M)[a] * ((n - q) * Cap) + On(Assets \ M)[a] * (r - 1)
  <2>1. start[a] \in Int /\ target[a] \in Int /\ (n - q) * Cap \in Int
    BY <1>1, <1>2, <1>3, <1>6
  <2>2. CASE a \in M
    <3>1. (n - q) * start[a] <= (n - q) * Cap
      BY <1>1, <1>5, <1>13, <2>1, ProductOrder
    <3>2. start[a] * (n - q) = (n - q) * start[a]
      BY <1>13, <2>1
    <3>3. On(M)[a] = 1 /\ On(Assets \ M)[a] = 0
      BY <1>10, <1>12, <2>2
    <3> QED
      BY <1>13, <2>1, <3>1, <3>2, <3>3
  <2>3. CASE a \notin M
    <3>1. v[a] = 0 /\ Clip(target[a]) <= v[a]
      BY <1>4, <2>3 DEF Climbed
    <3>2. target[a] <= 0
      BY <1>1, <2>1, <3>1 DEF Clip
    <3>3. (n - q) * start[a] <= (n - q) * (start[a] - target[a])
      BY <1>13, <2>1, <3>2, ProductOrder
    <3>4. (n - q) * start[a] \in Int /\ (n - q) * (start[a] - target[a]) \in Int
      BY <1>13, <2>1
    <3>5. (n - q) * start[a] <= r - 1
      BY <1>5, <1>13, <3>3, <3>4
    <3>6. start[a] * (n - q) = (n - q) * start[a]
      BY <1>13, <2>1
    <3>7. On(M)[a] = 0 /\ On(Assets \ M)[a] = 1
      BY <1>10, <1>12, <2>3
    <3> QED
      BY <1>13, <2>1, <3>4, <3>5, <3>6, <3>7
  <2> QED
    BY <2>2, <2>3
<1>16. Unit * (n - q) <= m * ((n - q) * Cap) + (n - m) * (r - 1)
  <2> DEFINE x == n - q
             y == (n - q) * Cap
             z == r - 1
             f == [a \in Assets |-> start[a] * x + start[a] * 0]
             p == On(M)
             b == On(Assets \ M)
             e == [a \in Assets |-> p[a] * y + b[a] * z]
  <2>1. x \in Int /\ y \in Int /\ z \in Int
    BY <1>1, <1>13
  <2>9. p \in [Assets -> Int] /\ b \in [Assets -> Int] /\ Total(p) = m /\ Total(b) = n - m
    BY <1>9, <1>11
  <2>10. \A a \in Assets : start[a] * x <= p[a] * y + b[a] * z
    BY <1>15
  <2> HIDE DEF x, y, z, p, b
  <2>2. Total(f) = Unit * x + Unit * 0
    BY <1>6, <2>1, TotalLinear
  <2>3. Total(e) = m * y + (n - m) * z
    BY <2>1, <2>9, TotalLinear
  <2>4. f \in [Assets -> Int] /\ e \in [Assets -> Int]
    BY <1>6, <2>1, <2>9
  <2>5. \A a \in Assets : f[a] <= e[a]
    <3>1. ASSUME NEW a \in Assets PROVE f[a] <= e[a]
      <4>1. start[a] * x <= p[a] * y + b[a] * z
        BY <2>10
      <4>2. f[a] = start[a] * x
        BY <1>6, <2>1
      <4> QED
        BY <4>1, <4>2
    <3> QED
      BY <3>1
  <2> HIDE DEF f, e
  <2>6. Total(f) <= Total(e)
    BY <2>4, <2>5, TotalMonotone
  <2>7. Unit * x + Unit * 0 = Unit * x
    BY <1>1, <2>1
  <2>8. Unit * x <= m * y + (n - m) * z
    BY <2>2, <2>3, <2>6, <2>7
  <2> QED
    BY <2>8 DEF x, y, z
<1>17. ASSUME m <= q PROVE FALSE
  <2>1. ((n - q) * Cap) * m + (r - 1) * (n - m) < (n - q) * (q * Cap + r)
    <3>1. n \in Int
      BY <1>3
    <3> QED
      BY Zenon, <1>2, <1>3, <1>13, <1>17, <3>1, TooLittle
  <2>2. q * Cap + r = Unit
    BY <1>1, <1>2 DEF r
  <2>3. ((n - q) * Cap) * m = m * ((n - q) * Cap) /\ (r - 1) * (n - m) = (n - m) * (r - 1)
    BY <1>1, <1>3, <1>13
  <2>4. (n - q) * Unit = Unit * (n - q)
    BY <1>1, <1>13
  <2>5. m * ((n - q) * Cap) \in Int /\ (n - m) * (r - 1) \in Int /\ Unit * (n - q) \in Int
    BY <1>1, <1>3, <1>13
  <2> QED
    BY <1>16, <2>1, <2>2, <2>3, <2>4, <2>5
<1>18. Total(v) \in Int
  BY <1>1, <1>3, <1>4
<1> QED
  BY <1>1, <1>14, <1>17, <1>18

\* Nor after inverse volatilities that are all there.
LEMMA AllShareFills ==
  ASSUME Bounded, Free(v) = {}, target \in [Assets -> Int], Climbed, AllShare, Assets # {}
  PROVE  Total(v) >= Unit
PROOF
<1> DEFINE M == { a \in Assets : v[a] = Cap }
<1>1. Total(v) = Cap * Cardinality(M) /\ \A a \in Assets \ M : v[a] = 0
  BY AllPinned
<1>2. ASSUME NEW a \in Assets PROVE a \in M
  <2>1. target[a] \in Int /\ target[a] > 0 /\ Clip(target[a]) <= v[a]
    BY DEF AllShare, Climbed
  <2>2. v[a] # 0
    BY <2>1, AllocatorAssumption DEF Clip
  <2> QED
    BY <1>1, <2>2
<1>3. M = Assets
  BY <1>2
<1> QED
  BY <1>1, <1>3 DEF AllShare

\* Weights that miss something have not been lowered.
LowWeightsClimb == Total(v) < Unit => Climbed

\* There are as many free weights as rounds left, and one round more once nothing is
\* missing.
RoundsLeft ==
  /\ rounds \in Nat
  /\ rounds + Cardinality(Free(v)) <= Cardinality(Assets) + 1
  /\ Total(v) # Unit => rounds + Cardinality(Free(v)) <= Cardinality(Assets)

\* The results there are, at each stage, are allocations.
Results ==
  /\ stage = "spread" /\ source = "inverse" => Allocation(opt)
  /\ stage = "returned" => Allocation(opt)
  /\ stage = "returned" /\ source = "inverse" => Allocation(iv)

Control ==
  /\ stage \in {"ascend", "spread", "returned", "combined"}
  /\ source \in {"ascent", "inverse"}
  /\ stage = "ascend" => source = "ascent"
  /\ source = "ascent" => start \in Simplex

PInv ==
  /\ OInv
  /\ Assets # {}
  /\ Control
  /\ stage = "spread" => LowWeightsClimb /\ RoundsLeft
  /\ Results
  /\ Constrained

\* There is no weight of 1 without assets.
LEMMA SimplexNeedsAssets ==
  ASSUME NEW f \in Simplex
  PROVE  Assets # {}
PROOF
<1>1. ASSUME Assets = {} PROVE FALSE
  <2>1. Cardinality(Assets) = 0
    BY <1>1, FS_EmptySet
  <2>2. [a \in Assets |-> 0] = f
    BY <1>1 DEF Simplex
  <2>3. 0 \in Int
    OBVIOUS
  <2>4. Total([a \in Assets |-> 0]) = 0 * Cardinality(Assets)
    BY Zenon, <2>3, TotalConstant
  <2> QED
    BY <2>1, <2>2, <2>4, AllocatorAssumption DEF Simplex
<1> QED
  BY <1>1

\* A projection starts with nothing lowered and every round left.
LEMMA ProjectStarts ==
  ASSUME NEW from, NEW f \in [Assets -> Int], Project(from, f)
  PROVE  /\ stage' = "spread" /\ source' = from
         /\ LowWeightsClimb' /\ RoundsLeft'
PROOF
<1>1. target' = f /\ v' = [a \in Assets |-> Clip(f[a])] /\ rounds' = 0 /\ stage' = "spread"
      /\ source' = from
  BY DEF Project
<1>2. \A a \in Assets : Clip(f[a]) \in Int
  <2>1. ASSUME NEW a \in Assets PROVE Clip(f[a]) \in Int
    <3>1. f[a] \in Int
      OBVIOUS
    <3> QED
      BY <3>1, AllocatorAssumption DEF Clip
  <2> QED
    BY <2>1
<1>3. LowWeightsClimb'
  BY <1>1, <1>2 DEF LowWeightsClimb, Climbed
<1>4. Free(v') \in SUBSET Assets
  BY DEF Free
<1>5. Cardinality(Free(v')) \in Nat /\ Cardinality(Free(v')) <= Cardinality(Assets)
      /\ Cardinality(Assets) \in Nat
  BY <1>4, AssetsFinite
<1>6. RoundsLeft'
  BY <1>1, <1>5 DEF RoundsLeft
<1> QED
  BY <1>1, <1>3, <1>6

\* A round keeps both.
LEMMA SpreadKeeps ==
  ASSUME Bounded, Bounded', target \in [Assets -> Int], LowWeightsClimb, RoundsLeft, Spread
  PROVE  LowWeightsClimb' /\ RoundsLeft'
PROOF
<1>1. target' = target /\ rounds' = rounds + 1
  BY DEF Spread
<1>2. ASSUME Total(v') < Unit PROVE Climbed'
  <2>1. Climbed /\ \A a \in Assets : v[a] <= v'[a]
    BY <1>2, SpreadClimbs DEF LowWeightsClimb
  <2>2. ASSUME NEW a \in Assets PROVE Clip(target[a]) <= v'[a]
    <3>1. Clip(target[a]) <= v[a] /\ v[a] <= v'[a]
      BY <2>1 DEF Climbed
    <3>2. target[a] \in Int /\ v[a] \in Int /\ v'[a] \in Int
      BY AllocatorAssumption DEF Bounded
    <3>3. Clip(target[a]) \in Int
      BY <3>2, AllocatorAssumption DEF Clip
    <3> QED
      BY <3>1, <3>2, <3>3
  <2> QED
    BY <1>1, <2>2 DEF Climbed
<1>3. LowWeightsClimb'
  BY <1>2 DEF LowWeightsClimb
<1>4. Total(v) # Unit
  BY SpreadStep
<1>5. Free(v') \subseteq Free(v) /\ (Free(v') = Free(v) => Total(v') = Unit)
  BY SpreadPins
<1>6. Free(v) \in SUBSET Assets /\ Free(v') \in SUBSET Assets
  BY DEF Free
<1>7. IsFiniteSet(Free(v)) /\ Cardinality(Free(v)) \in Nat /\ Cardinality(Free(v')) \in Nat
      /\ Cardinality(Assets) \in Nat
  BY <1>6, AssetsFinite
<1>8. Cardinality(Free(v')) <= Cardinality(Free(v))
  BY <1>5, <1>7, FS_Subset
<1>9. Free(v') # Free(v) => Cardinality(Free(v')) < Cardinality(Free(v))
  BY <1>5, <1>7, FS_Subset
<1>10. RoundsLeft'
  BY <1>1, <1>4, <1>5, <1>7, <1>8, <1>9 DEF RoundsLeft
<1> QED
  BY <1>3, <1>10

\* What a projection returns.
LEMMA ReturnKeeps ==
  ASSUME OInv, stage = "spread", Assets # {}, LowWeightsClimb, Control,
         Total(v) = Unit \/ Free(v) = {}
  PROVE  /\ Allocation(Normalised(v))
         /\ source = "ascent" /\ SmallMove => WithinCap(Normalised(v))
         /\ AllShare => WithinCap(Normalised(v))
PROOF
<1>1. Bounded /\ target \in [Assets -> Int]
  BY DEF OInv, Bounded
<1>2. Total(v) \in Int /\ Unit \in Int
  <2>1. v \in [Assets -> Int]
    BY <1>1, AllocatorAssumption DEF Bounded
  <2> QED
    BY <2>1, TotalType, AllocatorAssumption
<1>3. ASSUME source = "ascent", SmallMove PROVE Total(v) >= Unit
  <2>1. CASE Total(v) = Unit
    BY <1>2, <2>1
  <2>2. CASE Free(v) = {} /\ Total(v) < Unit
    BY <1>1, <1>2, <1>3, <2>2, SmallMoveFills DEF LowWeightsClimb, Control
  <2> QED
    BY <1>2, <2>1, <2>2
<1>4. ASSUME AllShare PROVE Total(v) >= Unit
  <2>1. CASE Total(v) = Unit
    BY <1>2, <2>1
  <2>2. CASE Free(v) = {} /\ Total(v) < Unit
    BY <1>1, <1>2, <1>4, <2>2, AllShareFills DEF LowWeightsClimb
  <2> QED
    BY <1>2, <2>1, <2>2
<1> QED
  BY <1>1, <1>3, <1>4, Normalises

\* The mean of two allocations is one, and keeps a cap both keep.
LEMMA MeanOfTwo ==
  ASSUME NEW p, NEW q, Allocation(p), Allocation(q)
  PROVE  LET w == Shares(Mean(p, q), Total(Mean(p, q)))
         IN  /\ Invested(w)
             /\ WithinCap(p) /\ WithinCap(q) => WithinCap(w)
PROOF
<1> DEFINE f == p.share
           e == q.share
           s == p.total
           t == q.total
           u == Mean(p, q)
<1>1. f \in [Assets -> Int] /\ s \in Nat \ {0} /\ Total(f) = s /\ \A a \in Assets : f[a] >= 0
  BY DEF Allocation, Invested
<1>2. e \in [Assets -> Int] /\ t \in Nat \ {0} /\ Total(e) = t /\ \A a \in Assets : e[a] >= 0
  BY DEF Allocation, Invested
<1>3. u = [a \in Assets |-> f[a] * t + e[a] * s]
  BY DEF Mean
<1>4. WithinCap(p) => \A a \in Assets : f[a] * Unit <= Cap * s
  BY DEF WithinCap
<1>5. WithinCap(q) => \A a \in Assets : e[a] * Unit <= Cap * t
  BY DEF WithinCap
<1> HIDE DEF f, e, s, t, u
<1>6. Total([a \in Assets |-> f[a] * t + e[a] * s]) = Total(f) * t + Total(e) * s
  <2>1. ASSUME NEW k \in Int, NEW l \in Int
        PROVE  Total([a \in Assets |-> f[a] * k + e[a] * l]) = Total(f) * k + Total(e) * l
    BY <1>1, <1>2, TotalLinear
  <2>2. s \in Int /\ t \in Int
    BY <1>1, <1>2
  <2> QED
    BY Zenon, <2>1, <2>2
<1>7. Total(u) = s * t + t * s
  BY <1>1, <1>2, <1>3, <1>6
<1>8. \A a \in Assets : u[a] = f[a] * t + e[a] * s
  BY <1>3
<1>9. ASSUME NEW a \in Assets PROVE u[a] >= 0
  <2>1. f[a] \in Int /\ e[a] \in Int /\ f[a] >= 0 /\ e[a] >= 0
    BY <1>1, <1>2
  <2>2. f[a] * t >= 0 /\ e[a] * s >= 0 /\ f[a] * t \in Int /\ e[a] * s \in Int
    BY <1>1, <1>2, <2>1
  <2> QED
    BY <1>8, <2>2
<1>10. ASSUME WithinCap(p), WithinCap(q), NEW a \in Assets
       PROVE  u[a] * Unit <= Cap * Total(u)
  <2>1. f[a] \in Int /\ e[a] \in Int /\ Unit \in Int /\ Cap \in Int /\ s \in Nat /\ t \in Nat
    BY <1>1, <1>2, AllocatorAssumption
  <2>2. t * (f[a] * Unit) <= t * (Cap * s)
    BY <1>4, <1>10, <2>1, ProductOrder
  <2>3. s * (e[a] * Unit) <= s * (Cap * t)
    BY <1>5, <1>10, <2>1, ProductOrder
  <2>4. u[a] * Unit = t * (f[a] * Unit) + s * (e[a] * Unit)
    BY <1>8, <2>1
  <2>5. Cap * Total(u) = t * (Cap * s) + s * (Cap * t)
    BY <1>7, <2>1
  <2>6. t * (f[a] * Unit) \in Int /\ s * (e[a] * Unit) \in Int
        /\ t * (Cap * s) \in Int /\ s * (Cap * t) \in Int
    BY <2>1
  <2> QED
    BY <2>2, <2>3, <2>4, <2>5, <2>6
<1> DEFINE w == Shares(u, Total(u))
<1>11. w.share = u /\ w.total = Total(u)
  BY DEF Shares
<1> HIDE DEF w
<1>12. Invested(w)
  BY <1>9, <1>11 DEF Invested
<1>13. WithinCap(p) /\ WithinCap(q) => WithinCap(w)
  BY <1>10, <1>11 DEF WithinCap
<1> QED
  BY <1>12, <1>13 DEF w, u

\* An ascent starts with the invariant.
LEMMA PInvInit == AInit => PInv
PROOF
<1> SUFFICES ASSUME AInit PROVE PInv
  OBVIOUS
<1>1. OInv /\ Control /\ Results
  BY OInvInit DEF AInit, Control, Results
<1>2. Assets # {}
  BY SimplexNeedsAssets DEF AInit
<1>3. stage = "ascend"
  BY DEF AInit
<1> QED
  BY <1>1, <1>2, <1>3 DEF PInv, Constrained

\* Every step of the allocator keeps it.
LEMMA PInvStep == PInv /\ [ANext]_avars => PInv'
PROOF
<1> SUFFICES ASSUME PInv, [ANext]_avars PROVE PInv'
  OBVIOUS
<1> USE DEF PInv
<1>1. OInv' /\ Assets # {}
  BY OInvStep
<1>2. CASE Ascend
  <2>1. PICK m \in Moves : Project("ascent", [a \in Assets |-> start[a] + m[a]])
    BY <1>2 DEF Ascend
  <2>2. [a \in Assets |-> start[a] + m[a]] \in [Assets -> Int]
    BY <2>1 DEF Moves, Grid, OInv
  <2>3. stage' = "spread" /\ source' = "ascent" /\ LowWeightsClimb' /\ RoundsLeft'
    BY <2>1, <2>2, ProjectStarts
  <2>4. start' = start /\ source = "ascent"
    BY <1>2 DEF Ascend, Control
  <2> QED
    BY <1>1, <2>3, <2>4 DEF Control, Results, Constrained
<1>3. CASE Diverge
  <2>1. /\ stage' = "returned" /\ source' = source /\ source = "ascent"
        /\ start' = start /\ target' = target /\ opt' = EqualWeights
    BY <1>3 DEF Diverge, Control
  <2>2. Allocation(EqualWeights)
    BY EqualIsAllocation
  <2>3. SmallMove' => WithinCap(EqualWeights)
    BY EqualIsAllocation DEF SmallMove
  <2> HIDE DEF EqualWeights
  <2>4. Constrained'
    BY <2>1, <2>2, <2>3 DEF Constrained, Allocation
  <2> QED
    BY <1>1, <2>1, <2>2, <2>4 DEF Control, Results
<1>4. CASE Spread
  <2>1. stage = "spread" /\ UNCHANGED << stage, source, start, target, opt, iv, weights >>
    BY <1>4 DEF Spread
  <2>2. Bounded /\ Bounded' /\ target \in [Assets -> Int]
    BY <1>1, <2>1 DEF OInv, Bounded
  <2>3. LowWeightsClimb' /\ RoundsLeft'
    BY <1>4, <2>1, <2>2, SpreadKeeps
  <2> QED
    BY <1>1, <2>1, <2>3 DEF Control, Results, Constrained
<1>5. CASE Return
  <2>1. /\ stage = "spread" /\ stage' = "returned"
        /\ Total(v) = Unit \/ Free(v) = {}
        /\ UNCHANGED << source, start, target, v >>
    BY <1>5 DEF Return
  <2> DEFINE w == Normalised(v)
  <2>2. /\ Allocation(w)
        /\ source = "ascent" /\ SmallMove => WithinCap(w)
        /\ AllShare => WithinCap(w)
    BY <2>1, ReturnKeeps
  <2>3. (SmallMove' => SmallMove) /\ (AllShare' => AllShare)
    BY <2>1 DEF SmallMove, AllShare
  <2>4. CASE source = "ascent"
    <3>1. opt' = w
      BY <1>5, <2>4 DEF Return
    <3> HIDE DEF w
    <3>2. Constrained'
      BY <2>1, <2>2, <2>3, <2>4, <3>1 DEF Constrained, Allocation
    <3> QED
      BY <1>1, <2>1, <2>2, <2>4, <3>1, <3>2 DEF Control, Results
  <2>5. CASE source = "inverse"
    <3>1. iv' = w /\ opt' = opt /\ Allocation(opt)
      BY <1>5, <2>1, <2>5 DEF Return, Results
    <3> HIDE DEF w
    <3>2. Constrained'
      BY <2>1, <2>2, <2>3, <2>5, <3>1 DEF Constrained, Allocation
    <3> QED
      BY <1>1, <2>1, <2>2, <2>5, <3>1, <3>2 DEF Control, Results
  <2> QED
    BY <2>4, <2>5 DEF Control
<1>6. CASE InverseVol
  <2>1. PICK f \in Simplex : Project("inverse", f)
    BY <1>6 DEF InverseVol
  <2>2. f \in [Assets -> Int]
    BY <2>1 DEF Simplex, Grid
  <2>3. stage' = "spread" /\ source' = "inverse" /\ LowWeightsClimb' /\ RoundsLeft'
    BY <2>1, <2>2, ProjectStarts
  <2>4. stage = "returned" /\ opt' = opt
    BY <1>6 DEF InverseVol
  <2>5. Allocation(opt)
    BY <2>4 DEF Results
  <2> QED
    BY <1>1, <2>3, <2>4, <2>5 DEF Control, Results, Constrained
<1>7. CASE Combine
  <2>1. stage = "returned" /\ source = "inverse" /\ stage' = "combined"
        /\ UNCHANGED << source, start, opt, iv >>
    BY <1>7 DEF Combine
  <2>2. Allocation(opt) /\ Allocation(iv)
    BY <2>1 DEF Results
  <2> DEFINE w == Shares(Mean(opt, iv), Total(Mean(opt, iv)))
  <2>3. weights' = opt \/ weights' = w
    BY <1>7 DEF Combine
  <2>4. Invested(opt) /\ Invested(w) /\ (WithinCap(opt) /\ WithinCap(iv) => WithinCap(w))
    BY <2>2, MeanOfTwo DEF Allocation
  <2> HIDE DEF w
  <2>5. Invested(weights') /\ (WithinCap(opt) /\ WithinCap(iv) => WithinCap(weights'))
    BY <2>3, <2>4
  <2>6. Constrained'
    BY <2>1, <2>5 DEF Constrained
  <2> QED
    BY <1>1, <2>1, <2>6 DEF Control, Results
<1>8. CASE NextAscent
  BY <1>1, <1>8 DEF NextAscent, Control, Results, Constrained
<1>9. CASE UNCHANGED avars
  <2> USE <1>9 DEF avars
  <2>1. Control' /\ Results' /\ Constrained'
    BY DEF Control, Results, Constrained, SmallMove, AllShare
  <2>2. (LowWeightsClimb /\ RoundsLeft => LowWeightsClimb' /\ RoundsLeft')
    BY DEF LowWeightsClimb, Climbed, RoundsLeft
  <2> QED
    BY <1>1, <2>1, <2>2
<1> QED
  BY <1>2, <1>3, <1>4, <1>5, <1>6, <1>7, <1>8, <1>9 DEF ANext

-----------------------------------------------------------------------------
(* Risk metrics: the worst drawdown.                                       *)

\* Quotients, and that they compare as they should: products may be multiplied and
\* divided by a positive denominator.
Quotients == { q \in Int \X Int : q[2] > 0 }

\* A factor that is not negative keeps order.
LEMMA ProductMonotone ==
  ASSUME NEW x \in Int, NEW y \in Int, x <= y, NEW c \in Int, c >= 0
  PROVE  x * c <= y * c
PROOF
<1>1. (y - x) * c >= 0
  OBVIOUS
<1> QED
  BY <1>1

\* A positive factor can be cancelled.
LEMMA ProductCancels ==
  ASSUME NEW x \in Int, NEW y \in Int, NEW c \in Int, c > 0, x * c <= y * c
  PROVE  x <= y
PROOF
<1> SUFFICES ASSUME x > y PROVE FALSE
  OBVIOUS
<1>1. (x - y) * c > 0
  OBVIOUS
<1> QED
  BY <1>1

\* Not being smaller is transitive.
LEMMA NotLessTransitive ==
  ASSUME NEW p \in Quotients, NEW q \in Quotients, NEW r \in Quotients,
         ~ Less(p, q), ~ Less(q, r)
  PROVE  ~ Less(p, r)
PROOF
<1> DEFINE a == p[1]  b == p[2]  c == q[1]  d == q[2]  e == r[1]  f == r[2]
<1>1. /\ a \in Int /\ b \in Int /\ c \in Int /\ d \in Int /\ e \in Int /\ f \in Int
      /\ b > 0 /\ d > 0 /\ f > 0
  BY DEF Quotients
<1>2. c * b <= a * d /\ e * d <= c * f
  <2>1. a * d \in Int /\ c * b \in Int /\ c * f \in Int /\ e * d \in Int
    BY <1>1
  <2> QED
    BY <2>1 DEF Less
<1> HIDE DEF a, b, c, d, e, f
<1>3. (e * d) * b <= (c * f) * b
  BY <1>1, <1>2, ProductMonotone
<1>4. (c * b) * f <= (a * d) * f
  BY <1>1, <1>2, ProductMonotone
<1>5. (e * b) * d = (e * d) * b /\ (c * f) * b = (c * b) * f /\ (a * d) * f = (a * f) * d
  BY <1>1
<1>6. (e * b) * d <= (a * f) * d
  BY <1>1, <1>3, <1>4, <1>5
<1>7. e * b <= a * f
  BY <1>1, <1>6, ProductCancels
<1> QED
  BY <1>1, <1>7 DEF Less, a, b, e, f

\* From a higher peak the same equity is a drawdown that is not smaller.
LEMMA HigherPeak ==
  ASSUME NEW x \in Nat, NEW top \in Nat, x <= top, x > 0, NEW eq \in Nat
  PROVE  ~ Less(Drawdown(top, eq), Drawdown(x, eq))
PROOF
<1>1. x * eq <= top * eq
  BY ProductMonotone
<1>2. (top - eq) * x = top * x - eq * x /\ (x - eq) * top = top * x - top * eq
  OBVIOUS
<1>3. (x - eq) * top <= (top - eq) * x
  BY <1>1, <1>2
<1> QED
  BY <1>3 DEF Less, Drawdown

\* A drawdown's denominator is positive.
LEMMA DrawdownIsQuotient ==
  ASSUME NEW top \in Nat, top > 0, NEW eq \in Nat
  PROVE  Drawdown(top, eq) \in Quotients
  BY DEF Drawdown, Quotients

\* The rows read, whatever the request.
Rows ==
  /\ table \in Seq(Equities \cup {NULL})
  /\ series \in Seq(Nat)
  /\ phase = "read" => series # << >>

\* The loop's variables: the peak is the highest row passed, and one of them (or, before
\* the first round, the first).
Scan ==
  /\ i \in 1 .. Len(series) + 1
  /\ series # << >>
  /\ maxDrawdown \in Quotients
  /\ peak \in Nat
  /\ \A k \in 1 .. (i - 1) : series[k] <= peak
  /\ \E k \in 1 .. i : k <= Len(series) /\ peak = series[k] /\ (k < i \/ k = 1)

DInv == Rows /\ (phase = "scanning" => Scan /\ NoneWorse /\ Attained)

\* A first row exists.
LEMMA EmptyScan ==
  ASSUME NEW f \in Seq(Nat), f # << >>
  PROVE  f[1] \in Nat /\ Len(f) \in Nat /\ Len(f) >= 1
  OBVIOUS

\* Turning the rows round.
LEMMA ReverseOfRows ==
  ASSUME NEW f \in Seq(Nat), f # << >>
  PROVE  Reverse(f) \in Seq(Nat) /\ Reverse(f) # << >> /\ Len(Reverse(f)) = Len(f)
PROOF
<1>1. Len(f) \in Nat /\ Len(f) >= 1
  BY EmptyScan
<1>2. \A k \in 1 .. Len(f) : f[(Len(f) - k) + 1] \in Nat
  BY <1>1
<1>3. Reverse(f) \in [1 .. Len(f) -> Nat]
  BY <1>2 DEF Reverse
<1>4. Reverse(f) \in Seq(Nat) /\ Len(Reverse(f)) = Len(f)
  BY <1>1, <1>3
<1> QED
  BY <1>1, <1>4

\* Another row is read.
LEMMA RowsRead ==
  ASSUME Rows, Read
  PROVE  Rows'
PROOF
<1>1. NextRow \in Equities \cup {NULL}
  <2>1. Len(table) \in Nat /\ Len(series) \in Nat /\ Len(series) < Len(table)
    BY DEF Rows, Read, Unread
  <2>2. Len(table) - Len(series) \in 1 .. Len(table)
    BY <2>1
  <2> QED
    BY <2>2 DEF Rows, NextRow
<1>2. ValueOrZero(NextRow) \in Nat
  BY <1>1, RiskAssumption DEF ValueOrZero
<1> QED
  BY <1>2 DEF Rows, Read

\* The loop's body takes the worst drawdown of one row fewer to that of one more.
LEMMA ScanKeeps ==
  ASSUME Rows, Scan, NoneWorse, Attained, ScanRow
  PROVE  Scan' /\ NoneWorse' /\ Attained'
PROOF
<1> DEFINE eq == series[i]
<1>1. /\ i \in Nat /\ i >= 1 /\ i <= Len(series) /\ Len(series) \in Nat
      /\ i' = i + 1 /\ series' = series
  BY DEF Rows, Scan, ScanRow
<1>2. \A k \in 1 .. Len(series) : series[k] \in Nat
  BY DEF Rows
<1>3. eq \in Nat /\ peak \in Nat /\ maxDrawdown \in Quotients
  BY <1>1, <1>2 DEF Scan
<1>4. peak' = (IF eq > peak THEN eq ELSE peak)
  BY DEF ScanRow
<1>5. peak' \in Nat /\ peak <= peak' /\ eq <= peak'
  BY <1>3, <1>4
<1>6. \A k \in 1 .. i : series[k] <= peak'
  <2>1. SUFFICES ASSUME NEW k \in 1 .. i PROVE series[k] <= peak'
    OBVIOUS
  <2>2. CASE k = i
    BY <1>5, <2>2
  <2>3. CASE k # i
    <3>1. k \in 1 .. (i - 1) /\ k \in 1 .. Len(series)
      BY <1>1, <2>3
    <3>2. series[k] <= peak /\ series[k] \in Nat
      BY <1>2, <3>1 DEF Scan
    <3> QED
      BY <1>3, <1>5, <3>2
  <2> QED
    BY <2>2, <2>3
<1>7. \E k \in 1 .. i : peak' = series[k]
  BY <1>1, <1>3, <1>4 DEF Scan
<1>8. maxDrawdown' = IF peak' > 0 /\ Less(maxDrawdown, Drawdown(peak', eq))
                     THEN Drawdown(peak', eq) ELSE maxDrawdown
  BY DEF ScanRow
<1>9. maxDrawdown' \in Quotients /\ ~ Less(maxDrawdown', maxDrawdown)
  <2>1. CASE peak' > 0 /\ Less(maxDrawdown, Drawdown(peak', eq))
    <3>1. Drawdown(peak', eq) \in Quotients
      BY <1>3, <1>5, <2>1, DrawdownIsQuotient
    <3> DEFINE p == maxDrawdown  q == Drawdown(peak', eq)
    <3>2. p[1] * q[2] \in Int /\ q[1] * p[2] \in Int
      BY <1>3, <3>1 DEF Quotients
    <3>3. ~ Less(q, p)
      BY <2>1, <3>2 DEF Less
    <3> QED
      BY <1>8, <2>1, <3>1, <3>3
  <2>2. CASE ~ (peak' > 0 /\ Less(maxDrawdown, Drawdown(peak', eq)))
    <3>1. maxDrawdown[1] * maxDrawdown[2] \in Int
      BY <1>3 DEF Quotients
    <3> QED
      BY <1>3, <1>8, <2>2, <3>1 DEF Less
  <2> QED
    BY <2>1, <2>2
<1>10. peak' > 0 => ~ Less(maxDrawdown', Drawdown(peak', eq))
  <2>1. (peak' - eq) * peak' \in Int
    BY <1>3, <1>5
  <2> QED
    BY <1>8, <2>1 DEF Less, Drawdown
<1>11. Scan'
  <2>1. i' \in 1 .. Len(series') + 1 /\ series' # << >>
    BY <1>1 DEF Scan
  <2>2. \A k \in 1 .. (i' - 1) : series'[k] <= peak'
    BY <1>1, <1>6
  <2>3. \E k \in 1 .. i' : k <= Len(series') /\ peak' = series'[k] /\ (k < i' \/ k = 1)
    BY <1>1, <1>7
  <2> QED
    BY <1>5, <1>9, <2>1, <2>2, <2>3 DEF Scan
<1>12. NoneWorse'
  <2>1. SUFFICES ASSUME NEW k \in 1 .. i, NEW j \in 1 .. k, series[j] > 0
                 PROVE  ~ Less(maxDrawdown', Drawdown(series[j], series[k]))
    BY <1>1 DEF NoneWorse
  <2>2. series[j] \in Nat /\ series[k] \in Nat /\ j \in 1 .. i
    BY <1>1, <1>2
  <2>3. Drawdown(series[j], series[k]) \in Quotients
    BY <2>1, <2>2, DrawdownIsQuotient
  <2>4. CASE k = i
    <3>1. series[j] <= peak'
      BY <1>6, <2>2
    <3>2. peak' > 0
      BY <1>5, <2>1, <2>2, <3>1
    <3>3. ~ Less(Drawdown(peak', eq), Drawdown(series[j], eq))
      BY <1>3, <1>5, <2>1, <2>2, <3>1, HigherPeak
    <3>4. Drawdown(peak', eq) \in Quotients
      BY <1>3, <1>5, <3>2, DrawdownIsQuotient
    <3> QED
      BY <1>9, <1>10, <2>3, <2>4, <3>2, <3>3, <3>4, NotLessTransitive
  <2>5. CASE k # i
    <3>1. k \in 1 .. (i - 1)
      BY <1>1, <2>5
    <3>2. ~ Less(maxDrawdown, Drawdown(series[j], series[k]))
      BY <2>1, <3>1 DEF NoneWorse
    <3> QED
      BY <1>3, <1>9, <2>3, <3>2, NotLessTransitive
  <2> QED
    BY <2>4, <2>5
<1>13. Attained'
  <2>1. CASE maxDrawdown' = maxDrawdown
    <3>1. CASE maxDrawdown = << 0, 1 >>
      BY <2>1, <3>1 DEF Attained
    <3>2. CASE maxDrawdown # << 0, 1 >>
      <4>1. PICK k \in 1 .. (i - 1) : \E j \in 1 .. k :
              series[j] > 0 /\ maxDrawdown = Drawdown(series[j], series[k])
        BY <3>2 DEF Attained
      <4>2. k \in 1 .. (i' - 1)
        BY <1>1
      <4> QED
        BY <1>1, <2>1, <4>1, <4>2 DEF Attained
    <3> QED
      BY <3>1, <3>2
  <2>2. CASE maxDrawdown' # maxDrawdown
    <3>1. peak' > 0 /\ maxDrawdown' = Drawdown(peak', series[i])
      BY <1>8, <2>2
    <3>2. PICK j \in 1 .. i : peak' = series[j]
      BY <1>7
    <3>3. i \in 1 .. (i' - 1)
      BY <1>1
    <3> QED
      BY <1>1, <3>1, <3>2, <3>3 DEF Attained
  <2> QED
    BY <2>1, <2>2
<1> QED
  BY <1>11, <1>12, <1>13

\* A request starts with the invariant.
LEMMA DInvInit == RInit => DInv
  BY DEF RInit, DInv, Rows

\* Every step of a request keeps it.
LEMMA DInvStep == DInv /\ [RNext]_rvars => DInv'
PROOF
<1> SUFFICES ASSUME DInv, [RNext]_rvars PROVE DInv'
  OBVIOUS
<1>r. Rows
  BY DEF DInv
<1>1. CASE Query
  <2>1. PICK n \in 0 .. MaxRows : table' \in [1 .. n -> Equities \cup {NULL}]
    BY <1>1 DEF Query
  <2>2. table' \in Seq(Equities \cup {NULL})
    BY <2>1, RiskAssumption
  <2> QED
    BY <1>1, <1>r, <2>2 DEF DInv, Rows, Query
<1>2. CASE Read
  BY <1>2, <1>r, RowsRead DEF DInv, Read
<1>3. CASE ScanFails
  BY <1>3, <1>r DEF DInv, Rows, ScanFails
<1>4. CASE EndOfRows
  BY <1>4, <1>r DEF DInv, Rows, EndOfRows
<1>5. CASE Forward
  <2>1. series \in Seq(Nat) /\ series # << >> /\ series' = Reverse(series)
    BY <1>5, <1>r DEF Rows, Forward
  <2>2. series' \in Seq(Nat) /\ series' # << >>
    BY <2>1, ReverseOfRows
  <2>3. Rows'
    BY <1>5, <1>r, <2>2 DEF Rows, Forward
  <2>4. i' = 1 /\ maxDrawdown' = << 0, 1 >> /\ peak' = series'[1]
    BY <1>5 DEF Forward
  <2>5. Scan'
    BY <2>2, <2>4, EmptyScan DEF Scan, Quotients
  <2>6. NoneWorse' /\ Attained'
    BY <2>4 DEF NoneWorse, Attained
  <2> QED
    BY <2>3, <2>5, <2>6 DEF DInv
<1>6. CASE ScanRow
  <2>1. phase = "scanning" /\ UNCHANGED << phase, table, series >>
    BY <1>6 DEF ScanRow
  <2>2. Scan' /\ NoneWorse' /\ Attained'
    BY <1>6, <1>r, <2>1, ScanKeeps DEF DInv
  <2>3. Rows'
    BY <1>r, <2>1 DEF Rows
  <2> QED
    BY <2>2, <2>3 DEF DInv
<1>7. CASE Rate
  BY <1>7, <1>r DEF DInv, Rows, Rate
<1>8. CASE Done
  BY <1>8 DEF DInv, Rows, Done
<1>9. CASE UNCHANGED rvars
  BY <1>9 DEF DInv, Rows, Scan, NoneWorse, Attained, rvars
<1> QED
  BY <1>1, <1>2, <1>3, <1>4, <1>5, <1>6, <1>7, <1>8, <1>9 DEF RNext

-----------------------------------------------------------------------------
(* Risk metrics: the returns.                                              *)

\* The rows read, the newest one first and, once they are turned round, last.
FromNewest ==
  phase \in {"reading", "read"} =>
    /\ Len(series) <= Len(table)
    /\ \A k \in 1 .. Len(series) : series[k] = ValueOrZero(table[Len(table) - k + 1])

ToNewest ==
  phase \in {"scanning", "answered"} =>
    /\ Len(series) <= Len(table)
    /\ \A k \in 1 .. Len(series) :
         series[k] = ValueOrZero(table[Len(table) - Len(series) + k])

\* The rows of the table before the window.
Base == Len(table) - Len(series)

\* The returns so far are those from the rows up to the one before the last that was
\* passed.
SoFar ==
  /\ returns \in Seq(Nat \X Nat)
  /\ Len(returns) = Cardinality(Divisible(Base + i - 2))
  /\ \A k \in Divisible(Base + i - 2) :
       returns[Cardinality(Divisible(k))] = << ValueOrZero(table[k + 1]), table[k] >>

ReturnsInv ==
  /\ DInv
  /\ phase = "idle" => series = << >>
  /\ phase \in {"idle", "reading"} => returns = << >>
  /\ FromNewest /\ ToNewest
  /\ phase = "scanning" => SoFar
  /\ ReturnsOfAdjacent

\* The rows that can be divided by are finitely many, and there are more of them up to
\* a later row.
LEMMA DivisibleFinite ==
  ASSUME Rows, Len(series) <= Len(table), NEW k \in Int
  PROVE  /\ IsFiniteSet(Divisible(k)) /\ Cardinality(Divisible(k)) \in Nat
         /\ \A j \in Divisible(k) : j \in Nat /\ j >= 1 /\ j <= k
PROOF
<1>1. Len(table) \in Nat /\ Len(series) \in Nat
  BY DEF Rows
<1>2. \A j \in Divisible(k) : j \in Nat /\ j >= 1 /\ j <= k
  BY <1>1 DEF Divisible
<1>3. IsFiniteSet((Len(table) - Len(series) + 1) .. k)
  BY <1>1, FS_Interval
<1>4. Divisible(k) \subseteq (Len(table) - Len(series) + 1) .. k
  BY DEF Divisible
<1> QED
  BY <1>2, <1>3, <1>4, FS_Subset, FS_CardinalityType

LEMMA DivisibleGrows ==
  ASSUME Rows, Len(series) <= Len(table), NEW m \in Int, NEW k \in Divisible(m)
  PROVE  Cardinality(Divisible(k)) \in 1 .. Cardinality(Divisible(m))
PROOF
<1>1. k \in Int /\ k <= m
  BY DivisibleFinite
<1>2. k \in Divisible(k) /\ Divisible(k) \subseteq Divisible(m)
  <2>1. Len(table) \in Nat /\ Len(series) \in Nat
    BY DEF Rows
  <2> QED
    BY <1>1, <2>1 DEF Divisible
<1>3. Cardinality(Divisible(k)) <= Cardinality(Divisible(m))
  BY <1>2, DivisibleFinite, FS_Subset
<1>4. Cardinality(Divisible(k)) # 0
  BY <1>1, <1>2, DivisibleFinite, FS_EmptySet
<1> QED
  BY <1>1, <1>3, <1>4, DivisibleFinite

\* The loop's body takes the returns from one row to the next.
LEMMA ScanReturns ==
  ASSUME Rows, Scan, ToNewest, phase = "scanning", SoFar, ScanRow
  PROVE  SoFar'
PROOF
<1> DEFINE m == Base + i - 2
           row == Base + i - 1
<1>1. /\ i \in Nat /\ i >= 1 /\ i <= Len(series) /\ Len(series) \in Nat
      /\ Len(table) \in Nat /\ Len(series) <= Len(table)
      /\ series' = series /\ table' = table /\ i' = i + 1
      /\ returns' = IF HasReturn THEN Append(returns, ReturnPair(i)) ELSE returns
  BY DEF Rows, Scan, ScanRow, ToNewest
<1>2. \A k \in 1 .. Len(series) : series[k] \in Nat /\ series[k] = ValueOrZero(table[Base + k])
  BY DEF Rows, ToNewest, Base
<1>3. Base \in Nat /\ Base' = Base /\ m \in Int /\ row = m + 1 /\ (Base + i - 2)' = row
  BY <1>1 DEF Base
<1>4. \A k : Divisible(k)' = Divisible(k)
  BY <1>1 DEF Divisible
<1>5. /\ returns \in Seq(Nat \X Nat) /\ Len(returns) = Cardinality(Divisible(m))
      /\ \A k \in Divisible(m) :
           returns[Cardinality(Divisible(k))] = << ValueOrZero(table[k + 1]), table[k] >>
  BY DEF SoFar
<1>6. SUFFICES /\ returns' \in Seq(Nat \X Nat) /\ Len(returns') = Cardinality(Divisible(row))
               /\ \A k \in Divisible(row) :
                    returns'[Cardinality(Divisible(k))] = << ValueOrZero(table[k + 1]), table[k] >>
  BY <1>1, <1>3, <1>4 DEF SoFar
<1>7. CASE HasReturn
  <2>1. i > 1 /\ series[i - 1] > 0 /\ i - 1 \in 1 .. Len(series) /\ i \in 1 .. Len(series)
    BY <1>1, <1>7 DEF HasReturn
  <2>2. /\ series[i] = ValueOrZero(table[row + 1]) /\ series[i - 1] = ValueOrZero(table[row])
        /\ series[i] \in Nat /\ series[i - 1] \in Nat
    <3>1. Base + i = row + 1 /\ Base + (i - 1) = row
      BY <1>1, <1>3
    <3> QED
      BY <1>2, <2>1, <3>1
  <2>3. ValueOrZero(table[row]) = table[row]
    BY <2>1, <2>2 DEF ValueOrZero
  <2> DEFINE p == << series[i], series[i - 1] >>
  <2>4. p = << ValueOrZero(table[row + 1]), table[row] >> /\ p \in Nat \X Nat
    BY <2>2, <2>3
  <2>5. returns' = Append(returns, p)
    BY <1>1, <1>7 DEF ReturnPair
  <2> HIDE DEF p
  <2>6. Divisible(row) = Divisible(m) \cup {row} /\ row \notin Divisible(m)
    <3>1. Base + 1 <= row /\ row \in Int /\ Len(table) - Len(series) + 1 = Base + 1
      BY <1>1, <1>3, <2>1 DEF Base
    <3>2. ValueOrZero(table[row]) > 0
      BY <2>1, <2>2
    <3> HIDE DEF m, row
    <3>3. \A j : j \in (Base + 1) .. row <=> j \in (Base + 1) .. m \/ j = row
      BY <1>3, <3>1
    <3>4. row \notin (Base + 1) .. m
      BY <1>3, <3>1
    <3> QED
      BY <3>1, <3>2, <3>3, <3>4 DEF Divisible
  <2> HIDE DEF m, row
  <2>0. IsFiniteSet(Divisible(m))
    BY <1>1, <1>3, DivisibleFinite
  <2>7. Cardinality(Divisible(row)) = Cardinality(Divisible(m)) + 1
    BY <2>0, <2>6, FS_AddElement
  <2>8. Cardinality(Divisible(m)) \in Nat
    BY <1>1, <1>3, DivisibleFinite
  <2>9. /\ returns' \in Seq(Nat \X Nat) /\ Len(returns') = Cardinality(Divisible(row))
        /\ returns'[Cardinality(Divisible(row))] = p
        /\ \A k \in 1 .. Cardinality(Divisible(m)) : returns'[k] = returns[k]
    BY <1>5, <2>4, <2>5, <2>7, <2>8
  <2>10. ASSUME NEW k \in Divisible(row)
         PROVE  returns'[Cardinality(Divisible(k))] = << ValueOrZero(table[k + 1]), table[k] >>
    <3>1. CASE k = row
      BY <2>4, <2>9, <3>1
    <3>2. CASE k \in Divisible(m)
      <4>1. Cardinality(Divisible(k)) \in 1 .. Cardinality(Divisible(m))
        BY <1>1, <1>3, <3>2, DivisibleGrows
      <4> QED
        BY <1>5, <2>9, <3>2, <4>1
    <3> QED
      BY <2>6, <3>1, <3>2
  <2> QED
    BY <2>9, <2>10
<1>8. CASE ~ HasReturn
  <2>1. Divisible(row) = Divisible(m)
    <3>1. CASE i = 1
      BY <1>1, <1>3, <3>1 DEF Divisible, Base
    <3>2. CASE i > 1
      <4>1. i - 1 \in 1 .. Len(series) /\ Base + (i - 1) = row
        BY <1>1, <1>3, <3>2
      <4>2. ~ (ValueOrZero(table[row]) > 0)
        BY <1>2, <1>8, <3>2, <4>1 DEF HasReturn
      <4> QED
        BY <1>1, <1>3, <4>2 DEF Divisible, Base
    <3> QED
      BY <1>1, <3>1, <3>2
  <2> QED
    BY <1>1, <1>5, <1>8, <2>1
<1> QED
  BY <1>7, <1>8

\* A request starts with the invariant.
LEMMA ReturnsInit == RInit => ReturnsInv
PROOF
<1> SUFFICES ASSUME RInit PROVE ReturnsInv
  OBVIOUS
<1>1. DInv
  BY DInvInit
<1>2. phase = "idle" /\ series = << >> /\ returns = << >>
  BY DEF RInit
<1> QED
  BY <1>1, <1>2 DEF ReturnsInv, FromNewest, ToNewest, ReturnsOfAdjacent

\* Every step of a request keeps it.
LEMMA ReturnsStep == ReturnsInv /\ [RNext]_rvars => ReturnsInv'
PROOF
<1> SUFFICES ASSUME ReturnsInv, [RNext]_rvars PROVE ReturnsInv'
  OBVIOUS
<1>1. DInv /\ DInv' /\ Rows
  BY DInvStep DEF ReturnsInv, DInv
<1>2. /\ phase = "idle" => series = << >>
      /\ phase \in {"idle", "reading"} => returns = << >>
      /\ FromNewest /\ ToNewest
      /\ phase = "scanning" => SoFar
      /\ ReturnsOfAdjacent
  BY DEF ReturnsInv
<1>3. series \in Seq(Nat) /\ Len(series) \in Nat /\ Len(table) \in Nat
  BY <1>1 DEF Rows
<1>4. CASE Query
  <2>1. phase' \in {"reading", "error"} /\ series' = << >> /\ returns' = << >>
    BY <1>2, <1>4 DEF Query
  <2>2. Len(table') \in Nat
    BY <1>1 DEF DInv, Rows
  <2>3. FromNewest'
    BY <2>1, <2>2 DEF FromNewest
  <2> QED
    BY <1>1, <2>1, <2>3 DEF ReturnsInv, ToNewest, ReturnsOfAdjacent
<1>5. CASE Read
  <2>1. /\ phase = "reading" /\ phase' = "reading" /\ table' = table
        /\ series' = Append(series, ValueOrZero(NextRow)) /\ Len(series) < Len(table)
        /\ returns' = returns
    BY <1>5 DEF Read, Unread
  <2>2. NextRow = table[Len(table) - (Len(series) + 1) + 1]
    BY <1>3 DEF NextRow
  <2>3. Len(series') = Len(series) + 1
    BY <1>3, <2>1
  <2>4. ASSUME NEW k \in 1 .. Len(series')
        PROVE  series'[k] = ValueOrZero(table[Len(table) - k + 1])
    <3>1. CASE k = Len(series) + 1
      BY <1>3, <2>1, <2>2, <3>1
    <3>2. CASE k \in 1 .. Len(series)
      BY <1>2, <1>3, <2>1, <3>2 DEF FromNewest
    <3> QED
      BY <1>3, <2>3, <3>1, <3>2
  <2>5. FromNewest'
    BY <1>3, <2>1, <2>3, <2>4 DEF FromNewest
  <2> QED
    BY <1>1, <1>2, <2>1, <2>5 DEF ReturnsInv, ToNewest, ReturnsOfAdjacent
<1>6. CASE ScanFails
  BY <1>1, <1>6 DEF ScanFails, ReturnsInv, FromNewest, ToNewest, ReturnsOfAdjacent
<1>7. CASE EndOfRows
  <2>1. UNCHANGED << table, series, returns >> /\ phase = "reading"
        /\ phase' = IF series = << >> THEN "answered" ELSE "read"
    BY <1>7 DEF EndOfRows
  <2>2. CASE series = << >>
    <3>1. ToNewest'
      BY <1>3, <2>1, <2>2 DEF ToNewest
    <3>2. Divisible(Len(table) - 1)' = {} /\ returns' = << >>
      BY <1>2, <1>3, <2>1, <2>2 DEF Divisible
    <3>3. ReturnsOfAdjacent'
      BY <3>2, FS_EmptySet DEF ReturnsOfAdjacent
    <3> QED
      BY <1>1, <2>1, <2>2, <3>1, <3>3 DEF ReturnsInv, FromNewest
  <2>3. CASE series # << >>
    <3>1. FromNewest'
      BY <1>2, <2>1 DEF FromNewest
    <3> QED
      BY <1>1, <2>1, <2>3, <3>1 DEF ReturnsInv, ToNewest, ReturnsOfAdjacent
  <2> QED
    BY <2>2, <2>3
<1>8. CASE Forward
  <2>1. /\ phase = "read" /\ phase' \in {"scanning", "answered"} /\ table' = table
        /\ series' = Reverse(series) /\ i' = 1 /\ returns' = << >>
    BY <1>8 DEF Forward
  <2>2. Len(series') = Len(series) /\ Len(series) <= Len(table)
    BY <1>2, <2>1, <1>1, ReverseOfRows DEF Rows, FromNewest
  <2>3. ASSUME NEW k \in 1 .. Len(series)
        PROVE  series'[k] = ValueOrZero(table[Len(table) - Len(series) + k])
    <3> DEFINE j == Len(series) - k + 1
    <3>1. j \in 1 .. Len(series) /\ series'[k] = series[j]
      BY <1>3, <2>1 DEF Reverse
    <3>2. series[j] = ValueOrZero(table[Len(table) - j + 1])
      BY <1>2, <2>1, <3>1 DEF FromNewest
    <3>3. Len(table) - j + 1 = Len(table) - Len(series) + k
      BY <1>3
    <3> QED
      BY <3>1, <3>2, <3>3
  <2>4. ToNewest'
    BY <2>1, <2>2, <2>3 DEF ToNewest
  <2>5. SoFar'
    <3>1. Rows' /\ Len(series') <= Len(table')
      BY <1>1, <2>1, <2>2 DEF DInv
    <3>2. Base' + 1 - 2 = Base' - 1 /\ Len(returns') = 0 /\ returns' \in Seq(Nat \X Nat)
      BY <1>3, <2>1, <2>2 DEF Base
    <3>3. Divisible(Base + i - 2)' = {} /\ Cardinality({}) = 0
      <4>1. Len(table') \in Nat /\ Len(series') \in Nat
        BY <1>3, <2>1, <2>2
      <4>2. Divisible(Base + i - 2)' = {}
        BY <2>1, <4>1 DEF Divisible, Base
      <4> QED
        BY <4>2, FS_EmptySet
    <3> QED
      BY <3>2, <3>3 DEF SoFar
  <2>6. ~ (i' > Len(series'))
    BY <1>1, <1>3, <2>1, <2>2 DEF Rows
  <2> QED
    BY <1>1, <2>1, <2>4, <2>5, <2>6 DEF ReturnsInv, FromNewest, ReturnsOfAdjacent
<1>9. CASE ScanRow
  <2>1. phase = "scanning" /\ UNCHANGED << phase, table, series >>
    BY <1>9 DEF ScanRow
  <2>2. SoFar'
    BY <1>1, <1>2, <1>9, <2>1, ScanReturns DEF DInv
  <2>3. FromNewest' /\ ToNewest'
    BY <1>2, <2>1 DEF FromNewest, ToNewest
  <2> QED
    BY <1>1, <2>1, <2>2, <2>3 DEF ReturnsInv, ReturnsOfAdjacent
<1>10. CASE Rate
  <2>1. /\ phase = "scanning" /\ phase' = "answered" /\ i > Len(series)
        /\ UNCHANGED << table, series, i, returns >>
    BY <1>10 DEF Rate
  <2>2. FromNewest' /\ ToNewest'
    BY <1>2, <2>1 DEF FromNewest, ToNewest
  <2>3. Base + i - 2 = Len(table) - 1
    BY <1>1, <1>3, <2>1 DEF DInv, Scan, Base
  <2>4. SoFar /\ (\A k : Divisible(k)' = Divisible(k))
    BY <1>2, <2>1 DEF Divisible
  <2>5. ReturnsOfAdjacent'
    BY <2>1, <2>3, <2>4 DEF SoFar, ReturnsOfAdjacent
  <2> QED
    BY <1>1, <2>1, <2>2, <2>5 DEF ReturnsInv
<1>11. CASE Done
  BY <1>1, <1>11 DEF Done, ReturnsInv, FromNewest, ToNewest, ReturnsOfAdjacent
<1>12. CASE UNCHANGED rvars
  <2>1. UNCHANGED << phase, table, series, i, returns >>
    BY <1>12 DEF rvars
  <2>2. FromNewest' /\ ToNewest' /\ (SoFar => SoFar') /\ ReturnsOfAdjacent'
    BY <1>2, <2>1 DEF FromNewest, ToNewest, SoFar, ReturnsOfAdjacent, Divisible, Base
  <2> QED
    BY <1>1, <1>2, <2>1, <2>2 DEF ReturnsInv
<1> QED
  BY <1>4, <1>5, <1>6, <1>7, <1>8, <1>9, <1>10, <1>11, <1>12 DEF RNext

-----------------------------------------------------------------------------
(* Volatility models: a volatility for every bundle.                       *)

Volatility(x) == x \in Int /\ x >= 0

\* What is known of the models at each point of their lives: above all that a model
\* that is fitted has a distribution or a deviation to fall back on.
MInv ==
  /\ attempt \in 1 .. 3
  /\ fitted \in {None, "normal", "t"}
  /\ mpc = "attempt" => data = "usual"
  /\ mpc \in {"fitted", "predicted", "bundle"} => fitted # None \/ Volatility(fallback_vol)
  /\ mpc # "bundle" => forecast = NoForecast
  /\ VolatilityKnown

\* A prediction of such a model is a volatility, or arch raised.
LEMMA PredictionsKnown ==
  ASSUME MInv, mpc \in {"fitted", "bundle"}, NEW p \in Predictions
  PROVE  IF p.vol = None THEN p.raises ELSE p.vol >= 0
PROOF
<1>1. CASE fitted = None
  <2>1. p = [vol |-> fallback_vol, raises |-> FALSE]
    BY <1>1 DEF Predictions
  <2> QED
    BY <1>1, <2>1, NoneAssumption DEF MInv, Volatility
<1>2. CASE fitted # None
  <2>1. CASE p = [vol |-> None, raises |-> TRUE]
    BY <2>1
  <2>2. CASE \E variance \in {-1, 0, 1} : p = [vol |-> CutOff(variance), raises |-> FALSE]
    BY <2>2, NoneAssumption DEF CutOff
  <2> QED
    BY <1>2, <2>1, <2>2 DEF Predictions
<1> QED
  BY <1>1, <1>2

\* A bundle starts with the invariant.
LEMMA MInvInit == MInit => MInv
  BY DEF MInit, MInv, VolatilityKnown

\* Every step of training and forecasting keeps it.
LEMMA MInvStep == MInv /\ [MNext]_mvars => MInv'
PROOF
<1> SUFFICES ASSUME MInv, [MNext]_mvars PROVE MInv'
  OBVIOUS
<1> USE DEF MInv, VolatilityKnown
<1>1. CASE TooShort
  BY <1>1 DEF TooShort
<1>2. CASE NearZeroVariance
  BY <1>2 DEF NearZeroVariance, SampleStd, Volatility
<1>3. CASE Scale
  BY <1>3 DEF Scale
<1>4. CASE Converges
  <2>1. attempt = 1 \/ attempt = 2
    BY <1>4 DEF Converges, Attempts
  <2>2. fitted' \in {"normal", "t"}
    BY <1>4, <2>1 DEF Converges, Attempts
  <2> QED
    BY <1>4, <2>2, NoneAssumption DEF Converges
<1>5. CASE TryNext
  BY <1>5 DEF TryNext, Attempts
<1>6. CASE FallBack
  BY <1>6 DEF FallBack, SampleStd, Volatility
<1>7. CASE PredictInTraining
  <2>1. PICK p \in Predictions :
          raised' = p.raises /\ mpc' = IF p.vol = None THEN "failed" ELSE "predicted"
    BY <1>7 DEF PredictInTraining
  <2>2. mpc = "fitted" /\ UNCHANGED << data, attempt, fitted, fallback_vol, xgb, forecast >>
    BY <1>7 DEF PredictInTraining
  <2>3. IF p.vol = None THEN p.raises ELSE p.vol >= 0
    BY <2>2, PredictionsKnown
  <2> QED
    BY <2>1, <2>2, <2>3
<1>8. CASE TrainXgb
  BY <1>8 DEF TrainXgb
<1>9. CASE Infer
  <2>1. PICK p \in Predictions :
          raised' = p.raises /\ \E x : forecast' = [garch |-> p.vol, xgb |-> x]
    BY <1>9 DEF Infer
  <2>2. mpc = "bundle" /\ UNCHANGED << mpc, data, attempt, fitted, fallback_vol, xgb >>
    BY <1>9 DEF Infer
  <2>3. IF p.vol = None THEN p.raises ELSE p.vol >= 0
    BY <2>2, PredictionsKnown
  <2>4. forecast'.garch = p.vol
    BY <2>1
  <2> QED
    BY <2>1, <2>2, <2>3, <2>4
<1>10. CASE Retrain
  BY <1>10 DEF Retrain
<1>11. CASE UNCHANGED mvars
  BY <1>11 DEF mvars
<1> QED
  BY <1>1, <1>2, <1>3, <1>4, <1>5, <1>6, <1>7, <1>8, <1>9, <1>10, <1>11 DEF MNext

-----------------------------------------------------------------------------
(* The theorems.                                                           *)

\* Whatever the gradient and the volatilities, the larger target never ends up with the
\* smaller weight (allocator.py:11-26).
THEOREM OrderIsKept == CSpec => []OrderKept
PROOF
<1>1. CInit => OInv
  BY OInvInit DEF CInit
<1>2. OInv /\ [CNext]_cvars => OInv'
  BY OInvStep DEF CNext, cvars
<1>3. OInv => OrderKept
  BY DEF OInv, OrderKept, Ordered
<1> QED
  BY <1>1, <1>2, <1>3, PTL DEF CSpec

\* Of any window the running peak yields the worst drawdown between two of its rows
\* (api_gateway/main.go:384-396).
THEOREM DrawdownIsTheWorst == CSpec => []DrawdownIsWorst
PROOF
<1>1. CInit => DInv
  BY DInvInit DEF CInit
<1>2. DInv /\ [CNext]_cvars => DInv'
  BY DInvStep DEF CNext, cvars
<1>3. DInv => DrawdownIsWorst
  BY DEF DInv, DrawdownIsWorst
<1> QED
  BY <1>1, <1>2, <1>3, PTL DEF CSpec

\* However often a fit fails to converge, training only fails on too few returns or when
\* arch raises, and a forecast's GARCH volatility is missing only when arch raises and
\* never negative (garch_model.py:44-93).
THEOREM VolatilityIsKnown == CSpec => []VolatilityKnown
PROOF
<1>1. CInit => MInv
  BY MInvInit DEF CInit
<1>2. MInv /\ [CNext]_cvars => MInv'
  BY MInvStep DEF CNext, cvars
<1>3. MInv => VolatilityKnown
  BY DEF MInv
<1> QED
  BY <1>1, <1>2, <1>3, PTL DEF CSpec

\* The projection's loop pins a weight in every round but the last, for any number of
\* assets and any cap: its limit of rounds is not what ends it (allocator.py:13-26).
THEOREM RoundsAreFew == CSpec => []FewRounds
PROOF
<1>1. CInit => PInv
  BY PInvInit DEF CInit
<1>2. PInv /\ [CNext]_cvars => PInv'
  BY PInvStep DEF CNext, cvars
<1>3. PInv => FewRounds
  BY DEF PInv, FewRounds, RoundsLeft
<1> QED
  BY <1>1, <1>2, <1>3, PTL DEF CSpec

\* Every result is long only and fully invested, and it is within the cap after a small
\* move, for inverse volatilities that are all there, and if it is the mean of two that
\* are (allocator.py:7-31, 70-74, main.py:92-97).
THEOREM WeightsAreConstrained == CSpec => []Constrained
PROOF
<1>1. CInit => PInv
  BY PInvInit DEF CInit
<1>2. PInv /\ [CNext]_cvars => PInv'
  BY PInvStep DEF CNext, cvars
<1>3. PInv => Constrained
  BY DEF PInv
<1> QED
  BY <1>1, <1>2, <1>3, PTL DEF CSpec

\* Whatever rows the table has, zeros and NULLs among them, the limit and the place where
\* the query breaks off: a request's returns are those from each row of its window that
\* can be divided by to the row right after it, in order (api_gateway/main.go:327-404).
THEOREM ReturnsAreOfAdjacent == CSpec => []ReturnsOfAdjacent
PROOF
<1>1. CInit => ReturnsInv
  BY ReturnsInit DEF CInit
<1>2. ReturnsInv /\ [CNext]_cvars => ReturnsInv'
  BY ReturnsStep DEF CNext, cvars
<1>3. ReturnsInv => ReturnsOfAdjacent
  BY DEF ReturnsInv
<1> QED
  BY <1>1, <1>2, <1>3, PTL DEF CSpec
=============================================================================
