---------------------------- MODULE SumTheorems ----------------------------
(***************************************************************************)
(* What Total does when one of its terms changes.  Total is a recursive    *)
(* function on 0 .. n; the library's induction theorems take an operator   *)
(* as parameter, so every induction here is an argument about a least      *)
(* counterexample: LeastElement, applied to the set of indices at which    *)
(* the claim fails.                                                        *)
(***************************************************************************)
EXTENDS Integers, Sums, WellFoundedInduction, TLAPS

(* g is the function of partial sums f[1] + ... + f[i], for i in 0 .. n *)
IsPartial(g, f, n) ==
  g = [i \in 0..n |-> IF i = 0 THEN 0 ELSE g[i - 1] + f[i]]

HasPartial(f, k) == \E g \in [0..k -> Int] : IsPartial(g, f, k)

-----------------------------------------------------------------------------
(* Every non-empty set of naturals has a least element.                    *)
LEMMA LeastElement ==
  ASSUME NEW T, T \subseteq Nat, T # {}
  PROVE  \E m \in T : \A k \in T : m <= k
<1> DEFINE R == OpToRel(<, Nat)
<1>1. IsWellFoundedOn(R, Nat)
  BY NatLessThanWellFounded
<1>2. PICK m \in T : \A k \in T : ~(<<k, m>> \in R)
  <2> HIDE DEF R
  <2> QED BY <1>1, WFMin, Zenon
<1>3. \A k \in T : <<k, m>> \in R <=> k < m
  BY DEF OpToRel
<1>4. \A k \in T : k \in Nat /\ m \in Nat
  OBVIOUS
<1> HIDE DEF R
<1>5. \A k \in T : ~(k < m)
  BY <1>2, <1>3
<1>6. \A k \in T : m <= k
  BY <1>4, <1>5
<1> QED BY <1>6

(* The partial sums of f are unique: two versions agree at every index.     *)
LEMMA PartialUnique ==
  ASSUME NEW n \in Nat, NEW f \in [1..n -> Int], NEW g, NEW h,
         IsPartial(g, f, n), IsPartial(h, f, n)
  PROVE  g = h
<1> DEFINE T == {i \in 0..n : g[i] # h[i]}
<1>1. DOMAIN g = 0..n /\ DOMAIN h = 0..n
  BY DEF IsPartial
<1>2. \A i \in 0..n : g[i] = (IF i = 0 THEN 0 ELSE g[i - 1] + f[i])
  BY DEF IsPartial
<1>3. \A i \in 0..n : h[i] = (IF i = 0 THEN 0 ELSE h[i - 1] + f[i])
  BY DEF IsPartial
<1>4. T = {}
  <2> SUFFICES ASSUME T # {} PROVE FALSE
    OBVIOUS
  <2>0. T \subseteq Nat
    OBVIOUS
  <2>1. PICK m \in T : \A k \in T : m <= k
    <3> HIDE DEF T
    <3> QED BY <2>0, LeastElement
  <2>2. m # 0
    BY <1>2, <1>3
  <2>3. m - 1 \in 0..n /\ m - 1 \notin T
    BY <2>1, <2>2
  <2>4. g[m - 1] = h[m - 1]
    BY <2>3
  <2> QED BY <2>1, <2>2, <2>4, <1>2, <1>3
<1>5. \A i \in 0..n : g[i] = h[i]
  BY <1>4
<1>6. g = [i \in 0..n |-> g[i]] /\ h = [i \in 0..n |-> h[i]]
  BY DEF IsPartial
<1> QED BY <1>5, <1>6

(* The partial sums of f exist for every length n.                          *)
LEMMA PartialExists ==
  ASSUME NEW n \in Nat, NEW f \in [1..n -> Int]
  PROVE  \E g \in [0..n -> Int] : IsPartial(g, f, n)
<1> DEFINE T == {k \in 0..n : ~HasPartial(f, k)}
<1>1. T = {}
  <2> SUFFICES ASSUME T # {} PROVE FALSE
    OBVIOUS
  <2>0. T \subseteq Nat
    OBVIOUS
  <2>1. PICK m \in T : \A k \in T : m <= k
    <3> HIDE DEF T
    <3> QED BY <2>0, LeastElement
  <2>2. HasPartial(f, 0)
    <3> DEFINE z == [i \in 0..0 |-> 0]
    <3>1. z \in [0..0 -> Int] /\ IsPartial(z, f, 0)
      BY DEF IsPartial
    <3> QED BY <3>1 DEF HasPartial
  <2>3. m # 0 /\ m \in 0..n /\ ~HasPartial(f, m)
    BY <2>2
  <2>4. m - 1 \in 0..n /\ m - 1 \notin T
    BY <2>1, <2>3
  <2>5. PICK g \in [0..(m - 1) -> Int] : IsPartial(g, f, m - 1)
    BY <2>4 DEF HasPartial
  <2> DEFINE h == [i \in 0..m |-> IF i = m THEN g[m - 1] + f[m] ELSE g[i]]
  <2>6. h \in [0..m -> Int]
    BY <2>3
  <2>7. \A i \in 0..(m - 1) : g[i] = (IF i = 0 THEN 0 ELSE g[i - 1] + f[i])
    BY <2>5 DEF IsPartial
  <2>8. \A i \in 0..m : h[i] = (IF i = 0 THEN 0 ELSE h[i - 1] + f[i])
    BY <2>3, <2>7
  <2>9. IsPartial(h, f, m)
    BY <2>6, <2>8 DEF IsPartial
  <2> QED BY <2>3, <2>6, <2>9 DEF HasPartial
<1>2. HasPartial(f, n)
  BY <1>1
<1> QED BY <1>2 DEF HasPartial

(* Total is the last partial sum, whichever way the partial sums are given. *)
LEMMA TotalIsPartial ==
  ASSUME NEW n \in Nat, NEW f \in [1..n -> Int], NEW g, IsPartial(g, f, n)
  PROVE  Total(f, n) = g[n]
<1>1. PICK h : IsPartial(h, f, n) /\ Total(f, n) = h[n]
  BY DEF Total, IsPartial
<1> QED BY <1>1, PartialUnique

(* A total of zeros is zero: the accounting invariants hold initially.      *)
LEMMA TotalZero ==
  ASSUME NEW n \in Nat
  PROVE  Total([i \in 1..n |-> 0], n) = 0
<1> DEFINE f == [i \in 1..n |-> 0]
           g == [i \in 0..n |-> 0]
<1>1. f \in [1..n -> Int] /\ IsPartial(g, f, n)
  BY DEF IsPartial
<1> QED BY <1>1, TotalIsPartial

(* Changing the term at k changes the total by the difference of the term. *)
LEMMA TotalUpdate ==
  ASSUME NEW n \in Nat, NEW f \in [1..n -> Int], NEW e \in [1..n -> Int],
         NEW k \in 1..n, \A i \in 1..n : i # k => e[i] = f[i]
  PROVE  Total(e, n) = Total(f, n) - f[k] + e[k]
<1>1. PICK g \in [0..n -> Int] : IsPartial(g, f, n)
  BY PartialExists
<1> DEFINE h == [i \in 0..n |-> IF i < k THEN g[i] ELSE g[i] - f[k] + e[k]]
<1>2. \A i \in 0..n : g[i] = (IF i = 0 THEN 0 ELSE g[i - 1] + f[i])
  BY <1>1 DEF IsPartial
<1>3. h \in [0..n -> Int]
  BY <1>1
<1>4. ASSUME NEW i \in 0..n
      PROVE  h[i] = (IF i = 0 THEN 0 ELSE h[i - 1] + e[i])
  <2>1. CASE i = 0
    BY <1>2, <2>1
  <2>2. CASE i # 0 /\ i < k
    BY <1>2, <2>2
  <2>3. CASE i # 0 /\ i = k
    BY <1>1, <1>2, <2>3
  <2>4. CASE i # 0 /\ i > k
    <3>1. h[i] = g[i] - f[k] + e[k] /\ h[i - 1] = g[i - 1] - f[k] + e[k]
      BY <2>4
    <3>2. e[i] = f[i] /\ g[i] = g[i - 1] + f[i]
      BY <1>2, <2>4
    <3>3. g[i - 1] \in Int /\ f[i] \in Int /\ f[k] \in Int /\ e[k] \in Int
      BY <2>4
    <3>4. h[i] = h[i - 1] + e[i]
      <4> HIDE DEF h
      <4> QED BY <3>1, <3>2, <3>3
    <3>5. i # 0
      BY <2>4
    <3> QED BY <3>4, <3>5
  <2> QED BY <2>1, <2>2, <2>3, <2>4
<1>5. IsPartial(h, e, n)
  BY <1>3, <1>4 DEF IsPartial
<1>6. h[n] = g[n] - f[k] + e[k]
  OBVIOUS
<1>7. Total(e, n) = h[n] /\ Total(f, n) = g[n]
  <2> HIDE DEF h
  <2> QED BY <1>1, <1>5, TotalIsPartial
<1> QED BY <1>6, <1>7

(* A total of naturals is a natural and bounds each of its terms.           *)
LEMMA TotalBounds ==
  ASSUME NEW n \in Nat, NEW f \in [1..n -> Nat]
  PROVE  Total(f, n) \in Nat /\ \A i \in 1..n : f[i] <= Total(f, n)
<1>1. PICK g \in [0..n -> Int] : IsPartial(g, f, n)
  BY PartialExists
<1>2. \A i \in 0..n : g[i] = (IF i = 0 THEN 0 ELSE g[i - 1] + f[i])
  BY <1>1 DEF IsPartial
<1> DEFINE T == {i \in 0..n : ~(g[i] >= 0 /\ \A j \in 1..i : f[j] <= g[i])}
<1>3. T = {}
  <2> SUFFICES ASSUME T # {} PROVE FALSE
    OBVIOUS
  <2>0. T \subseteq Nat
    OBVIOUS
  <2>1. PICK m \in T : \A k \in T : m <= k
    <3> HIDE DEF T
    <3> QED BY <2>0, LeastElement
  <2>2. m # 0
    BY <1>2
  <2>3. m - 1 \in 0..n /\ m - 1 \notin T
    BY <2>1, <2>2
  <2>4. g[m - 1] >= 0 /\ \A j \in 1..(m - 1) : f[j] <= g[m - 1]
    BY <2>3
  <2>5. g[m] = g[m - 1] + f[m] /\ f[m] \in Nat /\ g[m - 1] \in Int
    BY <1>2, <2>2
  <2>6. \A j \in 1..m : j = m \/ j \in 1..(m - 1)
    OBVIOUS
  <2>7. ASSUME NEW j \in 1..m
        PROVE  f[j] <= g[m]
    <3>1. f[j] \in Nat
      OBVIOUS
    <3>2. CASE j = m
      BY <2>4, <2>5, <3>2
    <3>3. CASE j \in 1..(m - 1)
      <4>1. f[j] <= g[m - 1]
        BY <2>4, <3>3
      <4> QED BY <2>5, <3>1, <4>1
    <3> QED BY <2>6, <3>2, <3>3
  <2>8. g[m] >= 0
    BY <2>4, <2>5
  <2> QED BY <2>7, <2>8
<1>4. g[n] >= 0 /\ \A j \in 1..n : f[j] <= g[n]
  BY <1>3
<1>5. Total(f, n) = g[n]
  BY <1>1, TotalIsPartial
<1> QED BY <1>1, <1>4, <1>5

(* A total of integers is an integer.                                      *)
LEMMA TotalInt ==
  ASSUME NEW n \in Nat, NEW f \in [1..n -> Int]
  PROVE  Total(f, n) \in Int
<1>1. PICK g \in [0..n -> Int] : IsPartial(g, f, n)
  BY PartialExists
<1> QED BY <1>1, TotalIsPartial

(* Totals of sums are sums of totals: a sum may be split between two sets.   *)
LEMMA TotalAdd ==
  ASSUME NEW n \in Nat, NEW f \in [1..n -> Int], NEW e \in [1..n -> Int],
         NEW h \in [1..n -> Int], \A i \in 1..n : h[i] = f[i] + e[i]
  PROVE  Total(h, n) = Total(f, n) + Total(e, n)
<1>1. PICK g \in [0..n -> Int] : IsPartial(g, f, n)
  BY PartialExists
<1>2. PICK k \in [0..n -> Int] : IsPartial(k, e, n)
  BY PartialExists
<1> DEFINE s == [i \in 0..n |-> g[i] + k[i]]
<1>3. \A i \in 0..n : g[i] = (IF i = 0 THEN 0 ELSE g[i - 1] + f[i])
  BY <1>1 DEF IsPartial
<1>4. \A i \in 0..n : k[i] = (IF i = 0 THEN 0 ELSE k[i - 1] + e[i])
  BY <1>2 DEF IsPartial
<1>5. ASSUME NEW i \in 0..n
      PROVE  s[i] = (IF i = 0 THEN 0 ELSE s[i - 1] + h[i])
  <2>1. CASE i = 0
    BY <1>3, <1>4, <2>1
  <2>2. CASE i # 0
    <3>1. i \in 1..n /\ i - 1 \in 0..n
      BY <2>2
    <3>2. s[i] = g[i] + k[i] /\ s[i - 1] = g[i - 1] + k[i - 1] /\ h[i] = f[i] + e[i]
      BY <3>1
    <3>3. g[i] = g[i - 1] + f[i] /\ k[i] = k[i - 1] + e[i]
      BY <1>3, <1>4, <2>2
    <3>4. /\ g[i - 1] \in Int /\ k[i - 1] \in Int /\ f[i] \in Int /\ e[i] \in Int
      BY <3>1
    <3>5. s[i] = (g[i - 1] + f[i]) + (k[i - 1] + e[i])
      BY <3>2, <3>3
    <3>6. s[i - 1] + h[i] = (g[i - 1] + k[i - 1]) + (f[i] + e[i])
      BY <3>2
    <3>7. \A a, b, c, d \in Int : (a + b) + (c + d) = (a + c) + (b + d)
      <4> HIDE DEF s
      <4> QED OBVIOUS
    <3>8. s[i] = s[i - 1] + h[i]
      <4> HIDE DEF s
      <4> QED BY <3>4, <3>5, <3>6, <3>7
    <3> QED BY <2>2, <3>8
  <2> QED BY <2>1, <2>2
<1>6. IsPartial(s, h, n)
  BY <1>5 DEF IsPartial
<1>7. s[n] = g[n] + k[n]
  OBVIOUS
<1>8. Total(h, n) = s[n] /\ Total(f, n) = g[n] /\ Total(e, n) = k[n]
  <2> HIDE DEF s
  <2> QED BY <1>1, <1>2, <1>6, TotalIsPartial
<1> QED BY <1>7, <1>8

(* A total does not shrink when none of its terms does.                    *)
LEMMA TotalMonotone ==
  ASSUME NEW n \in Nat, NEW f \in [1..n -> Int], NEW e \in [1..n -> Int],
         \A i \in 1..n : f[i] <= e[i]
  PROVE  Total(f, n) <= Total(e, n)
<1> DEFINE d == [i \in 1..n |-> e[i] - f[i]]
<1>1. d \in [1..n -> Nat] /\ d \in [1..n -> Int]
  OBVIOUS
<1>2. \A i \in 1..n : e[i] = f[i] + d[i]
  OBVIOUS
<1> HIDE DEF d
<1>3. Total(d, n) \in Nat
  BY <1>1, TotalBounds
<1>4. Total(e, n) = Total(f, n) + Total(d, n)
  BY <1>1, <1>2, TotalAdd
<1>5. Total(f, n) \in Int
  BY TotalInt
<1> QED BY <1>3, <1>4, <1>5
=============================================================================
