---------------------------- MODULE WorkflowProofs ----------------------------
(***************************************************************************)
(* Proofs about Workflow, for any number of providers and files, any rows, *)
(* budgets and limits: what the run gives out is what it has, what is on   *)
(* disk is what may still be imported, and who was given rows was served.  *)
(*                                                                         *)
(* The steps fall into four kinds, and each kind has one lemma that it     *)
(* keeps the invariant: a provider is prepared (PrepareStep), a file's     *)
(* task moves (FileStep), a provider's task ends (ProviderStep), and main  *)
(* goes on.  FairSum is what makes a wave give out its budget, neither     *)
(* more nor less; Serving is what WorkConserving needs of the states       *)
(* before the end.                                                         *)
(***************************************************************************)
EXTENDS Workflow, SumTheorems, FiniteSetTheorems

Ended == {"none", "done", "failed"}
Active == {"queued", "producing", "uploading"}

(* One reservation for each file that holds one *)
HeldIsActive == held = Cardinality({f \in Files : task[f] \in Active})

StorageCounted ==
  /\ used_bytes = TotalOf(stored, Providers) + orphaned
  /\ used_bytes <= StorageLimit

FeedsWhere ==
  /\ phase = "preparing" =>
       \A p \in Providers : /\ prepared[p] \in {"skipped", "failed"} => stored[p] = 0
                            /\ prepared[p] = "ready" => stored[p] # 0
  /\ phase \in {"between", "running", "over"} =>
       \A p \in Providers : stored[p] # 0 <=> p \in pending \cup running
  /\ phase = "ended" => \A p \in Providers : stored[p] = 0

(* Who waits or runs was prepared, and only providers that run have tasks. *)
WaveShape ==
  /\ phase # "running" => running = {}
  /\ phase = "preparing" => pending = {}
  /\ pending \cap running = {}
  /\ pending \cup running \subseteq With("ready")
  /\ \A p \in With("ready") : FilesOf(p) # {}
  /\ \A f \in Files : task[f] \notin Ended => Own(f) \in running

(* The limits of a wave add up to the budget it began with. *)
RowsShared ==
  /\ \A p \in Providers : claimed[p] <= limit[p]
  /\ \A p \in running : limit[p] # 0
  /\ phase = "running" =>
       /\ TotalOf(limit, Providers) = budget
       /\ processed + TotalOf(limit, running) <= budget

(* What a claimed row became of, and why a file ended before its rows did *)
Claimer(p) ==
  \E f \in FilesOf(p) : got[f] # 0 \/ left[f] < Rows[f] \/ f \in refused \/ task[f] = "failed"

FilesShape ==
  /\ \A f \in Files : got[f] # 0 => task[f] \in {"producing", "uploading"}
  /\ \A f \in Files : Own(f) \in running /\ task[f] = "none" => left[f] = 0
  /\ \A f \in Files : task[f] = "uploading" /\ f \notin refused => ~Claimable(f)
  /\ \A f \in Files : task[f] = "done" /\ f \notin refused /\ left[f] # 0 /\ Own(f) \in running
                        => AllClaimed(f) \/ left[f] < Rows[f]
  /\ \A p \in Providers : claimed[p] # 0 => Claimer(p)

Served(p) == \E f \in FilesOf(p) : left[f] < Rows[f]
AllServed == \A p \in With("ready") : Served(p)

(* Between waves, either nobody was served or everybody was. *)
Serving ==
  ~has_error /\ ~exhausted =>
    /\ phase = "between" =>
         AllServed \/ (pending = With("ready") /\ Cardinality(pending) <= budget)
    /\ phase = "running" => \A p \in With("ready") : Served(p) \/ p \in running
    /\ phase \in {"over", "ended"} => AllServed /\ (pending = {} \/ budget = 0)

IInv ==
  /\ TypeOK
  /\ HeldIsActive
  /\ StorageCounted
  /\ FeedsWhere
  /\ WaveShape
  /\ RowsShared
  /\ FilesShape
  /\ Serving

-----------------------------------------------------------------------------
(* Sums over a set of providers *)

LEMMA TotalOfNat ==
  ASSUME NEW f \in [Providers -> Nat], NEW S
  PROVE  /\ TotalOf(f, S) \in Nat
         /\ \A p \in Providers : p \in S => f[p] <= TotalOf(f, S)
<1> DEFINE g == [p \in Providers |-> IF p \in S THEN f[p] ELSE 0]
<1>1. NumProviders \in Nat /\ g \in [1..NumProviders -> Nat]
  BY WorkflowAssumption DEF Providers
<1>2. \A p \in Providers : p \in S => f[p] = g[p]
  OBVIOUS
<1>3. TotalOf(f, S) = Total(g, NumProviders)
  BY DEF TotalOf
<1> HIDE DEF g
<1>4. Total(g, NumProviders) \in Nat /\ \A p \in 1..NumProviders : g[p] <= Total(g, NumProviders)
  BY <1>1, TotalBounds
<1> QED BY <1>2, <1>3, <1>4 DEF Providers

(* A sum is taken apart along two disjoint sets. *)
LEMMA TotalOfSplit ==
  ASSUME NEW f \in [Providers -> Nat], NEW S, NEW T, S \cap T = {}
  PROVE  TotalOf(f, S \cup T) = TotalOf(f, S) + TotalOf(f, T)
<1> DEFINE g(R) == [p \in Providers |-> IF p \in R THEN f[p] ELSE 0]
<1>1. NumProviders \in Nat
  BY WorkflowAssumption
<1>2. \A R : g(R) \in [1..NumProviders -> Int]
  BY DEF Providers
<1>3. \A p \in 1..NumProviders : g(S \cup T)[p] = g(S)[p] + g(T)[p]
  <2> SUFFICES ASSUME NEW p \in Providers PROVE g(S \cup T)[p] = g(S)[p] + g(T)[p]
    BY DEF Providers
  <2>1. f[p] \in Nat
    OBVIOUS
  <2>2. CASE p \in S
    BY <2>1, <2>2
  <2>3. CASE p \notin S
    BY <2>1, <2>3
  <2> QED BY <2>2, <2>3
<1>4. \A R : TotalOf(f, R) = Total(g(R), NumProviders)
  BY DEF TotalOf
<1> HIDE DEF g
<1>5. Total(g(S \cup T), NumProviders) = Total(g(S), NumProviders) + Total(g(T), NumProviders)
  BY <1>1, <1>2, <1>3, TotalAdd
<1> QED BY <1>4, <1>5

(* Only the terms of the set matter. *)
LEMMA TotalOfSame ==
  ASSUME NEW f, NEW e, NEW S, NEW T,
         \A p \in Providers : (IF p \in S THEN f[p] ELSE 0) = (IF p \in T THEN e[p] ELSE 0)
  PROVE  TotalOf(f, S) = TotalOf(e, T)
<1>1. [p \in Providers |-> IF p \in S THEN f[p] ELSE 0]
        = [p \in Providers |-> IF p \in T THEN e[p] ELSE 0]
  OBVIOUS
<1> QED BY <1>1 DEF TotalOf

LEMMA TotalOfRemove ==
  ASSUME NEW f \in [Providers -> Nat], NEW S, NEW q \in Providers, q \in S
  PROVE  TotalOf(f, S) = TotalOf(f, S \ {q}) + f[q]
<1> DEFINE g == [p \in Providers |-> IF p \in S THEN f[p] ELSE 0]
           e == [p \in Providers |-> IF p \in S \ {q} THEN f[p] ELSE 0]
<1>1. NumProviders \in Nat /\ g \in [1..NumProviders -> Int] /\ e \in [1..NumProviders -> Int]
  BY WorkflowAssumption DEF Providers
<1>2. q \in 1..NumProviders /\ g[q] = f[q] /\ e[q] = 0 /\ f[q] \in Int
  BY DEF Providers
<1>3. \A p \in 1..NumProviders : p # q => e[p] = g[p]
  BY DEF Providers
<1>4. TotalOf(f, S) = Total(g, NumProviders) /\ TotalOf(f, S \ {q}) = Total(e, NumProviders)
  BY DEF TotalOf
<1> HIDE DEF g, e
<1>5. Total(e, NumProviders) = Total(g, NumProviders) - g[q] + e[q]
  BY <1>1, <1>2, <1>3, TotalUpdate
<1>6. Total(g, NumProviders) \in Int
  BY <1>1, TotalInt
<1> QED BY <1>2, <1>4, <1>5, <1>6

LEMMA TotalOfUpdate ==
  ASSUME NEW f \in [Providers -> Nat], NEW e \in [Providers -> Nat], NEW q \in Providers,
         \A p \in Providers : p # q => e[p] = f[p]
  PROVE  TotalOf(e, Providers) = TotalOf(f, Providers) - f[q] + e[q]
<1>1. TotalOf(f, Providers) = TotalOf(f, Providers \ {q}) + f[q]
  BY TotalOfRemove
<1>2. TotalOf(e, Providers) = TotalOf(e, Providers \ {q}) + e[q]
  BY TotalOfRemove
<1>3. TotalOf(e, Providers \ {q}) = TotalOf(f, Providers \ {q})
  BY TotalOfSame
<1>4. TotalOf(f, Providers \ {q}) \in Nat /\ f[q] \in Nat /\ e[q] \in Nat
  BY TotalOfNat
<1> QED BY <1>1, <1>2, <1>3, <1>4

LEMMA TotalOfZero ==
  ASSUME NEW f, \A p \in Providers : f[p] = 0, NEW S
  PROVE  TotalOf(f, S) = 0
<1>1. [p \in Providers |-> IF p \in S THEN f[p] ELSE 0] = [i \in 1..NumProviders |-> 0]
  BY DEF Providers
<1>2. NumProviders \in Nat
  BY WorkflowAssumption
<1> QED BY <1>1, <1>2, TotalZero DEF TotalOf

LEMMA TotalOfMonotone ==
  ASSUME NEW f \in [Providers -> Nat], NEW e \in [Providers -> Nat], NEW S,
         \A p \in Providers : f[p] <= e[p]
  PROVE  TotalOf(f, S) <= TotalOf(e, S)
<1> DEFINE g == [p \in Providers |-> IF p \in S THEN f[p] ELSE 0]
           h == [p \in Providers |-> IF p \in S THEN e[p] ELSE 0]
<1>1. NumProviders \in Nat /\ g \in [1..NumProviders -> Int] /\ h \in [1..NumProviders -> Int]
  BY WorkflowAssumption DEF Providers
<1>2. \A p \in 1..NumProviders : g[p] <= h[p]
  BY DEF Providers
<1>3. TotalOf(f, S) = Total(g, NumProviders) /\ TotalOf(e, S) = Total(h, NumProviders)
  BY DEF TotalOf
<1> HIDE DEF g, h
<1> QED BY <1>1, <1>2, <1>3, TotalMonotone

(* A finite set of naturals has a largest element, and Max is one. *)
LEMMA MaxBounds ==
  ASSUME NEW S, S \subseteq Nat, IsFiniteSet(S), S # {}
  PROVE  Max(S) \in S /\ \A x \in S : x <= Max(S)
<1> DEFINE U == {u \in Nat : \A x \in S : x <= u}
<1>1. U # {}
  <2>1. PICK s : Cardinality(S) \in Nat /\ s \in Bijection(1..Cardinality(S), S)
    BY FS_CardinalityType DEF ExistsBijection
  <2> DEFINE n == Cardinality(S)
  <2>2. n \in Nat /\ s \in [1..n -> Nat] /\ \A x \in S : \E i \in 1..n : s[i] = x
    BY <2>1 DEF Bijection, Surjection, Injection
  <2> HIDE DEF n
  <2>3. Total(s, n) \in Nat /\ \A i \in 1..n : s[i] <= Total(s, n)
    BY <2>2, TotalBounds
  <2>4. Total(s, n) \in U
    BY <2>2, <2>3
  <2> QED BY <2>4
<1>2. PICK m \in U : \A k \in U : m <= k
  <2>1. U \subseteq Nat
    OBVIOUS
  <2> HIDE DEF U
  <2> QED BY <1>1, <2>1, LeastElement
<1>3. m \in S
  <2> SUFFICES ASSUME m \notin S PROVE FALSE
    OBVIOUS
  <2>1. \A x \in S : x <= m - 1 /\ x \in Nat
    BY <1>2
  <2>2. m - 1 \in U
    <3>1. PICK x \in S : x \in Nat
      OBVIOUS
    <3>2. m - 1 \in Nat
      BY <2>1, <3>1, <1>2
    <3> QED BY <2>1, <3>2
  <2>3. m <= m - 1
    BY <1>2, <2>2
  <2> QED BY <1>2, <2>3
<1>4. \E x \in S : \A y \in S : x >= y
  BY <1>2, <1>3
<1>5. Max(S) \in S /\ \A y \in S : Max(S) >= y
  <2> HIDE DEF U
  <2> QED BY <1>4 DEF Max
<1> QED BY <1>5

-----------------------------------------------------------------------------
(* The shares of a wave *)

Before(S, i) == Cardinality({q \in S : q <= i})

LEMMA BeforeType ==
  ASSUME NEW S \in SUBSET Providers
  PROVE  /\ \A i \in 0..NumProviders : Before(S, i) \in Nat
         /\ Before(S, 0) = 0
         /\ Before(S, NumProviders) = Cardinality(S)
         /\ \A i \in Providers :
              /\ Cardinality({q \in S : q < i}) = Before(S, i - 1)
              /\ Before(S, i) = Before(S, i - 1) + (IF i \in S THEN 1 ELSE 0)
<1>1. IsFiniteSet(Providers)
  BY WorkflowAssumption, FS_Interval DEF Providers
<1>2. \A P \in SUBSET Providers : IsFiniteSet(P) /\ Cardinality(P) \in Nat
  BY <1>1, FS_Subset, FS_CardinalityType
<1>3. \A i : {q \in S : q <= i} \in SUBSET Providers
  OBVIOUS
<1>4. \A i : Before(S, i) \in Nat
  BY <1>2, <1>3 DEF Before
<1>0. /\ \A q \in S : q \in Int /\ ~(q <= 0) /\ q <= NumProviders
      /\ \A q \in S : \A i \in Providers :
           /\ q < i <=> q <= i - 1
           /\ q <= i <=> q <= i - 1 \/ q = i
  BY WorkflowAssumption DEF Providers
<1>5. {q \in S : q <= 0} = {} /\ {q \in S : q <= NumProviders} = S
  BY <1>0
<1>6. Before(S, 0) = 0 /\ Before(S, NumProviders) = Cardinality(S)
  BY <1>5, FS_EmptySet DEF Before
<1>7. ASSUME NEW i \in Providers
      PROVE  /\ Cardinality({q \in S : q < i}) = Before(S, i - 1)
             /\ Before(S, i) = Before(S, i - 1) + (IF i \in S THEN 1 ELSE 0)
  <2> DEFINE A == {q \in S : q <= i - 1}
             B == {q \in S : q <= i}
  <2>1. {q \in S : q < i} = A
    BY <1>0
  <2>2. IsFiniteSet(A) /\ Cardinality(A) = Before(S, i - 1) /\ Cardinality(B) = Before(S, i)
    BY <1>2, <1>3 DEF Before
  <2>3. CASE i \in S
    <3>1. B = A \cup {i}
      BY <1>0, <2>3
    <3>2. i \notin A
      BY DEF Providers
    <3> HIDE DEF A, B
    <3>3. Cardinality(B) = Cardinality(A) + 1
      BY <2>2, <3>1, <3>2, FS_AddElement
    <3> QED BY <2>1, <2>2, <2>3, <3>3
  <2>4. CASE i \notin S
    <3>1. B = A
      BY <1>0, <2>4
    <3>2. Before(S, i - 1) \in Nat /\ Before(S, i - 1) + 0 = Before(S, i - 1)
      BY <1>4
    <3> HIDE DEF A, B
    <3> QED BY <2>1, <2>2, <2>4, <3>1, <3>2
  <2> QED BY <2>3, <2>4
<1> QED BY <1>4, <1>6, <1>7

(* The shares that fair_row_limits gives to its first c consumers add up to
   Given(b, m, c). *)
Given(b, m, c) == (b \div m) * c + (IF c < b % m THEN c ELSE b % m)

LEMMA GivenStep ==
  ASSUME NEW b \in Nat, NEW m \in Nat \ {0}, NEW c \in Nat
  PROVE  /\ Given(b, m, c) \in Nat
         /\ Given(b, m, 0) = 0
         /\ Given(b, m, m) = b
         /\ Given(b, m, c + 1) = Given(b, m, c) + (b \div m + (IF c < b % m THEN 1 ELSE 0))
<1>0. b \div m \in Nat /\ b % m \in Nat /\ b % m < m
  OBVIOUS
<1>1. b % m = b - m * (b \div m)
  <2>1. m > 0
    OBVIOUS
  <2> QED BY <2>1, Z3
<1> DEFINE d == b \div m
           r == b % m
<1>2. d \in Nat /\ r \in Nat /\ r < m /\ b = d * m + r
  <2>1. d \in Nat /\ r \in Nat /\ r < m /\ r = b - m * d
    BY <1>0, <1>1
  <2> HIDE DEF d, r
  <2>2. m * d = d * m /\ m * d \in Nat
    BY <2>1
  <2> DEFINE x == d * m
  <2>3. x \in Nat /\ r = b - x
    BY <2>1, <2>2
  <2> HIDE DEF x
  <2>4. b = x + r
    BY <2>1, <2>3
  <2> QED BY <2>1, <2>4 DEF x
<1>3. \A x : Given(b, m, x) = d * x + (IF x < r THEN x ELSE r)
  BY DEF Given
<1> HIDE DEF d, r
<1>4. d * c \in Nat /\ d * 0 = 0 /\ d * (c + 1) = d * c + d /\ d * m \in Nat
  BY <1>2
<1> DEFINE x == d * c
           y == d * (c + 1)
<1>5. y = x + d /\ x \in Nat
  BY <1>4
<1>6. Given(b, m, c) = x + (IF c < r THEN c ELSE r)
  BY <1>3
<1>7. Given(b, m, c + 1) = y + (IF c + 1 < r THEN c + 1 ELSE r)
  BY <1>3
<1> HIDE DEF x, y
<1>8. Given(b, m, c) \in Nat
  BY <1>2, <1>5, <1>6
<1>9. Given(b, m, c + 1) = Given(b, m, c) + (d + (IF c < r THEN 1 ELSE 0))
  BY <1>2, <1>5, <1>6, <1>7
<1>10. Given(b, m, 0) = 0 /\ Given(b, m, m) = b
  <2>1. ~(m < r) /\ (0 < r \/ r = 0)
    BY <1>2
  <2> QED BY <1>2, <1>3, <1>4, <2>1
<1> QED BY <1>8, <1>9, <1>10 DEF d, r

(* fair_row_limits: the shares of the providers that wait add up to the whole
   budget, and unless there are more of them than rows, each is at least one. *)
LEMMA FairSum ==
  ASSUME pending \in SUBSET Providers, pending # {}, budget \in Nat
  PROVE  /\ \A p \in pending : FairLimit(p) \in Nat
         /\ \A p \in pending : Cardinality(pending) <= budget => FairLimit(p) # 0
         /\ TotalOf([p \in Providers |-> IF p \in pending THEN FairLimit(p) ELSE 0], Providers) = budget
<1> DEFINE m == Cardinality(pending)
           b == budget
           c(i) == Before(pending, i)
           share(p) == b \div m + (IF c(p - 1) < b % m THEN 1 ELSE 0)
<1>1. m \in Nat \ {0}
  <2>0. IsFiniteSet(Providers)
    BY WorkflowAssumption, FS_Interval DEF Providers
  <2>1. IsFiniteSet(pending)
    BY <2>0, FS_Subset
  <2> QED BY <2>1, FS_CardinalityType, FS_EmptySet
<1>2. \A i \in Providers : i \in Nat /\ i - 1 \in 0..NumProviders /\ i \in 0..NumProviders
  BY WorkflowAssumption DEF Providers
<1>3. /\ \A i \in 0..NumProviders : c(i) \in Nat
      /\ c(0) = 0 /\ c(NumProviders) = m
      /\ \A i \in Providers : c(i) = c(i - 1) + (IF i \in pending THEN 1 ELSE 0)
  BY BeforeType
<1>4. \A p \in pending : FairLimit(p) = share(p)
  <2>1. \A p \in pending : Cardinality({q \in pending : q < p}) = c(p - 1)
    BY BeforeType
  <2> QED BY <2>1 DEF FairLimit
<1> DEFINE f == [p \in Providers |-> IF p \in pending THEN FairLimit(p) ELSE 0]
           g == [i \in 0..NumProviders |-> Given(b, m, c(i))]
<1>5. b \in Nat
  OBVIOUS
<1>6. b \div m \in Nat
  <2> HIDE DEF b, m
  <2> QED BY <1>1, <1>5
<1>7. \A p \in pending : share(p) \in Nat
  <2> HIDE DEF b, m, c
  <2> QED BY <1>6
<1>8. m <= b => b \div m # 0
  <2> HIDE DEF b, m, c
  <2> QED BY <1>1, <1>5
<1>9. \A p \in pending : m <= b => share(p) # 0
  <2> HIDE DEF b, m, c
  <2> QED BY <1>6, <1>8
<1>10. f \in [1..NumProviders -> Int]
  BY <1>4, <1>7 DEF Providers
<1>11. ASSUME NEW i \in 0..NumProviders
       PROVE  g[i] = (IF i = 0 THEN 0 ELSE g[i - 1] + f[i])
  <2>1. CASE i = 0
    <3>1. g[i] = Given(b, m, c(i)) /\ c(i) = 0
      BY <1>3, <2>1
    <3>2. Given(b, m, 0) = 0
      <4> HIDE DEF b, m
      <4> QED BY <1>1, <1>5, GivenStep
    <3> QED BY <2>1, <3>1, <3>2
  <2>2. CASE i # 0
    <3>1. i \in Providers /\ i - 1 \in 0..NumProviders
      BY <2>2, WorkflowAssumption DEF Providers
    <3>2. g[i] = Given(b, m, c(i)) /\ g[i - 1] = Given(b, m, c(i - 1)) /\ c(i - 1) \in Nat
      BY <1>3, <3>1
    <3>3. Given(b, m, c(i - 1)) \in Nat
      <4> HIDE DEF b, m, c
      <4> QED BY <1>1, <1>5, <3>2, GivenStep
    <3>4. CASE i \in pending
      <4>1. f[i] = share(i) /\ c(i) = c(i - 1) + 1
        BY <1>3, <1>4, <3>1, <3>4
      <4>2. Given(b, m, c(i - 1) + 1) = Given(b, m, c(i - 1)) + share(i)
        <5> HIDE DEF b, m, c
        <5> QED BY <1>1, <1>5, <3>2, GivenStep
      <4> HIDE DEF b, m, c, f, g, share
      <4> QED BY <2>2, <3>2, <4>1, <4>2
    <3>5. CASE i \notin pending
      <4>1. f[i] = 0 /\ c(i) = c(i - 1)
        BY <1>3, <3>1, <3>2, <3>5
      <4> HIDE DEF b, m, c, f, g
      <4> QED BY <2>2, <3>2, <3>3, <4>1
    <3> QED BY <3>4, <3>5
  <2> QED BY <2>1, <2>2
<1>12. IsPartial(g, f, NumProviders)
  BY <1>11 DEF IsPartial
<1>13. Total(f, NumProviders) = b
  <2>1. g[NumProviders] = Given(b, m, c(NumProviders))
    BY WorkflowAssumption
  <2>2. Given(b, m, m) = b
    <3> HIDE DEF b, m
    <3> QED BY <1>1, <1>5, GivenStep
  <2> HIDE DEF f, g
  <2>3. Total(f, NumProviders) = g[NumProviders]
    BY <1>10, <1>12, TotalIsPartial, WorkflowAssumption
  <2> QED BY <1>3, <2>1, <2>2, <2>3
<1>14. TotalOf(f, Providers) = Total(f, NumProviders)
  <2>1. [p \in Providers |-> IF p \in Providers THEN f[p] ELSE 0] = f
    OBVIOUS
  <2> QED BY <2>1 DEF TotalOf
<1> QED BY <1>4, <1>7, <1>9, <1>13, <1>14

(* Budgets stay within the largest. *)
LEMMA MaxRowsType ==
  MaxRows \in Nat /\ \A b \in RowBudgets : b \in Nat /\ b <= MaxRows
BY WorkflowAssumption, MaxBounds DEF MaxRows

-----------------------------------------------------------------------------
(* The step of a file's task *)

(* A step of f moves nothing of another file or provider, loses no claim, and
   leaves a reason behind when f ends. *)
ClaimedBy(f) == got[f] # 0 \/ left[f] < Rows[f] \/ f \in refused \/ task[f] = "failed"

FileFrame(f) ==
  /\ task[f] \notin Ended
  /\ UNCHANGED <<phase, preparing, wave, outcome>>
  /\ \A g \in Files : g # f =>
       /\ task'[g] = task[g] /\ left'[g] = left[g]
       /\ got'[g] = got[g] /\ sent'[g] = sent[g]
       /\ g \in refused' <=> g \in refused
  /\ left'[f] <= left[f] /\ refused \subseteq refused'
  /\ \/ claimed' = claimed
     \/ ~AllClaimed(f) /\ claimed' = [claimed EXCEPT ![Own(f)] = @ + 1] /\ got'[f] # 0

FileTypes ==
  /\ left' \in [Files -> Nat] /\ got' \in [Files -> Nat] /\ sent' \in [Files -> Nat]
  /\ \A g \in Files : sent'[g] <= got'[g] /\ got'[g] <= left'[g]
  /\ task' \in [Files -> {"none", "begin", "queued", "producing", "uploading", "done", "failed"}]
  /\ refused' \subseteq Files
  /\ meta' \in Nat /\ data' \in Nat /\ failures' \in 0..MaxFailures

FileReasons(f) ==
  /\ got'[f] # 0 => task'[f] \in {"producing", "uploading"}
  /\ task'[f] # "none"
  /\ task'[f] = "uploading" /\ f \notin refused' => ~Claimable(f)'
  /\ task'[f] = "done" /\ f \notin refused' /\ left'[f] # 0
       => AllClaimed(f)' \/ left'[f] < Rows[f]
  /\ ClaimedBy(f) => ClaimedBy(f)'

HeldMoves(f) ==
  \/ held' = held /\ (task[f] \in Active <=> task'[f] \in Active)
  \/ held' = held + 1 /\ task[f] \notin Active /\ task'[f] \in Active
  \/ held' = held - 1 /\ task[f] \in Active /\ task'[f] \notin Active

FileStep(f) == FileFrame(f) /\ FileTypes /\ FileReasons(f) /\ HeldMoves(f)

LEMMA HeldStep ==
  ASSUME TypeOK, HeldIsActive, NEW f \in Files, FileStep(f)
  PROVE  HeldIsActive' /\ held' \in 0..Cardinality(Files)
<1> DEFINE A == {g \in Files : task[g] \in Active}
           B == {g \in Files : task'[g] \in Active}
<1>1. /\ IsFiniteSet(Files) /\ \A S \in SUBSET Files : /\ IsFiniteSet(S) /\ Cardinality(S) \in Nat
                                                      /\ Cardinality(S) <= Cardinality(Files)
  BY WorkflowAssumption, FS_Subset, FS_CardinalityType
<1>2. IsFiniteSet(A) /\ held = Cardinality(A) /\ held \in Nat
  BY <1>1 DEF HeldIsActive
<1>3. \A g \in Files : g # f => (g \in A <=> g \in B)
  BY DEF FileStep, FileFrame
<1>4. HeldMoves(f)
  BY DEF FileStep
<1>5. held' = Cardinality(B)
  <2>1. CASE held' = held /\ (task[f] \in Active <=> task'[f] \in Active)
    <3>1. A = B
      BY <1>3, <2>1
    <3> HIDE DEF A, B
    <3> QED BY <1>2, <2>1, <3>1
  <2>2. CASE held' = held + 1 /\ task[f] \notin Active /\ task'[f] \in Active
    <3>1. B = A \cup {f} /\ f \notin A
      BY <1>3, <2>2
    <3> HIDE DEF A, B
    <3>2. Cardinality(B) = Cardinality(A) + 1
      BY <1>2, <3>1, FS_AddElement
    <3> QED BY <1>2, <2>2, <3>2
  <2>3. CASE held' = held - 1 /\ task[f] \in Active /\ task'[f] \notin Active
    <3>1. B = A \ {f} /\ f \in A
      BY <1>3, <2>3
    <3> HIDE DEF A, B
    <3>2. Cardinality(B) = Cardinality(A) - 1
      BY <1>2, <3>1, FS_RemoveElement
    <3> QED BY <1>2, <2>3, <3>2
  <2> QED BY <1>4, <2>1, <2>2, <2>3 DEF HeldMoves
<1>6. B \in SUBSET Files
  OBVIOUS
<1>7. held' \in 0..Cardinality(Files)
  <2> HIDE DEF B
  <2> QED BY <1>1, <1>5, <1>6
<1> QED BY <1>5, <1>7 DEF HeldIsActive

(* Only a provider that runs has tasks, so a step of a file is in a wave. *)
LEMMA FileRuns ==
  ASSUME TypeOK, WaveShape, NEW f \in Files, task[f] \notin Ended
  PROVE  /\ Own(f) \in Providers /\ Own(f) \in running /\ phase = "running"
         /\ \A g \in Files : Own(g) \in Providers
<1>1. \A g \in Files : Own(g) \in Providers
  BY WorkflowAssumption DEF Own
<1> QED BY <1>1 DEF WaveShape

LEMMA FileKeepsRows ==
  ASSUME TypeOK, WaveShape, RowsShared, NEW f \in Files, FileStep(f)
  PROVE  /\ RowsShared' /\ claimed' \in [Providers -> 0..MaxRows]
         /\ \A p \in Providers : claimed[p] <= claimed'[p]
         /\ \A p \in Providers : claimed'[p] # claimed[p] => p = Own(f) /\ got'[f] # 0
<1>1. limit' = limit /\ running' = running /\ budget' = budget /\ processed' = processed /\ phase' = phase
  BY DEF FileStep, FileFrame, wave
<1>2. Own(f) \in Providers
  BY FileRuns DEF FileStep, FileFrame
<1>3. \A p \in Providers : claimed[p] \in Nat /\ limit[p] \in Nat /\ limit[p] <= MaxRows
                            /\ claimed[p] <= limit[p]
  BY DEF TypeOK, RowsShared
<1>4. /\ claimed' \in [Providers -> Nat]
      /\ \A p \in Providers : claimed[p] <= claimed'[p] /\ claimed'[p] <= limit[p]
      /\ \A p \in Providers : claimed'[p] # claimed[p] => p = Own(f) /\ got'[f] # 0
  <2>1. CASE claimed' = claimed
    BY <1>3, <2>1 DEF TypeOK
  <2>2. CASE ~AllClaimed(f) /\ claimed' = [claimed EXCEPT ![Own(f)] = @ + 1] /\ got'[f] # 0
    <3>1. claimed \in [Providers -> Nat]
      BY <1>3 DEF TypeOK
    <3>2. claimed' \in [Providers -> Nat]
      BY <1>2, <2>2, <3>1
    <3>3. ASSUME NEW p \in Providers
          PROVE  claimed[p] <= claimed'[p] /\ claimed'[p] <= limit[p]
      <4>1. CASE p = Own(f)
        BY <1>3, <2>2, <3>1, <4>1 DEF AllClaimed
      <4>2. CASE p # Own(f)
        BY <1>3, <2>2, <3>1, <4>2
      <4> QED BY <4>1, <4>2
    <3>4. \A p \in Providers : claimed'[p] # claimed[p] => p = Own(f) /\ got'[f] # 0
      BY <1>2, <2>2, <3>1
    <3> QED BY <3>2, <3>3, <3>4
  <2> QED BY <2>1, <2>2 DEF FileStep, FileFrame
<1>5. MaxRows \in Int => claimed' \in [Providers -> 0..MaxRows]
  BY <1>3, <1>4
<1>6. MaxRows \in Int
  BY MaxRowsType
<1> QED BY <1>1, <1>4, <1>5, <1>6 DEF RowsShared

LEMMA FileKeepsShape ==
  ASSUME TypeOK, WaveShape, RowsShared, FilesShape, NEW f \in Files, FileStep(f)
  PROVE  FilesShape'
<1>1. limit' = limit /\ running' = running /\ phase' = phase
  BY DEF FileStep, FileFrame, wave
<1>2. /\ Own(f) \in running /\ \A g \in Files : Own(g) \in Providers
  BY FileRuns DEF FileStep, FileFrame
<1>3. /\ \A p \in Providers : claimed[p] <= claimed'[p]
      /\ \A p \in Providers : claimed[p] \in Nat /\ claimed'[p] \in Nat /\ limit[p] \in Nat
      /\ \A p \in Providers : claimed'[p] # claimed[p] => p = Own(f) /\ got'[f] # 0
  BY FileKeepsRows, MaxRowsType DEF TypeOK
<1>4. \A g \in Files : AllClaimed(g) => AllClaimed(g)'
  BY <1>1, <1>2, <1>3 DEF AllClaimed, Own
<1>5. \A g \in Files : g # f =>
        /\ task'[g] = task[g] /\ left'[g] = left[g] /\ got'[g] = got[g]
        /\ g \in refused' <=> g \in refused
  BY DEF FileStep, FileFrame
<1>6. FileReasons(f)
  BY DEF FileStep
<1>7. \A g \in Files : got'[g] # 0 => task'[g] \in {"producing", "uploading"}
  BY <1>5, <1>6 DEF FilesShape, FileReasons
<1>8. \A g \in Files : Own(g) \in running /\ task'[g] = "none" => left'[g] = 0
  BY <1>5, <1>6 DEF FilesShape, FileReasons
<1>9. ASSUME NEW g \in Files, task'[g] = "uploading", g \notin refused'
      PROVE  ~Claimable(g)'
  <2>1. CASE g = f
    BY <1>6, <1>9, <2>1 DEF FileReasons
  <2>2. CASE g # f
    <3>1. ~Claimable(g)
      BY <1>5, <1>9, <2>2 DEF FilesShape
    <3> QED BY <1>4, <1>5, <2>2, <3>1 DEF Claimable
  <2> QED BY <2>1, <2>2
<1>10. ASSUME NEW g \in Files, task'[g] = "done", g \notin refused', left'[g] # 0, Own(g) \in running
       PROVE  AllClaimed(g)' \/ left'[g] < Rows[g]
  <2>1. CASE g = f
    BY <1>6, <1>10, <2>1 DEF FileReasons
  <2>2. CASE g # f
    BY <1>4, <1>5, <1>10, <2>2 DEF FilesShape
  <2> QED BY <2>1, <2>2
<1>11. ASSUME NEW p \in Providers, claimed'[p] # 0
       PROVE  Claimer(p)'
  <2>1. \A q : Claimer(q) <=> \E g \in FilesOf(q) : ClaimedBy(g)
    BY DEF Claimer, ClaimedBy
  <2>2. \A q : Claimer(q)' <=> \E g \in FilesOf(q) : ClaimedBy(g)'
    BY DEF Claimer, ClaimedBy, FilesOf
  <2>3. \A g \in Files : ClaimedBy(g) => ClaimedBy(g)'
    BY <1>5, <1>6 DEF ClaimedBy, FileReasons
  <2>4. CASE claimed[p] # 0
    BY <2>1, <2>2, <2>3, <2>4 DEF FilesShape, FilesOf
  <2>5. CASE claimed[p] = 0
    <3>1. p = Own(f) /\ got'[f] # 0
      BY <1>3, <1>11, <2>5
    <3>2. f \in FilesOf(p) /\ ClaimedBy(f)'
      BY <3>1 DEF FilesOf, Own, ClaimedBy
    <3> QED BY <2>2, <3>2
  <2> QED BY <2>4, <2>5
<1> QED BY <1>1, <1>7, <1>8, <1>9, <1>10, <1>11 DEF FilesShape, Own

LEMMA FileKeeps ==
  ASSUME IInv, NEW f \in Files, FileStep(f)
  PROVE  IInv'
<1>1. TypeOK /\ HeldIsActive /\ StorageCounted /\ FeedsWhere /\ WaveShape /\ RowsShared
      /\ FilesShape /\ Serving
  BY DEF IInv
<1>2. /\ phase' = phase /\ prepared' = prepared /\ used_bytes' = used_bytes /\ stored' = stored
      /\ stuck' = stuck /\ orphaned' = orphaned
      /\ pending' = pending /\ running' = running /\ limit' = limit /\ budget' = budget
      /\ processed' = processed /\ has_error' = has_error /\ exhausted' = exhausted
  BY DEF FileStep, FileFrame, preparing, storage, wave, outcome
<1>3. HeldIsActive' /\ held' \in 0..Cardinality(Files)
  BY <1>1, HeldStep
<1>4. RowsShared' /\ claimed' \in [Providers -> 0..MaxRows]
  BY <1>1, FileKeepsRows
<1>5. FilesShape'
  BY <1>1, FileKeepsShape
<1>6. \A g \in Files : left'[g] <= left[g]
  BY <1>1 DEF FileStep, FileFrame, TypeOK
<1>7. \A g \in Files : left[g] \in Nat /\ left'[g] \in Nat /\ Rows[g] \in Nat /\ left[g] <= Rows[g]
  BY <1>1, WorkflowAssumption DEF FileStep, FileTypes, TypeOK
<1>8. TypeOK'
  <2>1. \A g \in Files : left'[g] <= Rows[g]
    BY <1>6, <1>7
  <2> QED BY <1>1, <1>2, <1>3, <1>4, <2>1 DEF TypeOK, FileStep, FileTypes
<1>9. StorageCounted' /\ FeedsWhere'
  BY <1>1, <1>2 DEF StorageCounted, FeedsWhere, TotalOf
<1>10. WaveShape'
  <2>1. \A g \in Files : task'[g] \notin Ended => Own(g) \in running
    <3>1. Own(f) \in running
      BY <1>1, FileRuns DEF FileStep, FileFrame
    <3> QED BY <1>1, <3>1 DEF WaveShape, FileStep, FileFrame
  <2> QED BY <1>1, <1>2, <2>1 DEF WaveShape, With, FilesOf, Own
<1>11. Serving'
  <2>1. \A p : Served(p) => Served(p)'
    BY <1>6, <1>7 DEF Served, FilesOf
  <2>2. With("ready")' = With("ready")
    BY <1>2 DEF With
  <2>3. AllServed => AllServed'
    BY <2>1, <2>2 DEF AllServed
  <2> QED BY <1>1, <1>2, <2>1, <2>2, <2>3 DEF Serving
<1> QED BY <1>3, <1>4, <1>5, <1>8, <1>9, <1>10, <1>11 DEF IInv

(* Every step of a file's task is such a step; FileFacts has the types that
   they all need. *)
LEMMA FileFacts ==
  ASSUME TypeOK, NEW f \in Files
  PROVE  /\ task \in [Files -> {"none", "begin", "queued", "producing", "uploading", "done", "failed"}]
         /\ left \in [Files -> Nat] /\ got \in [Files -> Nat] /\ sent \in [Files -> Nat]
         /\ \A g \in Files : /\ sent[g] <= got[g] /\ got[g] <= left[g] /\ left[g] <= Rows[g]
                              /\ left[g] \in Nat /\ got[g] \in Nat /\ sent[g] \in Nat /\ Rows[g] \in Nat
         /\ refused \subseteq Files /\ meta \in Nat /\ data \in Nat /\ held \in Int
         /\ failures \in 0..MaxFailures /\ MaxFailures \in Nat
         /\ claimed \in [Providers -> Nat] /\ limit \in [Providers -> Nat] /\ Own(f) \in Providers
<1>1. MaxRows \in Nat
  BY MaxRowsType
<1>2. claimed \in [Providers -> Nat] /\ limit \in [Providers -> Nat]
  BY <1>1 DEF TypeOK
<1>3. Own(f) \in Providers
  BY WorkflowAssumption DEF Own
<1>4. held \in Int
  <2>1. Cardinality(Files) \in Nat
    BY WorkflowAssumption, FS_CardinalityType
  <2> QED BY <2>1 DEF TypeOK
<1>5. MaxFailures \in Nat /\ \A g \in Files : Rows[g] \in Nat
  BY WorkflowAssumption
<1> QED BY <1>2, <1>3, <1>4, <1>5 DEF TypeOK

LEMMA NothingToClaimStep ==
  ASSUME TypeOK, FilesShape, NEW f \in Files, NothingToClaim(f)
  PROVE  FileStep(f)
<1> USE FileFacts
<1>1. FileFrame(f)
  BY DEF NothingToClaim, Move, FileFrame, Ended
<1>2. FileTypes
  BY DEF NothingToClaim, Move, FileTypes, budgets
<1>3. FileReasons(f)
  BY <1>1 DEF NothingToClaim, Move, FileReasons, FilesShape, ClaimedBy, AllClaimed, wave
<1>4. HeldMoves(f)
  BY DEF NothingToClaim, Move, HeldMoves, Active, budgets
<1> QED BY <1>1, <1>2, <1>3, <1>4 DEF FileStep

LEMMA ReserveCheckpointStep ==
  ASSUME TypeOK, FilesShape, NEW f \in Files, ReserveCheckpoint(f)
  PROVE  FileStep(f)
<1> USE FileFacts
<1>1. FileFrame(f)
  BY DEF ReserveCheckpoint, Move, FileFrame, Ended
<1>2. FileTypes
  BY DEF ReserveCheckpoint, Move, FileTypes, Covers, CheckpointWrites
<1>3. FileReasons(f)
  BY <1>1 DEF ReserveCheckpoint, Move, FileReasons, FilesShape, ClaimedBy
<1>4. HeldMoves(f)
  BY DEF ReserveCheckpoint, Move, HeldMoves, Active
<1> QED BY <1>1, <1>2, <1>3, <1>4 DEF FileStep

LEMMA RefuseCheckpointStep ==
  ASSUME TypeOK, FilesShape, NEW f \in Files, RefuseCheckpoint(f)
  PROVE  FileStep(f)
<1> USE FileFacts
<1>1. FileFrame(f)
  BY DEF RefuseCheckpoint, Move, FileFrame, Ended
<1>2. FileTypes
  BY DEF RefuseCheckpoint, Move, FileTypes, budgets
<1>3. FileReasons(f)
  BY <1>1 DEF RefuseCheckpoint, Move, FileReasons, FilesShape, ClaimedBy
<1>4. HeldMoves(f)
  BY DEF RefuseCheckpoint, Move, HeldMoves, Active, budgets
<1> QED BY <1>1, <1>2, <1>3, <1>4 DEF FileStep

LEMMA TakePermitStep ==
  ASSUME TypeOK, FilesShape, NEW f \in Files, TakePermit(f)
  PROVE  FileStep(f)
<1> USE FileFacts
<1>1. FileFrame(f)
  BY DEF TakePermit, Move, FileFrame, Ended
<1>2. FileTypes
  BY DEF TakePermit, Move, FileTypes, budgets
<1>3. FileReasons(f)
  BY <1>1 DEF TakePermit, Move, FileReasons, ClaimedBy
<1>4. HeldMoves(f)
  BY DEF TakePermit, Move, HeldMoves, Active, budgets
<1> QED BY <1>1, <1>2, <1>3, <1>4 DEF FileStep

LEMMA ClaimRowStep ==
  ASSUME TypeOK, FilesShape, NEW f \in Files, ClaimRow(f)
  PROVE  FileStep(f)
<1> USE FileFacts
<1>1. FileFrame(f)
  BY DEF ClaimRow, FileFrame, Ended, Claimable
<1>2. FileTypes
  BY DEF ClaimRow, FileTypes, Claimable, budgets
<1>3. FileReasons(f)
  BY <1>1 DEF ClaimRow, FileReasons, ClaimedBy, Claimable
<1>4. HeldMoves(f)
  BY DEF ClaimRow, HeldMoves, budgets
<1> QED BY <1>1, <1>2, <1>3, <1>4 DEF FileStep

LEMMA StopProducingStep ==
  ASSUME TypeOK, FilesShape, NEW f \in Files, StopProducing(f)
  PROVE  FileStep(f)
<1> USE FileFacts
<1>1. FileFrame(f)
  BY DEF StopProducing, Move, FileFrame, Ended
<1>2. FileTypes
  BY DEF StopProducing, Move, FileTypes, budgets
<1>3. FileReasons(f)
  BY <1>1 DEF StopProducing, Move, FileReasons, ClaimedBy, AllClaimed, Claimable, wave
<1>4. HeldMoves(f)
  BY DEF StopProducing, Move, HeldMoves, Active, budgets
<1> QED BY <1>1, <1>2, <1>3, <1>4 DEF FileStep

LEMMA CommitRowStep ==
  ASSUME TypeOK, FilesShape, NEW f \in Files, CommitRow(f)
  PROVE  FileStep(f)
<1> USE FileFacts
<1>1. FileFrame(f)
  BY DEF CommitRow, FileFrame, Ended, Uploading
<1>2. FileTypes
  BY DEF CommitRow, FileTypes, Uploading
<1>3. FileReasons(f)
  BY <1>1 DEF CommitRow, FileReasons, FilesShape, ClaimedBy, Claimable, AllClaimed, Uploading, wave
<1>4. HeldMoves(f)
  BY DEF CommitRow, HeldMoves
<1> QED BY <1>1, <1>2, <1>3, <1>4 DEF FileStep

LEMMA RefuseRowStep ==
  ASSUME TypeOK, FilesShape, NEW f \in Files, RefuseRow(f)
  PROVE  FileStep(f)
<1> USE FileFacts
<1>1. FileFrame(f)
  BY DEF RefuseRow, FileFrame, Ended, Uploading
<1>2. FileTypes
  BY DEF RefuseRow, FileTypes, budgets
<1>3. FileReasons(f)
  BY <1>1 DEF RefuseRow, FileReasons, ClaimedBy, Uploading
<1>4. HeldMoves(f)
  BY DEF RefuseRow, HeldMoves, budgets
<1> QED BY <1>1, <1>2, <1>3, <1>4 DEF FileStep

LEMMA SaveFileStep ==
  ASSUME TypeOK, FilesShape, NEW f \in Files, NEW rows \in 0..sent[f],
         NEW writes \in 0..CheckpointWrites, SaveFile(f, rows, writes)
  PROVE  FileStep(f)
<1> USE FileFacts
<1>1. FileFrame(f)
  BY DEF SaveFile, Move, FileFrame, Ended
<1>2. FileTypes
  BY DEF SaveFile, Move, FileTypes, CheckpointWrites
<1>3. FileReasons(f)
  BY <1>1 DEF SaveFile, Move, FileReasons, FilesShape, ClaimedBy, Claimable, AllClaimed, wave
<1>4. HeldMoves(f)
  BY DEF SaveFile, Move, HeldMoves, Active
<1> QED BY <1>1, <1>2, <1>3, <1>4 DEF FileStep

LEMMA FailFileStep ==
  ASSUME TypeOK, FilesShape, NEW f \in Files, NEW rows \in 0..sent[f],
         NEW back \in 0..CheckpointWrites, FailFile(f, rows, back)
  PROVE  FileStep(f)
<1> USE FileFacts
<1>1. FileFrame(f)
  BY DEF FailFile, FileFrame, Ended
<1>2. FileTypes
  BY DEF FailFile, FileTypes, Failure
<1>3. FileReasons(f)
  BY <1>1 DEF FailFile, FileReasons, ClaimedBy
<1>4. HeldMoves(f)
  BY DEF FailFile, HeldMoves, Active
<1> QED BY <1>1, <1>2, <1>3, <1>4 DEF FileStep

-----------------------------------------------------------------------------
(* Storage *)

(* What goes with dropped feeds is what was reserved for them, except for what
   stays on disk with a file that cannot be removed. *)
LEMMA DropKeeps ==
  ASSUME TypeOK, StorageCounted, NEW S \in SUBSET Providers, Drop(S)
  PROVE  /\ StorageCounted'
         /\ stored' \in [Providers -> Nat] /\ used_bytes' \in Nat /\ orphaned' \in Nat
         /\ stuck' \subseteq Providers
         /\ \A p \in Providers : stored'[p] = (IF p \in S THEN 0 ELSE stored[p])
<1>1. stored \in [Providers -> Nat] /\ orphaned \in Nat /\ used_bytes \in Nat /\ stuck \subseteq Providers
  BY DEF TypeOK
<1>2. /\ stored' = [p \in Providers |-> IF p \in S THEN 0 ELSE stored[p]]
      /\ used_bytes' = used_bytes - TotalOf(stored, Released(S))
      /\ orphaned' = orphaned + TotalOf(stored, S \cap stuck)
      /\ stuck' = stuck
  BY DEF Drop
<1>3. stored' \in [Providers -> Nat]
  BY <1>1, <1>2
<1>4. TotalOf(stored, Providers) = TotalOf(stored, Providers \ S) + TotalOf(stored, S)
  <2>1. (Providers \ S) \cap S = {} /\ (Providers \ S) \cup S = Providers
    OBVIOUS
  <2> QED BY <1>1, <2>1, TotalOfSplit
<1>5. TotalOf(stored, S) = TotalOf(stored, Released(S)) + TotalOf(stored, S \cap stuck)
  <2>1. Released(S) \cap (S \cap stuck) = {} /\ Released(S) \cup (S \cap stuck) = S
    BY DEF Released
  <2> QED BY <1>1, <2>1, TotalOfSplit
<1>6. TotalOf(stored', Providers) = TotalOf(stored, Providers \ S)
  BY <1>2, TotalOfSame
<1>7. /\ TotalOf(stored, Providers) \in Nat /\ TotalOf(stored, Providers \ S) \in Nat
      /\ TotalOf(stored, Released(S)) \in Nat /\ TotalOf(stored, S \cap stuck) \in Nat
  BY <1>1, TotalOfNat
<1>8. used_bytes = TotalOf(stored, Providers) + orphaned /\ used_bytes <= StorageLimit
      /\ StorageLimit \in Nat
  BY WorkflowAssumption DEF StorageCounted
<1>9. orphaned' \in Nat
  BY <1>1, <1>2, <1>7
<1>10. /\ used_bytes' = TotalOf(stored', Providers) + orphaned'
       /\ used_bytes' \in Nat /\ used_bytes' <= StorageLimit
  BY <1>1, <1>2, <1>4, <1>5, <1>6, <1>7, <1>8
<1>11. StorageCounted'
  BY <1>10 DEF StorageCounted, TotalOf, Providers
<1> QED BY <1>1, <1>2, <1>3, <1>9, <1>10, <1>11

-----------------------------------------------------------------------------
(* Preparing *)

(* While providers are prepared, no task and no wave exist. *)
PrepareStep(p) ==
  /\ Downloading(p)
  /\ UNCHANGED <<phase, wave, tasks, budgets, outcome>>
  /\ StorageCounted'
  /\ stored' \in [Providers -> Nat] /\ used_bytes' \in Nat /\ orphaned' \in Nat
  /\ stuck' \subseteq Providers /\ failures' \in 0..MaxFailures
  /\ prepared' \in [Providers -> {"downloading", "ready", "skipped", "failed"}]
  /\ \A q \in Providers : q # p => prepared'[q] = prepared[q] /\ stored'[q] = stored[q]
  /\ prepared'[p] \in {"skipped", "failed"} => stored'[p] = 0
  /\ prepared'[p] = "ready" => stored'[p] # 0 /\ FilesOf(p) # {}

LEMMA PreparedStep ==
  ASSUME TypeOK, StorageCounted, NEW p \in Providers, NEW result \in {"skipped", "failed"},
         Prepared(p, result), failures' \in 0..MaxFailures
  PROVE  PrepareStep(p)
<1>1. Drop({p})
  BY DEF Prepared
<1>2. {p} \in SUBSET Providers
  OBVIOUS
<1>3. /\ StorageCounted'
      /\ stored' \in [Providers -> Nat] /\ used_bytes' \in Nat /\ orphaned' \in Nat
      /\ stuck' \subseteq Providers
      /\ \A q \in Providers : stored'[q] = (IF q \in {p} THEN 0 ELSE stored[q])
  BY <1>1, <1>2, DropKeeps
<1>4. prepared \in [Providers -> {"downloading", "ready", "skipped", "failed"}]
  BY DEF TypeOK
<1> QED BY <1>3, <1>4 DEF Prepared, PrepareStep

LEMMA ReadyStep ==
  ASSUME TypeOK, StorageCounted, NEW p \in Providers, Ready(p)
  PROVE  PrepareStep(p)
<1>1. prepared \in [Providers -> {"downloading", "ready", "skipped", "failed"}]
  BY DEF TypeOK
<1>2. StorageCounted'
  BY DEF Ready, Prepared, storage, StorageCounted, TotalOf
<1> QED BY <1>1, <1>2 DEF Ready, Prepared, storage, PrepareStep, TypeOK

LEMMA ReserveChunkStep ==
  ASSUME TypeOK, StorageCounted, NEW p \in Providers, ReserveChunk(p)
  PROVE  PrepareStep(p)
<1>1. /\ stored \in [Providers -> Nat] /\ used_bytes \in Nat /\ orphaned \in Nat
      /\ prepared \in [Providers -> {"downloading", "ready", "skipped", "failed"}]
      /\ StorageLimit \in Nat
  BY WorkflowAssumption DEF TypeOK
<1>2. /\ used_bytes' = used_bytes + 1 /\ used_bytes < StorageLimit /\ orphaned' = orphaned
      /\ stored' = [stored EXCEPT ![p] = @ + 1]
  BY DEF ReserveChunk, HasRoom
<1>3. stored' \in [Providers -> Nat] /\ stored'[p] = stored[p] + 1
      /\ \A q \in Providers : q # p => stored'[q] = stored[q]
  BY <1>1, <1>2
<1>4. TotalOf(stored', Providers) = TotalOf(stored, Providers) - stored[p] + stored'[p]
  BY <1>1, <1>3, TotalOfUpdate
<1>5. TotalOf(stored, Providers) \in Nat /\ stored[p] \in Nat
  BY <1>1, TotalOfNat
<1>6. TotalOf(stored', Providers) = TotalOf(stored, Providers) + 1
  BY <1>3, <1>4, <1>5
<1>7. used_bytes' = TotalOf(stored', Providers) + orphaned' /\ used_bytes' <= StorageLimit
  BY <1>1, <1>2, <1>5, <1>6 DEF StorageCounted
<1>8. StorageCounted'
  BY <1>7 DEF StorageCounted, TotalOf, Providers
<1> QED BY <1>1, <1>2, <1>3, <1>8 DEF ReserveChunk, Downloading, PrepareStep, TypeOK

LEMMA PrepareKeeps ==
  ASSUME IInv, NEW p \in Providers, PrepareStep(p)
  PROVE  IInv'
<1>1. TypeOK /\ HeldIsActive /\ StorageCounted /\ FeedsWhere /\ WaveShape /\ RowsShared
      /\ FilesShape /\ Serving
  BY DEF IInv
<1>2. /\ phase = "preparing" /\ phase' = phase
      /\ pending' = pending /\ running' = running /\ limit' = limit /\ budget' = budget
      /\ processed' = processed /\ has_error' = has_error /\ exhausted' = exhausted
      /\ left' = left /\ claimed' = claimed /\ task' = task /\ got' = got /\ sent' = sent
      /\ refused' = refused /\ meta' = meta /\ held' = held /\ data' = data
  BY DEF PrepareStep, Downloading, wave, outcome, tasks, budgets
<1>3. pending = {} /\ running = {}
  BY <1>1, <1>2 DEF WaveShape
<1>4. TypeOK'
  BY <1>1, <1>2 DEF TypeOK, PrepareStep
<1>5. HeldIsActive'
  BY <1>1, <1>2 DEF HeldIsActive
<1>6. FeedsWhere'
  BY <1>1, <1>2 DEF FeedsWhere, PrepareStep
<1>7. WaveShape'
  <2>1. \A q \in With("ready")' : FilesOf(q) # {}
    BY <1>1 DEF WaveShape, With, PrepareStep
  <2> QED BY <1>1, <1>2, <1>3, <2>1 DEF WaveShape, With, FilesOf, Own
<1>8. RowsShared'
  BY <1>1, <1>2, <1>3 DEF RowsShared
<1>9. FilesShape'
  BY <1>1, <1>2 DEF FilesShape, Claimer, Claimable, AllClaimed, Own, FilesOf
<1>10. Serving'
  BY <1>2 DEF Serving
<1> QED BY <1>4, <1>5, <1>6, <1>7, <1>8, <1>9, <1>10 DEF IInv, PrepareStep

-----------------------------------------------------------------------------
(* The end of a provider's task *)

ProviderStep(p) ==
  /\ phase = "running" /\ p \in running
  /\ UNCHANGED <<phase, prepared, limit, budget, tasks, held, data>>
  /\ \A f \in FilesOf(p) : task[f] \in Ended
  /\ running' = running \ {p}
  /\ processed' = processed \/ processed' = processed + claimed[p]
  /\ \/ pending' = pending /\ Drop({p})
     \/ pending' = pending \cup {p} /\ UNCHANGED storage
  /\ meta' \in Nat /\ failures' \in 0..MaxFailures
  /\ has_error' \in BOOLEAN /\ exhausted' \in BOOLEAN
  /\ ~has_error' /\ ~exhausted' => ~has_error /\ ~exhausted /\ Served(p)

LEMMA FailProviderStep ==
  ASSUME TypeOK, NEW p \in Providers, phase = "running", Joined(p), FailProvider(p),
         meta' \in Nat, failures' \in 0..MaxFailures
  PROVE  ProviderStep(p)
BY DEF TypeOK, Joined, FailProvider, ProviderStep, Ended

(* Who finished was served. *)
LEMMA RecordVersionStep ==
  ASSUME TypeOK, WaveShape, NEW p \in Providers, phase = "running",
         NEW writes \in 0..CheckpointWrites, RecordVersion(p, writes)
  PROVE  ProviderStep(p)
<1>1. Served(p)
  <2>1. FilesOf(p) # {}
    BY DEF WaveShape, RecordVersion, Joined
  <2>2. \A f \in FilesOf(p) : left[f] = 0 /\ Rows[f] \in Nat /\ Rows[f] # 0
    BY WorkflowAssumption DEF RecordVersion, Finished, FilesOf
  <2>3. \A f \in FilesOf(p) : left[f] < Rows[f]
    BY <2>2
  <2> QED BY <2>1, <2>3 DEF Served
<1>2. meta' \in Nat
  BY DEF RecordVersion, Covers, CheckpointWrites, TypeOK
<1> QED BY <1>1, <1>2 DEF TypeOK, RecordVersion, Joined, Leave, outcome, ProviderStep, Ended

(* Who used its rows up and met no budget's end was served too: its claims were
   saved. *)
LEMMA EndIncompleteStep ==
  ASSUME TypeOK, WaveShape, RowsShared, FilesShape, NEW p \in Providers, phase = "running",
         EndIncomplete(p)
  PROVE  ProviderStep(p)
<1>1. ASSUME ~exhausted'
      PROVE  Served(p)
  <2>1. /\ p \in running /\ limit[p] \in Nat /\ claimed[p] \in Nat /\ limit[p] # 0
        /\ \A f \in FilesOf(p) : Own(f) = p /\ f \in Files
    BY MaxRowsType DEF EndIncomplete, Joined, RowsShared, TypeOK, FilesOf, Own
  <2>2. PICK f \in FilesOf(p) : left[f] # 0
    BY DEF EndIncomplete, Finished
  <2>3. \A g \in FilesOf(p) : g \notin refused
    BY <1>1 DEF EndIncomplete
  <2>4. \A g \in FilesOf(p) : task[g] # "failed" /\ task[g] \in {"none", "done"}
    BY DEF EndIncomplete, Joined, Failed
  <2>5. task[f] = "done"
    BY <2>1, <2>2, <2>4 DEF FilesShape
  <2>6. AllClaimed(f) \/ left[f] < Rows[f]
    BY <2>1, <2>2, <2>3, <2>5 DEF FilesShape
  <2>7. CASE AllClaimed(f)
    <3>1. claimed[p] # 0
      BY <2>1, <2>7 DEF AllClaimed
    <3>2. PICK g \in FilesOf(p) : got[g] # 0 \/ left[g] < Rows[g]
      BY <2>3, <2>4, <3>1 DEF FilesShape, Claimer
    <3>3. got[g] = 0
      BY <2>1, <2>4 DEF FilesShape
    <3> QED BY <3>2, <3>3 DEF Served
  <2>8. CASE left[f] < Rows[f]
    BY <2>8 DEF Served
  <2> QED BY <2>6, <2>7, <2>8
<1>2. exhausted' = (exhausted \/ FilesOf(p) \cap refused # {})
  BY DEF EndIncomplete
<1>3. exhausted' \in BOOLEAN /\ (~exhausted' => ~exhausted)
  <2>1. exhausted \in BOOLEAN
    BY DEF TypeOK
  <2>2. CASE exhausted
    BY <1>2, <2>2
  <2>3. CASE ~exhausted /\ FilesOf(p) \cap refused # {}
    BY <1>2, <2>3
  <2>4. CASE ~exhausted /\ FilesOf(p) \cap refused = {}
    BY <1>2, <2>4
  <2> QED BY <2>1, <2>2, <2>3, <2>4
<1> QED BY <1>1, <1>3 DEF TypeOK, EndIncomplete, Joined, Leave, ProviderStep, Ended

LEMMA FailVersionStep ==
  ASSUME TypeOK, NEW p \in Providers, phase = "running", FailVersion(p)
  PROVE  ProviderStep(p)
<1>1. meta' \in Nat /\ failures' \in 0..MaxFailures
  <2>1. meta \in Nat /\ failures \in 0..MaxFailures /\ MaxFailures \in Nat
    BY WorkflowAssumption DEF TypeOK
  <2>2. \/ meta' = meta /\ failures' = failures
        \/ Covers(CheckpointWrites) /\ meta' = meta - CheckpointWrites /\ Failure
    BY DEF FailVersion
  <2> QED BY <2>1, <2>2 DEF Covers, CheckpointWrites, Failure
<1>2. Joined(p) /\ FailProvider(p)
  BY DEF FailVersion
<1> QED BY <1>1, <1>2, FailProviderStep

LEMMA EndFailedStep ==
  ASSUME TypeOK, NEW p \in Providers, phase = "running", EndFailed(p)
  PROVE  ProviderStep(p)
<1>1. meta' \in Nat /\ failures' \in 0..MaxFailures /\ Joined(p) /\ FailProvider(p)
  BY DEF EndFailed, TypeOK
<1> QED BY <1>1, FailProviderStep

LEMMA ProviderKeeps ==
  ASSUME IInv, NEW p \in Providers, ProviderStep(p)
  PROVE  IInv'
<1>1. TypeOK /\ HeldIsActive /\ StorageCounted /\ FeedsWhere /\ WaveShape /\ RowsShared
      /\ FilesShape /\ Serving
  BY DEF IInv
<1>2. /\ phase = "running" /\ p \in running
      /\ phase' = phase /\ prepared' = prepared /\ limit' = limit /\ budget' = budget
      /\ left' = left /\ claimed' = claimed /\ task' = task /\ got' = got /\ sent' = sent
      /\ refused' = refused /\ held' = held /\ data' = data
      /\ running' = running \ {p} /\ p \notin running'
  BY DEF ProviderStep, tasks
<1>3. p \notin pending /\ running \subseteq Providers
  BY <1>1, <1>2 DEF WaveShape, TypeOK
<1>4. /\ StorageCounted'
      /\ stored' \in [Providers -> Nat] /\ used_bytes' \in Nat /\ orphaned' \in Nat
      /\ stuck' \subseteq Providers
      /\ \A q \in Providers : q # p => stored'[q] = stored[q]
      /\ \/ pending' = pending /\ stored'[p] = 0
         \/ pending' = pending \cup {p} /\ stored'[p] = stored[p]
  <2>1. CASE pending' = pending /\ Drop({p})
    <3>1. {p} \in SUBSET Providers
      OBVIOUS
    <3>2. /\ StorageCounted'
          /\ stored' \in [Providers -> Nat] /\ used_bytes' \in Nat /\ orphaned' \in Nat
          /\ stuck' \subseteq Providers
          /\ \A q \in Providers : stored'[q] = (IF q \in {p} THEN 0 ELSE stored[q])
      BY <1>1, <2>1, <3>1, DropKeeps
    <3> QED BY <2>1, <3>2
  <2>2. CASE pending' = pending \cup {p} /\ UNCHANGED storage
    <3>1. StorageCounted'
      BY <1>1, <2>2 DEF storage, StorageCounted, TotalOf
    <3> QED BY <1>1, <2>2, <3>1 DEF storage, TypeOK
  <2> QED BY <2>1, <2>2 DEF ProviderStep
<1>5. HeldIsActive'
  BY <1>1, <1>2 DEF HeldIsActive
<1>6. FeedsWhere'
  <2>1. ASSUME NEW q \in Providers
        PROVE  stored'[q] # 0 <=> q \in pending' \cup running'
    <3>1. stored[q] # 0 <=> q \in pending \cup running
      BY <1>1, <1>2 DEF FeedsWhere
    <3>2. CASE q = p
      BY <1>2, <1>3, <1>4, <3>1, <3>2
    <3>3. CASE q # p
      BY <1>2, <1>4, <3>1, <3>3
    <3> QED BY <3>2, <3>3
  <2> QED BY <1>2, <2>1 DEF FeedsWhere
<1>7. WaveShape'
  <2>1. pending' \cup running' \subseteq pending \cup running
    BY <1>2, <1>4
  <2>2. pending' \cap running' = {}
    BY <1>1, <1>2, <1>4 DEF WaveShape
  <2>3. \A f \in Files : task[f] \notin Ended => Own(f) \in running'
    BY <1>1, <1>2 DEF WaveShape, ProviderStep, FilesOf, Own
  <2> QED BY <1>1, <1>2, <2>1, <2>2, <2>3 DEF WaveShape, With, FilesOf, Own
<1>8. RowsShared' /\ processed' \in 0..MaxRows
  <2>1. /\ limit \in [Providers -> Nat] /\ claimed \in [Providers -> Nat] /\ MaxRows \in Nat
        /\ processed \in Nat /\ budget \in Nat /\ budget <= MaxRows /\ p \in Providers
    BY <1>1, MaxRowsType DEF TypeOK
  <2>2. TotalOf(limit, running) = TotalOf(limit, running \ {p}) + limit[p]
    BY <1>2, <2>1, TotalOfRemove
  <2>3. TotalOf(limit, running \ {p}) \in Nat /\ limit[p] \in Nat /\ claimed[p] \in Nat
        /\ claimed[p] <= limit[p]
    BY <1>1, <2>1, TotalOfNat DEF RowsShared
  <2>4. /\ TotalOf(limit, Providers) = budget
        /\ processed + TotalOf(limit, running) <= budget
    BY <1>1, <1>2 DEF RowsShared
  <2>5. processed' = processed \/ processed' = processed + claimed[p]
    BY DEF ProviderStep
  <2>6. /\ processed' + TotalOf(limit, running \ {p}) <= budget /\ processed' \in Nat
        /\ processed' <= budget
    BY <2>1, <2>2, <2>3, <2>4, <2>5
  <2>7. TotalOf(limit, Providers)' = budget' /\ TotalOf(limit, running)' = TotalOf(limit, running \ {p})
    BY <1>2, <2>4 DEF TotalOf
  <2>8. processed' \in 0..MaxRows
    BY <2>1, <2>6
  <2> QED BY <1>1, <1>2, <2>6, <2>7, <2>8 DEF RowsShared
<1>9. FilesShape'
  BY <1>1, <1>2 DEF FilesShape, Claimer, Claimable, AllClaimed, Own, FilesOf
<1>10. Serving'
  <2>1. ~has_error' /\ ~exhausted' => ~has_error /\ ~exhausted /\ Served(p)
    BY DEF ProviderStep
  <2>2. \A q : Served(q)' <=> Served(q)
    BY <1>2 DEF Served, FilesOf
  <2> QED BY <1>1, <1>2, <2>1, <2>2 DEF Serving, With
<1>11. TypeOK'
  BY <1>1, <1>2, <1>4, <1>8 DEF TypeOK, ProviderStep
<1> QED BY <1>4, <1>5, <1>6, <1>7, <1>8, <1>9, <1>10, <1>11 DEF IInv

-----------------------------------------------------------------------------
(* The steps of main *)

(* No task is left when no provider runs. *)
LEMMA NobodyRuns ==
  ASSUME TypeOK, WaveShape, HeldIsActive, running = {}
  PROVE  /\ \A f \in Files : task[f] \in Ended
         /\ held = 0
<1>1. \A f \in Files : task[f] \in Ended
  BY DEF WaveShape
<1>2. {f \in Files : task[f] \in Active} = {}
  BY <1>1 DEF Ended, Active
<1> QED BY <1>1, <1>2, FS_EmptySet DEF HeldIsActive

LEMMA InitHolds ==
  ASSUME Init
  PROVE  IInv
<1>1. TypeOK
  <2>1. MaxRows \in Nat /\ budget \in Nat /\ budget <= MaxRows
    BY MaxRowsType DEF Init
  <2>2. Cardinality(Files) \in Nat /\ Rows \in [Files -> Nat]
    BY WorkflowAssumption, FS_CardinalityType
  <2>3. stuck \subseteq Providers /\ Cardinality(stuck) \in Nat /\ failures = Cardinality(stuck)
        /\ failures <= MaxFailures
    <3>1. IsFiniteSet(Providers)
      BY WorkflowAssumption, FS_Interval DEF Providers
    <3>2. stuck \subseteq Providers /\ failures = Cardinality(stuck) /\ failures <= MaxFailures
      BY DEF Init
    <3> QED BY <3>1, <3>2, FS_Subset, FS_CardinalityType
  <2>4. failures \in 0..MaxFailures
    BY <2>3, WorkflowAssumption
  <2>5. /\ left = Rows /\ got = [f \in Files |-> 0] /\ sent = [f \in Files |-> 0]
        /\ limit = [p \in Providers |-> 0] /\ claimed = [p \in Providers |-> 0]
        /\ processed = 0 /\ held = 0
    BY DEF Init
  <2>6. /\ limit \in [Providers -> 0..MaxRows] /\ claimed \in [Providers -> 0..MaxRows]
        /\ budget \in 0..MaxRows /\ processed \in 0..MaxRows
        /\ held \in 0..Cardinality(Files)
    BY <2>1, <2>2, <2>5
  <2>7. /\ left \in [Files -> Nat] /\ got \in [Files -> Nat] /\ sent \in [Files -> Nat]
        /\ \A f \in Files : left[f] <= Rows[f]
        /\ \A f \in Files : sent[f] <= got[f] /\ got[f] <= left[f]
    BY <2>2, <2>5
  <2>8. meta \in Nat /\ data \in Nat
    BY WorkflowAssumption DEF Init
  <2> QED BY <2>3, <2>4, <2>6, <2>7, <2>8 DEF Init, TypeOK
<1>2. running = {} /\ \A f \in Files : task[f] = "none"
  BY DEF Init
<1>3. HeldIsActive
  <2>1. {f \in Files : task[f] \in Active} = {}
    BY <1>2 DEF Active
  <2> QED BY <2>1, FS_EmptySet DEF Init, HeldIsActive
<1>4. StorageCounted
  <2>1. TotalOf(stored, Providers) = 0
    BY TotalOfZero DEF Init
  <2> QED BY <2>1, WorkflowAssumption DEF Init, StorageCounted
<1>5. FeedsWhere /\ WaveShape /\ RowsShared /\ Serving
  BY <1>2 DEF Init, FeedsWhere, WaveShape, RowsShared, Serving, With, Ended
<1>6. FilesShape
  <2>1. \A f \in Files : Own(f) \in Providers
    BY WorkflowAssumption DEF Own
  <2> QED BY <1>2, <2>1 DEF Init, FilesShape
<1> QED BY <1>1, <1>3, <1>4, <1>5, <1>6 DEF IInv

LEMMA StutterKeeps ==
  ASSUME IInv, UNCHANGED vars
  PROVE  IInv'
BY DEF IInv, TypeOK, HeldIsActive, StorageCounted, FeedsWhere, WaveShape, RowsShared, FilesShape,
       Serving, AllServed, Served, Claimer, Claimable, AllClaimed, Own, FilesOf, With, TotalOf,
       vars, preparing, storage, wave, tasks, budgets, outcome

(* A step of main that starts no wave leaves tasks and budgets alone. *)
Between ==
  /\ running = {} /\ running' = {}
  /\ phase' # "running" /\ phase' # "preparing"
  /\ UNCHANGED <<prepared, limit, processed, tasks, budgets, exhausted, failures>>
  /\ pending' \subseteq With("ready")

LEMMA BetweenKeeps ==
  ASSUME IInv, Between
  PROVE  HeldIsActive' /\ WaveShape' /\ RowsShared' /\ FilesShape'
<1>1. TypeOK /\ HeldIsActive /\ WaveShape /\ RowsShared /\ FilesShape
  BY DEF IInv
<1>2. /\ running = {} /\ running' = {} /\ phase' \notin {"running", "preparing"}
      /\ prepared' = prepared /\ limit' = limit /\ left' = left /\ claimed' = claimed
      /\ task' = task /\ got' = got /\ refused' = refused /\ held' = held
  BY DEF Between, tasks, budgets
<1>3. HeldIsActive'
  BY <1>1, <1>2 DEF HeldIsActive
<1>4. WaveShape'
  BY <1>1, <1>2 DEF WaveShape, Between, With, FilesOf, Own
<1>5. RowsShared'
  BY <1>1, <1>2 DEF RowsShared
<1>6. FilesShape'
  BY <1>1, <1>2 DEF FilesShape, Claimer, Claimable, AllClaimed, Own, FilesOf
<1> QED BY <1>3, <1>4, <1>5, <1>6

(* Everybody was prepared: whoever is ready waits for rows, unless there are
   too few of them. *)
LEMMA StartWavesKeeps ==
  ASSUME IInv, StartWaves
  PROVE  IInv'
<1>1. TypeOK /\ StorageCounted /\ FeedsWhere /\ WaveShape /\ Serving
  BY DEF IInv
<1>2. /\ phase = "preparing" /\ running = {} /\ pending = {} /\ running' = {}
      /\ prepared' = prepared /\ With("downloading") = {}
  BY <1>1 DEF StartWaves, WaveShape
<1>3. CASE Sufficient(Cardinality(With("ready")))
  <2>1. /\ phase' = "between" /\ pending' = With("ready")
        /\ has_error' = (With("failed") # {})
        /\ UNCHANGED storage /\ left' = left /\ budget' = budget
    BY <1>3 DEF StartWaves, tasks
  <2>2. Between
    BY <1>2, <2>1 DEF Between, StartWaves
  <2>3. HeldIsActive' /\ WaveShape' /\ RowsShared' /\ FilesShape'
    BY <2>2, BetweenKeeps
  <2>4. StorageCounted'
    BY <1>1, <2>1 DEF StorageCounted, TotalOf, storage
  <2>5. FeedsWhere'
    <3>1. ASSUME NEW p \in Providers
          PROVE  stored'[p] # 0 <=> p \in pending' \cup running'
      <4>1. prepared[p] \in {"ready", "skipped", "failed"}
        BY <1>1, <1>2 DEF TypeOK, With
      <4>2. stored[p] # 0 <=> prepared[p] = "ready"
        BY <1>1, <1>2, <4>1 DEF FeedsWhere
      <4> QED BY <1>2, <2>1, <4>2 DEF With, storage
    <3> QED BY <2>1, <3>1 DEF FeedsWhere
  <2>6. Serving'
    <3>1. With("ready")' = With("ready") /\ Cardinality(With("ready")) <= budget
      <4>1. budget >= Cardinality(With("ready"))
        BY <1>3 DEF Sufficient
      <4>2. With("ready")' = With("ready")
        BY <1>2 DEF With
      <4>3. budget \in Int /\ Cardinality(With("ready")) \in Int
        <5>1. With("ready") \subseteq Providers /\ IsFiniteSet(Providers)
          BY WorkflowAssumption, FS_Interval DEF With, Providers
        <5> QED BY <1>1, <5>1, MaxRowsType, FS_Subset, FS_CardinalityType DEF TypeOK
      <4> QED BY <4>1, <4>2, <4>3
    <3>2. Cardinality(pending)' = Cardinality(With("ready"))
      BY <2>1
    <3> QED BY <2>1, <3>1, <3>2 DEF Serving
  <2>7. TypeOK'
    <3>1. has_error' \in BOOLEAN /\ With("ready") \subseteq Providers
      BY <2>1 DEF With
    <3> QED BY <1>1, <1>2, <2>1, <3>1 DEF StartWaves, TypeOK, storage, tasks, budgets
  <2> QED BY <2>3, <2>4, <2>5, <2>6, <2>7 DEF IInv
<1>4. CASE ~Sufficient(Cardinality(With("ready")))
  <2>1. /\ phase' = "ended" /\ pending' = pending /\ has_error' = TRUE
        /\ Drop(Providers)
    BY <1>4 DEF StartWaves
  <2>2. Between
    BY <1>2, <2>1 DEF Between, StartWaves
  <2>3. HeldIsActive' /\ WaveShape' /\ RowsShared' /\ FilesShape'
    BY <2>2, BetweenKeeps
  <2>4. /\ StorageCounted'
        /\ stored' \in [Providers -> Nat] /\ used_bytes' \in Nat /\ orphaned' \in Nat
        /\ stuck' \subseteq Providers
        /\ \A p \in Providers : stored'[p] = (IF p \in Providers THEN 0 ELSE stored[p])
    <3>1. Providers \in SUBSET Providers
      OBVIOUS
    <3> QED BY <1>1, <2>1, <3>1, DropKeeps
  <2>5. FeedsWhere' /\ Serving'
    BY <2>1, <2>4 DEF FeedsWhere, Serving
  <2>6. TypeOK'
    BY <1>1, <1>2, <2>1, <2>4 DEF StartWaves, TypeOK, tasks, budgets
  <2> QED BY <2>3, <2>4, <2>5, <2>6 DEF IInv
<1> QED BY <1>3, <1>4

LEMMA NoMoreWavesKeeps ==
  ASSUME IInv, NoMoreWaves
  PROVE  IInv'
<1>1. TypeOK /\ StorageCounted /\ FeedsWhere /\ WaveShape /\ Serving
  BY DEF IInv
<1>2. /\ phase = "between" /\ phase' = "over" /\ (pending = {} \/ budget = 0)
      /\ prepared' = prepared /\ pending' = pending /\ left' = left /\ budget' = budget
      /\ running = {} /\ running' = {} /\ has_error' = has_error /\ exhausted' = exhausted
      /\ UNCHANGED storage
  BY <1>1 DEF NoMoreWaves, preparing, wave, tasks, outcome, WaveShape
<1>3. Between
  BY <1>1, <1>2 DEF NoMoreWaves, Between, wave, outcome, WaveShape
<1>4. HeldIsActive' /\ WaveShape' /\ RowsShared' /\ FilesShape'
  BY <1>3, BetweenKeeps
<1>5. StorageCounted' /\ FeedsWhere'
  BY <1>1, <1>2 DEF StorageCounted, FeedsWhere, TotalOf, storage
<1>6. TypeOK'
  BY <1>1, <1>2 DEF NoMoreWaves, TypeOK, preparing, storage, wave, tasks, budgets
<1>7. Serving'
  <2>1. ASSUME ~has_error, ~exhausted
        PROVE  AllServed
    <3>1. AllServed \/ (pending = With("ready") /\ Cardinality(pending) <= budget)
      BY <1>1, <1>2, <2>1 DEF Serving
    <3>2. ASSUME pending = With("ready"), Cardinality(pending) <= budget
          PROVE  pending = {}
      <4>1. IsFiniteSet(Providers) /\ pending \subseteq Providers
        BY <1>1, WorkflowAssumption, FS_Interval DEF Providers, TypeOK
      <4>2. IsFiniteSet(pending) /\ Cardinality(pending) \in Nat
        BY <4>1, FS_Subset, FS_CardinalityType
      <4>3. budget = 0 => Cardinality(pending) = 0
        BY <3>2, <4>2
      <4> QED BY <1>2, <4>2, <4>3, FS_EmptySet
    <3> QED BY <3>1, <3>2 DEF AllServed
  <2>2. AllServed => AllServed'
    BY <1>2 DEF AllServed, Served, With, FilesOf
  <2> QED BY <1>2, <2>1, <2>2 DEF Serving
<1> QED BY <1>4, <1>5, <1>6, <1>7 DEF IInv

LEMMA FinishKeeps ==
  ASSUME IInv, Finish
  PROVE  IInv'
<1>1. TypeOK /\ StorageCounted /\ FeedsWhere /\ WaveShape /\ Serving
  BY DEF IInv
<1>2. /\ phase = "over" /\ phase' = "ended" /\ Drop(Providers)
      /\ prepared' = prepared /\ pending' = pending /\ left' = left /\ budget' = budget
      /\ running = {} /\ running' = {} /\ has_error' = has_error /\ exhausted' = exhausted
  BY <1>1 DEF Finish, wave, tasks, outcome, WaveShape
<1>3. Between
  BY <1>1, <1>2 DEF Finish, Between, wave, outcome, WaveShape
<1>4. HeldIsActive' /\ WaveShape' /\ RowsShared' /\ FilesShape'
  BY <1>3, BetweenKeeps
<1>5. /\ StorageCounted'
      /\ stored' \in [Providers -> Nat] /\ used_bytes' \in Nat /\ orphaned' \in Nat
      /\ stuck' \subseteq Providers
      /\ \A p \in Providers : stored'[p] = (IF p \in Providers THEN 0 ELSE stored[p])
  <2>1. Providers \in SUBSET Providers
    OBVIOUS
  <2> QED BY <1>1, <1>2, <2>1, DropKeeps
<1>6. FeedsWhere'
  BY <1>2, <1>5 DEF FeedsWhere
<1>7. TypeOK'
  BY <1>1, <1>2, <1>5 DEF Finish, TypeOK, wave, tasks, budgets
<1>8. Serving'
  <2>1. AllServed => AllServed'
    BY <1>2 DEF AllServed, Served, With, FilesOf
  <2> QED BY <1>1, <1>2, <2>1 DEF Serving
<1> QED BY <1>4, <1>5, <1>6, <1>7, <1>8 DEF IInv

(* A wave gives the whole budget out; everybody that waits is in it if there
   are rows for everybody. *)
LEMMA StartWaveKeeps ==
  ASSUME IInv, StartWave
  PROVE  IInv'
<1>1. TypeOK /\ HeldIsActive /\ StorageCounted /\ FeedsWhere /\ WaveShape /\ RowsShared
      /\ FilesShape /\ Serving
  BY DEF IInv
<1>2. /\ phase = "between" /\ phase' = "running" /\ pending # {} /\ pending \subseteq Providers
      /\ running = {}
      /\ prepared' = prepared /\ UNCHANGED storage
      /\ budget' = budget /\ left' = left /\ got' = got /\ sent' = sent
      /\ meta' = meta /\ held' = held /\ data' = data
      /\ has_error' = has_error /\ exhausted' = exhausted /\ failures' = failures
      /\ refused' = {} /\ processed' = 0
      /\ limit' = [p \in Providers |-> IF p \in pending THEN FairLimit(p) ELSE 0]
      /\ claimed' = [p \in Providers |-> 0]
      /\ running' = {p \in pending : limit'[p] # 0}
      /\ pending' = pending \ running'
      /\ task' = [f \in Files |->
           IF ProviderOf[f] \in running' /\ left[f] # 0 THEN "begin" ELSE "none"]
  BY <1>1 DEF StartWave, preparing, budgets, outcome, WaveShape, TypeOK
<1>3. budget \in Nat /\ MaxRows \in Nat /\ budget <= MaxRows
  BY <1>1, MaxRowsType DEF TypeOK
<1>4. /\ \A p \in pending : FairLimit(p) \in Nat
      /\ \A p \in pending : Cardinality(pending) <= budget => FairLimit(p) # 0
      /\ TotalOf(limit', Providers) = budget
  BY <1>2, <1>3, FairSum
<1>5. limit' \in [Providers -> Nat]
  BY <1>2, <1>4
<1>6. limit' \in [Providers -> 0..MaxRows]
  <2>1. \A p \in Providers : limit'[p] <= budget /\ limit'[p] \in Nat
    BY <1>4, <1>5, TotalOfNat
  <2>2. \A p \in Providers : limit'[p] \in 0..MaxRows
    BY <1>3, <2>1
  <2> QED BY <1>5, <2>2
<1>7. /\ running' \subseteq Providers /\ pending' \subseteq Providers
      /\ pending' \cap running' = {} /\ pending' \cup running' = pending
  BY <1>2
<1>8. TotalOf(limit', running') = budget
  <2>1. \A p \in Providers : p \notin running' => limit'[p] = 0
    BY <1>2
  <2>2. TotalOf(limit', running') = TotalOf(limit', Providers)
    BY <1>7, <2>1, TotalOfSame
  <2> QED BY <1>4, <2>2
<1>9. (\A f \in Files : task[f] \in Ended) /\ held = 0
  BY <1>1, <1>2, NobodyRuns
<1>10. \A f \in Files : got[f] = 0
  BY <1>1, <1>9 DEF FilesShape, Ended
<1>11. \A f \in Files : \/ task'[f] = "begin" /\ Own(f) \in running'
                        \/ task'[f] = "none" /\ (Own(f) \in running' => left[f] = 0)
  BY <1>2 DEF Own
<1>12. TypeOK'
  <2>1. claimed' \in [Providers -> 0..MaxRows] /\ processed' \in 0..MaxRows
    BY <1>2, <1>3
  <2>2. task' \in [Files -> {"none", "begin", "queued", "producing", "uploading", "done", "failed"}]
    BY <1>2
  <2> QED BY <1>1, <1>2, <1>6, <1>7, <2>1, <2>2 DEF TypeOK, storage
<1>13. HeldIsActive'
  <2>1. {f \in Files : task'[f] \in Active} = {}
    BY <1>11 DEF Active
  <2> QED BY <1>2, <1>9, <2>1, FS_EmptySet DEF HeldIsActive
<1>14. StorageCounted' /\ FeedsWhere'
  <2>1. StorageCounted'
    BY <1>1, <1>2 DEF StorageCounted, TotalOf, storage
  <2>2. \A p \in Providers : stored[p] # 0 <=> p \in pending
    BY <1>1, <1>2 DEF FeedsWhere
  <2> QED BY <1>2, <1>7, <2>1, <2>2 DEF FeedsWhere, storage
<1>15. WaveShape'
  <2>1. With("ready")' = With("ready")
    BY <1>2 DEF With
  <2> QED BY <1>1, <1>2, <1>7, <1>11, <2>1 DEF WaveShape, Ended, FilesOf, Own
<1>16. RowsShared'
  <2>1. TotalOf(limit, Providers)' = budget /\ TotalOf(limit, running)' = budget
    BY <1>4, <1>8 DEF TotalOf, Providers
  <2>2. \A p \in Providers : claimed'[p] <= limit'[p]
    BY <1>2, <1>5
  <2> QED BY <1>2, <1>3, <2>1, <2>2 DEF RowsShared
<1>17. FilesShape'
  <2>1. \A f \in Files : Own(f) \in Providers
    BY WorkflowAssumption DEF Own
  <2> QED BY <1>2, <1>10, <1>11, <2>1 DEF FilesShape, Own
<1>18. Serving'
  <2>1. ASSUME ~has_error, ~exhausted, NEW p \in With("ready")
        PROVE  Served(p) \/ p \in running'
    <3>1. AllServed \/ (pending = With("ready") /\ Cardinality(pending) <= budget)
      BY <1>1, <1>2, <2>1 DEF Serving
    <3> QED BY <1>2, <1>4, <2>1, <3>1 DEF AllServed
  <2>2. With("ready")' = With("ready") /\ \A p : Served(p)' <=> Served(p)
    BY <1>2 DEF With, Served, FilesOf
  <2> QED BY <1>2, <2>1, <2>2 DEF Serving
<1> QED BY <1>12, <1>13, <1>14, <1>15, <1>16, <1>17, <1>18 DEF IInv

(* What a wave leaves of the budget is never negative, and is nothing when its
   rows were all claimed. *)
LEMMA EndWaveKeeps ==
  ASSUME IInv, EndWave
  PROVE  IInv'
<1>1. TypeOK /\ StorageCounted /\ FeedsWhere /\ WaveShape /\ RowsShared /\ Serving
  BY DEF IInv
<1>2. /\ phase = "running" /\ running = {} /\ running' = {}
      /\ budget' = budget - processed
      /\ phase' = (IF Last THEN "over" ELSE "between")
      /\ prepared' = prepared /\ pending' = pending /\ left' = left /\ processed' = processed
      /\ has_error' = has_error /\ exhausted' = exhausted
      /\ UNCHANGED storage
  BY DEF EndWave, preparing, tasks, outcome
<1>3. Between
  BY <1>1, <1>2 DEF EndWave, Between, preparing, outcome, WaveShape
<1>4. HeldIsActive' /\ WaveShape' /\ RowsShared' /\ FilesShape'
  BY <1>3, BetweenKeeps
<1>5. /\ budget \in Nat /\ processed \in Nat /\ MaxRows \in Nat /\ budget <= MaxRows
      /\ processed <= budget /\ TotalOf(limit, Providers) = budget
  <2>1. budget \in Nat /\ processed \in Nat /\ MaxRows \in Nat /\ budget <= MaxRows
        /\ limit \in [Providers -> Nat]
    BY <1>1, MaxRowsType DEF TypeOK
  <2>2. TotalOf(limit, running) \in Nat
    BY <2>1, TotalOfNat
  <2> QED BY <1>1, <1>2, <2>1, <2>2 DEF RowsShared
<1>6. budget' \in 0..MaxRows
  BY <1>2, <1>5
<1>7. StorageCounted' /\ FeedsWhere'
  BY <1>1, <1>2 DEF StorageCounted, FeedsWhere, TotalOf, storage
<1>8. TypeOK'
  BY <1>1, <1>2, <1>6 DEF EndWave, TypeOK, preparing, storage, tasks, budgets
<1>9. Serving'
  <2>1. ASSUME ~has_error, ~exhausted
        PROVE  AllServed /\ (Last => budget' = 0)
    <3>1. AllServed
      BY <1>1, <1>2, <2>1 DEF Serving, AllServed
    <3>2. Last => processed >= budget
      BY <1>5, <2>1 DEF Last
    <3> QED BY <1>2, <1>5, <3>1, <3>2
  <2>2. AllServed => AllServed'
    BY <1>2 DEF AllServed, Served, With, FilesOf
  <2> QED BY <1>2, <2>1, <2>2 DEF Serving
<1> QED BY <1>4, <1>7, <1>8, <1>9 DEF IInv

-----------------------------------------------------------------------------
(* The invariant, and what follows from it *)

LEMMA NextKeeps ==
  ASSUME IInv, Next
  PROVE  IInv'
<1>1. TypeOK /\ StorageCounted /\ WaveShape /\ RowsShared /\ FilesShape
  BY DEF IInv
<1>2. ASSUME NEW p \in Providers, PrepareTask(p) \/ FailPrepare(p)
      PROVE  IInv'
  <2>1. failures' \in 0..MaxFailures \/ ReserveChunk(p) \/ Ready(p)
    BY <1>1, <1>2, WorkflowAssumption DEF PrepareTask, FailPrepare, NoRoom, SkipProvider, Failure, TypeOK
  <2>2. \/ ReserveChunk(p) \/ Ready(p)
        \/ \E result \in {"skipped", "failed"} : Prepared(p, result)
    BY <1>2 DEF PrepareTask, FailPrepare, NoRoom, SkipProvider
  <2> QED BY <1>1, <2>1, <2>2, ReserveChunkStep, ReadyStep, PreparedStep, PrepareKeeps
<1>3. ASSUME NEW p \in Providers, ProviderTask(p)
      PROVE  IInv'
  <2>1. phase = "running"
    BY <1>1, <1>3 DEF ProviderTask, EndFailed, EndIncomplete, FailVersion, RecordVersion, Joined, WaveShape
  <2>2. ProviderStep(p)
    <3>1. CASE EndFailed(p)
      BY <1>1, <2>1, <3>1, EndFailedStep
    <3>2. CASE EndIncomplete(p)
      BY <1>1, <2>1, <3>2, EndIncompleteStep
    <3>3. CASE FailVersion(p)
      BY <1>1, <2>1, <3>3, FailVersionStep
    <3>4. CASE \E writes \in 0..CheckpointWrites : RecordVersion(p, writes)
      BY <1>1, <2>1, <3>4, RecordVersionStep
    <3> QED BY <1>3, <3>1, <3>2, <3>3, <3>4 DEF ProviderTask
  <2> QED BY <2>2, ProviderKeeps
<1>4. ASSUME NEW f \in Files, FileTask(f)
      PROVE  IInv'
  <2>1. FileStep(f)
    <3>1. CASE NothingToClaim(f) \/ ReserveCheckpoint(f) \/ RefuseCheckpoint(f)
      BY <1>1, <3>1, NothingToClaimStep, ReserveCheckpointStep, RefuseCheckpointStep
    <3>2. CASE TakePermit(f) \/ ClaimRow(f) \/ StopProducing(f)
      BY <1>1, <3>2, TakePermitStep, ClaimRowStep, StopProducingStep
    <3>3. CASE CommitRow(f) \/ RefuseRow(f)
      BY <1>1, <3>3, CommitRowStep, RefuseRowStep
    <3>4. CASE \E rows \in 0..sent[f], writes \in 0..CheckpointWrites : SaveFile(f, rows, writes)
      BY <1>1, <3>4, SaveFileStep
    <3> QED BY <1>4, <3>1, <3>2, <3>3, <3>4 DEF FileTask
  <2> QED BY <2>1, FileKeeps
<1>5. ASSUME NEW f \in Files, NEW rows \in 0..sent[f], NEW back \in 0..CheckpointWrites,
             FailFile(f, rows, back)
      PROVE  IInv'
  BY <1>1, <1>5, FailFileStep, FileKeeps
<1>6. CASE Main
  BY <1>6, StartWavesKeeps, StartWaveKeeps, EndWaveKeeps, NoMoreWavesKeeps, FinishKeeps DEF Main
<1> QED BY <1>2, <1>3, <1>4, <1>5, <1>6 DEF Next

(* The invariant holds in every state of a run. *)
THEOREM Invariance == Spec => []IInv
<1>1. Init => IInv
  BY InitHolds
<1>2. IInv /\ [Next]_vars => IInv'
  BY NextKeeps, StutterKeeps
<1> QED BY <1>1, <1>2, PTL DEF Spec

(* Every variable of a run of the importer keeps its type. *)
THEOREM TypeCorrect == Spec => []TypeOK
<1>1. IInv => TypeOK
  BY DEF IInv
<1> QED BY <1>1, Invariance, PTL

(* The rows that providers claim in all waves together never exceed those of
   the workflow: the waves divide between them what fair_row_limits gives out,
   and that is exactly what the earlier waves left. *)
THEOREM RowsWithinLimitHolds == Spec => []RowsWithinLimit
<1>1. ASSUME IInv, phase = "running"
      PROVE  processed + TotalOf(claimed, running) <= budget
  <2>1. TypeOK /\ RowsShared
    BY <1>1 DEF IInv
  <2>2. /\ claimed \in [Providers -> Nat] /\ limit \in [Providers -> Nat]
        /\ processed \in Nat /\ budget \in Nat
    BY <2>1, MaxRowsType DEF TypeOK
  <2>3. TotalOf(claimed, running) <= TotalOf(limit, running)
    BY <2>1, <2>2, TotalOfMonotone DEF RowsShared
  <2>4. TotalOf(claimed, running) \in Nat /\ TotalOf(limit, running) \in Nat
    BY <2>2, TotalOfNat
  <2> QED BY <1>1, <2>1, <2>2, <2>3, <2>4 DEF RowsShared
<1>2. IInv => RowsWithinLimit
  BY <1>1 DEF RowsWithinLimit
<1> QED BY <1>2, Invariance, PTL

(* What is on disk stays within MAX_TEMP_FEED_STORAGE_MB, and a feed is on disk
   exactly as long as its provider may still be imported. *)
THEOREM FeedsKeptHolds == Spec => []FeedsKept
<1>1. ASSUME IInv
      PROVE  FeedsKept
  <2>1. TypeOK /\ StorageCounted /\ FeedsWhere
    BY <1>1 DEF IInv
  <2>2. TotalOf(stored, Providers) + orphaned <= StorageLimit
    BY <2>1 DEF StorageCounted
  <2>3. phase \notin {"preparing", "ended"} =>
          \A p \in Providers : stored[p] # 0 <=> p \in pending \cup running
    BY <2>1 DEF FeedsWhere, TypeOK
  <2>4. phase = "ended" => TotalOf(stored, Providers) = 0 /\ used_bytes = orphaned
    BY <2>1, TotalOfZero DEF FeedsWhere, StorageCounted, TypeOK
  <2> QED BY <2>2, <2>3, <2>4 DEF FeedsKept
<1> QED BY <1>1, Invariance, PTL

(* A run without an error or the end of a write budget served every provider
   with work, and leaves work only if its rows are used up. *)
THEOREM WorkConservingHolds == Spec => []WorkConserving
<1>1. IInv => WorkConserving
  BY DEF IInv, Serving, AllServed, Served, WorkConserving, CleanEnd
<1> QED BY <1>1, Invariance, PTL

(* When main releases what is left of its lease, no task is left that could
   spend it and no reservation is held. *)
THEOREM NothingLeftRunningHolds == Spec => []NothingLeftRunning
<1>1. ASSUME IInv, phase = "over"
      PROVE  running = {} /\ held = 0 /\ \A f \in Files : task[f] \in {"none", "done", "failed"}
  <2>1. TypeOK /\ WaveShape /\ HeldIsActive /\ running = {}
    BY <1>1 DEF IInv, WaveShape
  <2> QED BY <2>1, NobodyRuns DEF Ended
<1>2. IInv => NothingLeftRunning
  BY <1>1 DEF NothingLeftRunning
<1> QED BY <1>2, Invariance, PTL
=============================================================================
