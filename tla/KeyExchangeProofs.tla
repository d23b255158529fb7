------------------------- MODULE KeyExchangeProofs -------------------------
(***************************************************************************)
(* Proofs about KeyExchange, for every base, width, key and HKDF.          *)
(*                                                                         *)
(* What a fold or a recursive function computes is proved by induction.    *)
(* The induction theorems of the library take an operator, which none of   *)
(* the provers can be given; here induction is about a set of naturals     *)
(* instead (AllNaturals), from the least element of its complement, and a  *)
(* recursion is solved as a function (RecursionExists, FoldExists).  From  *)
(* there the folds of the model are unrolled one element at a time         *)
(* (ValueSteps, HashSteps, SumSteps), and everything else is arithmetic.   *)
(***************************************************************************)
EXTENDS KeyExchange, FiniteSetTheorems, WellFoundedInduction, TLAPS

(* A set of naturals that is not empty has a least element. *)
LEMMA LeastNatural ==
    ASSUME NEW S \in SUBSET Nat, S # {}
    PROVE  \E k \in S : \A j \in S : k <= j
<1>1. PICK k \in S : \A j \in S : ~(<<j, k>> \in OpToRel(<, Nat))
  BY WFMin, NatLessThanWellFounded
<1>2. \A j \in S : ~(j < k)
  BY <1>1 DEF OpToRel
<1>3. QED BY <1>2

(* Induction, for a set of naturals. *)
LEMMA AllNaturals ==
    ASSUME NEW S, 0 \in S, \A n \in Nat : n \in S => n + 1 \in S
    PROVE  Nat \subseteq S
<1> SUFFICES ASSUME Nat \ S # {} PROVE FALSE
  OBVIOUS
<1>1. PICK k \in Nat \ S : \A j \in Nat \ S : k <= j
  <2> DEFINE T == Nat \ S
  <2>1. T \in SUBSET Nat /\ T # {}
    OBVIOUS
  <2> HIDE DEF T
  <2>2. \E k \in T : \A j \in T : k <= j
    BY <2>1, LeastNatural
  <2>3. QED BY <2>2 DEF T
<1>2. k # 0
  BY <1>1
<1>3. k - 1 \in Nat /\ ~(k <= k - 1)
  BY <1>2
<1>4. k - 1 \in S
  BY <1>1, <1>3
<1>5. (k - 1) + 1 = k
  OBVIOUS
<1>6. QED BY <1>3, <1>4, <1>5, <1>1

(* The first N steps of a recursion from c. *)
Runs(X, c, step, N) ==
    {g \in [0..N -> X] :
        g[0] = c /\ \A i \in 1..N : g[i] = step[i][g[i - 1]]}

(* All the steps of it. *)
Solves(f, X, c, step) ==
    f \in [Nat -> X] /\ f[0] = c /\ \A n \in Nat : f[n + 1] = step[n + 1][f[n]]

(* A recursion over the naturals has a solution. *)
LEMMA RecursionExists ==
    ASSUME NEW X, NEW c \in X, NEW step \in [Nat -> [X -> X]]
    PROVE  \E f : Solves(f, X, c, step)
<1> DEFINE R(N) == Runs(X, c, step, N)
<1>1. \A N \in Nat : R(N) # {}
  <2> DEFINE S == {N \in Nat : R(N) # {}}
  <2>1. 0 \in S
    <3>1. [i \in 0..0 |-> c] \in R(0)
      BY DEF Runs
    <3>2. QED BY <3>1
  <2>2. ASSUME NEW N \in Nat, N \in S PROVE N + 1 \in S
    <3>1. PICK g \in R(N) : TRUE
      BY <2>2
    <3> DEFINE h == [i \in 0..(N + 1) |-> IF i = N + 1 THEN step[N + 1][g[N]] ELSE g[i]]
    <3>2. g \in [0..N -> X] /\ g[0] = c /\ \A i \in 1..N : g[i] = step[i][g[i - 1]]
      BY <3>1 DEF Runs
    <3>3. step[N + 1] \in [X -> X] /\ g[N] \in X
      BY <3>2
    <3>4. h \in [0..(N + 1) -> X]
      BY <3>2, <3>3
    <3>5. h[0] = c
      BY <3>2
    <3>6. ASSUME NEW i \in 1..(N + 1) PROVE h[i] = step[i][h[i - 1]]
      <4>1. i - 1 \in 0..N /\ h[i - 1] = g[i - 1]
        OBVIOUS
      <4>2. CASE i = N + 1
        BY <4>1, <4>2
      <4>3. CASE i # N + 1
        BY <4>1, <4>3, <3>2
      <4>4. QED BY <4>2, <4>3
    <3>7. h \in R(N + 1)
      BY <3>4, <3>5, <3>6 DEF Runs
    <3>8. QED BY <3>7
  <2>3. Nat \subseteq S
    <3> HIDE DEF S
    <3>1. QED BY <2>1, <2>2, AllNaturals
  <2>4. QED BY <2>3
<1>2. ASSUME NEW M \in Nat, NEW N \in Nat, M <= N, NEW g \in R(M), NEW h \in R(N)
      PROVE  \A i \in 0..M : g[i] = h[i]
  <2> DEFINE S == {i \in Nat : i <= M => g[i] = h[i]}
  <2>1. 0 \in S
    BY DEF Runs
  <2>2. ASSUME NEW i \in Nat, i \in S PROVE i + 1 \in S
    <3>1. CASE i + 1 <= M
      <4>1. i + 1 \in 1..M /\ i + 1 \in 1..N /\ (i + 1) - 1 = i
        BY <1>2, <3>1
      <4>2. g[i + 1] = step[i + 1][g[i]] /\ h[i + 1] = step[i + 1][h[i]]
        BY <4>1 DEF Runs
      <4>3. QED BY <4>2, <2>2, <3>1
    <3>2. QED BY <3>1
  <2>3. Nat \subseteq S
    <3> HIDE DEF S
    <3>1. QED BY <2>1, <2>2, AllNaturals
  <2>4. QED BY <2>3
<1> DEFINE run(N) == CHOOSE g : g \in R(N)
           f == [N \in Nat |-> run(N)[N]]
<1>3. \A N \in Nat : run(N) \in R(N)
  BY <1>1
<1> HIDE DEF run
<1>4. ASSUME NEW n \in Nat
      PROVE  f[n] \in X /\ f[n + 1] = step[n + 1][f[n]]
  <2>1. run(n) \in R(n) /\ run(n + 1) \in R(n + 1)
    BY <1>3
  <2>2. run(n)[n] = run(n + 1)[n]
    BY <2>1, <1>2
  <2>3. n + 1 \in 1..(n + 1) /\ (n + 1) - 1 = n
    OBVIOUS
  <2>4. run(n + 1)[n + 1] = step[n + 1][run(n + 1)[n]]
    BY <2>1, <2>3 DEF Runs
  <2>5. run(n)[n] \in X
    BY <2>1 DEF Runs
  <2>6. QED BY <2>2, <2>4, <2>5
<1>5. f[0] = c
  BY <1>3 DEF Runs
<1>6. f \in [Nat -> X]
  BY <1>4
<1>7. QED BY <1>4, <1>5, <1>6 DEF Solves

(* f folds every set of indices, taking the one that pick names first. *)
FoldsBy(f, n, X, base, step, pick) ==
    /\ f \in [SUBSET (1..n) -> X]
    /\ \A s \in SUBSET (1..n) :
         f[s] = IF s = {} THEN base ELSE step[pick[s]][f[s \ {pick[s]}]]

(* A fold that takes its elements in some order has a value. *)
LEMMA FoldExists ==
    ASSUME NEW n \in Nat, NEW X, NEW base \in X, NEW step \in [1..n -> [X -> X]],
           NEW pick, \A s \in SUBSET (1..n) : s # {} => pick[s] \in s
    PROVE  \E iter : FoldsBy(iter, n, X, base, step, pick)
<1> DEFINE Sets == SUBSET (1..n)
           Y == [Sets -> X]
           start == [s \in Sets |-> base]
           next(g) == [s \in Sets |-> IF s = {} THEN base
                                      ELSE step[pick[s]][g[s \ {pick[s]}]]]
           steps == [k \in Nat |-> [g \in Y |-> next(g)]]
<1>1. ASSUME NEW g \in Y PROVE next(g) \in Y
  <2>1. ASSUME NEW s \in Sets, s # {} PROVE step[pick[s]][g[s \ {pick[s]}]] \in X
    <3>1. pick[s] \in 1..n /\ s \ {pick[s]} \in Sets
      BY <2>1
    <3>2. QED BY <3>1
  <2>2. QED BY <2>1
<1>2. start \in Y
  OBVIOUS
<1>3. steps \in [Nat -> [Y -> Y]]
  BY <1>1
<1>4. \A k \in Nat, g \in Y : steps[k + 1][g] = next(g)
  <2> HIDE DEF Y, next
  <2>1. QED OBVIOUS
<1>5. PICK F \in [Nat -> Y] :
        F[0] = start /\ \A k \in Nat : F[k + 1] = next(F[k])
  <2> HIDE DEF steps, Y, start, next
  <2>1. PICK F : Solves(F, Y, start, steps)
    BY <1>2, <1>3, RecursionExists
  <2>2. ASSUME NEW k \in Nat PROVE F[k + 1] = next(F[k])
    <3>1. F[k] \in Y /\ F[k + 1] = steps[k + 1][F[k]]
      BY <2>1 DEF Solves
    <3>2. QED BY <3>1, <1>4
  <2>3. QED BY <2>1, <2>2 DEF Solves
<1> DEFINE iter == [s \in Sets |-> F[Cardinality(s)][s]]
<1>6. ASSUME NEW s \in Sets PROVE IsFiniteSet(s)
  <2>1. IsFiniteSet(1..n)
    BY FS_Interval
  <2>2. QED BY <2>1, FS_Subset
<1>7. ASSUME NEW s \in Sets
      PROVE  iter[s] = IF s = {} THEN base ELSE step[pick[s]][iter[s \ {pick[s]}]]
  <2>1. CASE s = {}
    BY <2>1, <1>5, FS_EmptySet
  <2>2. CASE s # {}
    <3> DEFINE t == s \ {pick[s]}
               k == Cardinality(t)
    <3>1. pick[s] \in s /\ t \in Sets /\ IsFiniteSet(s)
      BY <2>2, <1>6
    <3>2. k \in Nat /\ Cardinality(s) = k + 1
      <4>1. Cardinality(s) \in Nat /\ k \in Nat
        BY <3>1, FS_CardinalityType, <1>6
      <4>2. k = Cardinality(s) - 1
        BY <3>1, FS_RemoveElement
      <4>3. QED BY <4>1, <4>2
    <3> HIDE DEF t, k
    <3>3. iter[s] = F[k + 1][s]
      BY <3>2
    <3>4. F[k + 1][s] = step[pick[s]][F[k][t]]
      <4>1. F[k + 1] = next(F[k])
        BY <3>2, <1>5
      <4>2. next(F[k])[s] = step[pick[s]][F[k][s \ {pick[s]}]]
        BY <2>2
      <4>3. QED BY <4>1, <4>2 DEF t
    <3>5. iter[t] = F[k][t]
      BY <3>1 DEF k
    <3>6. QED BY <3>3, <3>4, <3>5, <2>2 DEF t
  <2>3. QED BY <2>1, <2>2
<1>8. iter \in [Sets -> X]
  <2>1. ASSUME NEW s \in Sets PROVE F[Cardinality(s)][s] \in X
    <3>1. Cardinality(s) \in Nat
      BY <1>6, FS_CardinalityType
    <3>2. F[Cardinality(s)] \in Y
      <4> HIDE DEF Y
      <4>1. QED BY <3>1, <1>5
    <3>3. QED BY <3>2
  <2>2. QED BY <2>1
<1>9. QED BY <1>7, <1>8 DEF FoldsBy

-----------------------------------------------------------------------------
(* Powers of the base, and division by them. *)

LEMMA PowerSteps ==
    /\ Power[0] = 1
    /\ \A k \in Nat : Power[k + 1] = Base * Power[k] /\ Power[k] \in Nat \ {0}
<1> USE BaseAssumption
<1> DEFINE Equation(f) == f = [k \in Nat |-> IF k = 0 THEN 1 ELSE Base * f[k - 1]]
           X == Nat \ {0}
           step == [n \in Nat |-> [x \in X |-> Base * x]]
<1>1. step \in [Nat -> [X -> X]] /\ 1 \in X
  OBVIOUS
<1>2. PICK f : Solves(f, X, 1, step)
  <2> HIDE DEF X, step
  <2>1. QED BY <1>1, RecursionExists
<1>3. f \in [Nat -> X] /\ f[0] = 1 /\ \A n \in Nat : f[n + 1] = Base * f[n]
  <2>1. \A n \in Nat, x \in X : step[n + 1][x] = Base * x
    OBVIOUS
  <2> HIDE DEF X, step
  <2>2. QED BY <1>2, <2>1 DEF Solves
<1>4. Equation(f)
  <2>1. ASSUME NEW k \in Nat PROVE f[k] = IF k = 0 THEN 1 ELSE Base * f[k - 1]
    <3>1. CASE k # 0
      <4>1. k - 1 \in Nat /\ (k - 1) + 1 = k
        BY <3>1
      <4>2. f[(k - 1) + 1] = Base * f[k - 1]
        BY <4>1, <1>3
      <4>3. QED BY <4>1, <4>2, <3>1
    <3>2. QED BY <3>1, <1>3
  <2>2. QED BY <2>1, <1>3
<1>5. Equation(Power)
  BY <1>4 DEF Power
<1>6. Power[0] = 1 /\ \A k \in Nat : Power[k + 1] = Base * Power[k]
  <2>1. ASSUME NEW k \in Nat PROVE Power[k] = IF k = 0 THEN 1 ELSE Base * Power[k - 1]
    BY <1>5
  <2>2. QED BY <2>1
<1>7. Nat \subseteq {k \in Nat : Power[k] \in X}
  <2> DEFINE S == {k \in Nat : Power[k] \in X}
  <2>1. 0 \in S
    BY <1>6
  <2>2. \A n \in Nat : n \in S => n + 1 \in S
    BY <1>6
  <2> HIDE DEF S
  <2>3. Nat \subseteq S
    BY <2>1, <2>2, AllNaturals
  <2>4. QED BY <2>3 DEF S
<1>8. QED BY <1>6, <1>7

(* A higher power is no smaller. *)
LEMMA PowerGrows ==
    ASSUME NEW j \in Nat, NEW k \in Nat, j <= k
    PROVE  Power[j] <= Power[k]
<1> DEFINE S == {i \in Nat : Power[j] <= Power[j + i]}
<1>1. 0 \in S
  BY PowerSteps
<1>2. ASSUME NEW i \in Nat, i \in S PROVE i + 1 \in S
  <2>1. Power[j + i] \in Nat /\ Power[(j + i) + 1] = Base * Power[j + i] /\ Power[j] \in Nat
    BY PowerSteps
  <2>2. \A x \in Nat : x <= Base * x
    BY BaseAssumption
  <2>3. (j + i) + 1 = j + (i + 1)
    OBVIOUS
  <2>4. Power[j + i] <= Power[j + (i + 1)] /\ Power[j + (i + 1)] \in Nat
    BY <2>1, <2>2, <2>3, BaseAssumption
  <2>5. QED BY <1>2, <2>1, <2>4
<1> HIDE DEF S
<1>3. Nat \subseteq S
  BY <1>1, <1>2, AllNaturals
<1>4. k - j \in S /\ j + (k - j) = k
  BY <1>3
<1>5. QED BY <1>4 DEF S

(* A quotient and a remainder are the only ones. *)
LEMMA DivisionIsUnique ==
    ASSUME NEW n \in Nat, NEW d \in Nat \ {0}, NEW q \in Nat, NEW r \in Nat,
           n = d * q + r, r < d
    PROVE  n \div d = q /\ n % d = r
<1>1. n \div d \in Nat /\ n % d \in Nat /\ n % d < d /\ n = d * (n \div d) + (n % d)
  OBVIOUS
<1> DEFINE p == n \div d
           s == n % d
<1> HIDE DEF p, s
<1>2. p \in Nat /\ s \in Nat /\ s < d /\ d * p + s = d * q + r
  BY <1>1 DEF p, s
<1>3. \A a, b \in Nat : a < b => d * a + d <= d * b
  <2> TAKE a \in Nat, b \in Nat
  <2> HAVE a < b
  <2>1. d * b = d * a + d * (b - a) /\ b - a >= 1
    OBVIOUS
  <2>2. \A x \in Nat : x >= 1 => d * x >= d
    OBVIOUS
  <2>3. QED BY <2>1, <2>2
<1>4. p = q
  <2>1. d * p \in Nat /\ d * q \in Nat
    BY <1>2
  <2>2. ~(p < q)
    BY <1>2, <1>3, <2>1
  <2>3. ~(q < p)
    BY <1>2, <1>3, <2>1
  <2>4. QED BY <1>2, <2>2, <2>3
<1>5. s = r
  BY <1>2, <1>4
<1>6. QED BY <1>4, <1>5 DEF p, s

(* Dividing by a product is dividing twice. *)
LEMMA DividedTwice ==
    ASSUME NEW n \in Nat, NEW c \in Nat \ {0}, NEW d \in Nat \ {0}
    PROVE  /\ n \div (d * c) = (n \div c) \div d
           /\ n \div c = d * (n \div (d * c)) + ((n \div c) % d)
<1> DEFINE q == n \div c
           r == n % c
           p == q \div d
           s == q % d
<1>1. q \in Nat /\ r \in Nat /\ r < c /\ n = c * q + r
  OBVIOUS
<1> HIDE DEF q, r
<1>2. p \in Nat /\ s \in Nat /\ s < d /\ q = d * p + s
  BY <1>1
<1> HIDE DEF p, s
<1>3. n = (d * c) * p + (c * s + r)
  <2>1. c * q = c * (d * p) + c * s
    BY <1>2
  <2>2. c * (d * p) = (d * c) * p
    BY <1>2
  <2>3. c * (d * p) \in Nat /\ c * s \in Nat /\ (d * c) * p \in Nat
    BY <1>2
  <2>4. QED BY <2>1, <2>2, <2>3, <1>1
<1>4. c * s + r < d * c /\ c * s + r \in Nat /\ d * c \in Nat \ {0}
  <2>1. c * (d - s) >= c
    <3>1. \A x \in Nat : x >= 1 => c * x >= c
      OBVIOUS
    <3>2. d - s \in Nat /\ d - s >= 1
      BY <1>2
    <3>3. QED BY <3>1, <3>2
  <2>2. d * c = c * s + c * (d - s)
    BY <1>2
  <2>3. c * s \in Nat /\ d * c \in Nat /\ c * (d - s) \in Nat
    BY <1>2
  <2>4. QED BY <2>1, <2>2, <2>3, <1>1
<1>5. n \div (d * c) = p
  BY <1>2, <1>3, <1>4, DivisionIsUnique
<1>6. QED BY <1>5, <1>2 DEF p, s, q

-----------------------------------------------------------------------------
(* The folds of the model, one element at a time. *)

LEMMA GreatestAndLeast ==
    ASSUME NEW n \in Nat, NEW s \in SUBSET (1..n), s # {}
    PROVE  /\ Max(s) \in s /\ \A x \in s : Max(s) >= x
           /\ Min(s) \in s /\ \A x \in s : Min(s) <= x
<1>1. \E x \in s : \A y \in s : x >= y
  <2> DEFINE T == {n - x : x \in s}
  <2>1. T \in SUBSET Nat /\ T # {}
    <3>1. \A x \in s : n - x \in Nat
      OBVIOUS
    <3>2. QED BY <3>1
  <2>2. PICK k \in T : \A j \in T : k <= j
    <3> HIDE DEF T
    <3>1. QED BY <2>1, LeastNatural
  <2>3. PICK x \in s : k = n - x
    OBVIOUS
  <2>4. ASSUME NEW y \in s PROVE x >= y
    <3>1. n - y \in T
      OBVIOUS
    <3>2. n - x <= n - y
      BY <3>1, <2>2, <2>3
    <3>3. QED BY <3>2
  <2>5. QED BY <2>4
<1>2. \E x \in s : \A y \in s : x <= y
  BY LeastNatural
<1>3. QED BY <1>1, <1>2 DEF Max, Min

(* Which index an interval loses first, from either end. *)
LEMMA EndsOfIntervals ==
    ASSUME NEW n \in Nat, NEW k \in 1..n
    PROVE  /\ Max(1..k) = k /\ (1..k) \ {k} = 1..(k - 1)
           /\ Min(k..n) = k /\ (k..n) \ {k} = (k + 1)..n
<1>1. 1..k \in SUBSET (1..n) /\ 1..k # {} /\ k \in 1..k
  OBVIOUS
<1>2. k..n \in SUBSET (1..n) /\ k..n # {} /\ k \in k..n
  OBVIOUS
<1>3. Max(1..k) \in 1..k /\ Max(1..k) >= k
  BY <1>1, GreatestAndLeast
<1>4. Min(k..n) \in k..n /\ Min(k..n) <= k
  BY <1>2, GreatestAndLeast
<1>5. QED BY <1>3, <1>4

(* v is what a fold from the left has after each of the first elements. *)
Steps(v, n, X, base, step) ==
    v \in [0..n -> X] /\ v[0] = base /\ \A i \in 1..n : v[i] = step[i][v[i - 1]]

(* iter folds the elements of a set from the greatest one down. *)
FoldsDown(iter, n, X, base, step) ==
    /\ n \in Nat /\ base \in X /\ step \in [1..n -> [X -> X]]
    /\ iter[{}] = base
    /\ \A s \in SUBSET (1..n) :
         s # {} /\ iter[s \ {Max(s)}] \in X =>
           iter[s] = step[Max(s)][iter[s \ {Max(s)}]]

(* A fold from the left is unrolled from the first element on. *)
LEMMA FromTheLeft ==
    ASSUME NEW iter, NEW n, NEW X, NEW base, NEW step, FoldsDown(iter, n, X, base, step)
    PROVE  \E v : Steps(v, n, X, base, step) /\ v[n] = iter[1..n]
<1>a. n \in Nat
  BY DEF FoldsDown
<1>b. base \in X /\ step \in [1..n -> [X -> X]]
  BY DEF FoldsDown
<1> USE <1>a
<1> DEFINE v == [i \in 0..n |-> iter[1..i]]
           S == {i \in Nat : i <= n => v[i] \in X}
<1>1. v[0] = base
  <2>1. 1..0 = {}
    OBVIOUS
  <2>2. v[0] = iter[1..0]
    OBVIOUS
  <2>3. QED BY <2>1, <2>2 DEF FoldsDown
<1>2. ASSUME NEW i \in 1..n, v[i - 1] \in X PROVE v[i] = step[i][v[i - 1]]
  <2>1. 1..i \in SUBSET (1..n) /\ 1..i # {}
    OBVIOUS
  <2>2. Max(1..i) = i /\ (1..i) \ {i} = 1..(i - 1)
    BY EndsOfIntervals
  <2>3. v[i] = iter[1..i] /\ v[i - 1] = iter[1..(i - 1)]
    OBVIOUS
  <2> HIDE DEF v
  <2>4. iter[(1..i) \ {Max(1..i)}] \in X
    BY <1>2, <2>2, <2>3
  <2>5. iter[1..i] = step[Max(1..i)][iter[(1..i) \ {Max(1..i)}]]
    BY <2>1, <2>4 DEF FoldsDown
  <2>6. QED BY <2>2, <2>3, <2>5
<1>3. 0 \in S
  BY <1>1, <1>b
<1>4. ASSUME NEW i \in Nat, i \in S PROVE i + 1 \in S
  <2> SUFFICES ASSUME i + 1 <= n PROVE v[i + 1] \in X
    OBVIOUS
  <2>1. i + 1 \in 1..n /\ (i + 1) - 1 = i /\ v[i] \in X
    BY <1>4
  <2> HIDE DEF v
  <2>2. v[i + 1] = step[i + 1][v[i]]
    BY <2>1, <1>2
  <2>3. QED BY <2>1, <2>2, <1>b
<1>5. v[n] = iter[1..n] /\ v = [i \in 0..n |-> v[i]]
  OBVIOUS
<1> HIDE DEF S
<1>6. Nat \subseteq S
  BY <1>3, <1>4, AllNaturals
<1> HIDE DEF v
<1>7. \A i \in 0..n : v[i] \in X
  BY <1>6 DEF S
<1>8. \A i \in 1..n : i - 1 \in 0..n
  OBVIOUS
<1>9. Steps(v, n, X, base, step)
  BY <1>1, <1>2, <1>5, <1>7, <1>8 DEF Steps
<1>10. QED BY <1>9, <1>5

(* v is the value of b after each of its first bytes. *)
Reads(v, n, b) ==
    v[0] = 0 /\ \A i \in 1..n : v[i - 1] \in Int /\ v[i] = v[i - 1] * Base + b[i]

(* Value, one byte at a time. *)
LEMMA ValueSteps ==
    ASSUME NEW n \in Nat, NEW b \in [1..n -> Int]
    PROVE  \E v : Reads(v, n, b) /\ Value(b) = v[n]
<1> USE BaseAssumption
<1> DEFINE Equation(f) == f = [s \in SUBSET DOMAIN b |->
                                 IF s = {} THEN 0
                                 ELSE f[s \ {Max(s)}] * Base + b[Max(s)]]
           step == [i \in 1..n |-> [x \in Int |-> x * Base + b[i]]]
           pick == [s \in SUBSET (1..n) |-> Max(s)]
           iter == CHOOSE f : Equation(f)
<1>1. \A s \in SUBSET (1..n) : s # {} => Max(s) \in s /\ pick[s] = Max(s)
  BY GreatestAndLeast
<1>2. step \in [1..n -> [Int -> Int]] /\ 0 \in Int
  OBVIOUS
<1>3. \A i \in 1..n, x \in Int : step[i][x] = x * Base + b[i]
  OBVIOUS
<1>4. DOMAIN b = 1..n
  OBVIOUS
<1> HIDE DEF step, pick
<1>5. PICK f : FoldsBy(f, n, Int, 0, step, pick)
  BY <1>1, <1>2, FoldExists
<1>6. Equation(f)
  <2>1. ASSUME NEW s \in SUBSET (1..n)
        PROVE  f[s] = IF s = {} THEN 0 ELSE f[s \ {Max(s)}] * Base + b[Max(s)]
    <3>1. CASE s # {}
      <4>1. Max(s) \in 1..n /\ pick[s] = Max(s)
        BY <3>1, <1>1
      <4>2. f[s \ {Max(s)}] \in Int
        BY <1>5 DEF FoldsBy
      <4>3. f[s] = step[Max(s)][f[s \ {Max(s)}]]
        BY <1>5, <3>1, <4>1 DEF FoldsBy
      <4>4. QED BY <4>1, <4>2, <4>3, <3>1, <1>3
    <3>2. QED BY <3>1, <1>5 DEF FoldsBy
  <2>2. f = [s \in SUBSET (1..n) |-> f[s]]
    BY <1>5 DEF FoldsBy
  <2>3. QED BY <1>4, <2>1, <2>2
<1>7. Equation(iter)
  BY <1>6
<1>8. Value(b) = iter[DOMAIN b]
  BY DEF Value, FoldLeft, MapThenFoldSet
<1> HIDE DEF iter
<1>9. ASSUME NEW s \in SUBSET (1..n)
      PROVE  iter[s] = IF s = {} THEN 0 ELSE iter[s \ {Max(s)}] * Base + b[Max(s)]
  BY <1>4, <1>7
<1> HIDE DEF Equation
<1>10. iter[{}] = 0
  BY <1>9
<1>11. ASSUME NEW s \in SUBSET (1..n), s # {}, iter[s \ {Max(s)}] \in Int
       PROVE  iter[s] = step[Max(s)][iter[s \ {Max(s)}]]
  <2>1. Max(s) \in 1..n
    BY <1>1, <1>11
  <2>2. QED BY <2>1, <1>3, <1>9, <1>11
<1>12. PICK v : Steps(v, n, Int, 0, step) /\ v[n] = iter[1..n]
  <2> DEFINE X == Int
             zero == 0
  <2>1. FoldsDown(iter, n, X, zero, step)
    BY <1>2, <1>10, <1>11 DEF FoldsDown
  <2> HIDE DEF X, zero
  <2>2. \E v : Steps(v, n, X, zero, step) /\ v[n] = iter[1..n]
    BY <2>1, FromTheLeft
  <2>3. QED BY <2>2 DEF X, zero
<1>13. Reads(v, n, b)
  <2>1. \A i \in 1..n : v[i - 1] \in Int
    BY <1>12 DEF Steps
  <2>2. QED BY <2>1, <1>12, <1>3 DEF Steps, Reads
<1>14. Value(b) = v[n]
  BY <1>4, <1>8, <1>12
<1>15. QED BY <1>13, <1>14

-----------------------------------------------------------------------------
(* The hash of the PIN. *)

(* What Rem gives, what % gives, and what the hash of the PIN carries along. *)
Residue == {h \in Int : h >= -9972 /\ h <= 9972}
Remainders == {m \in Nat : m <= 9972}
Acc == [hash : Residue, multiplier : Remainders]

(* Both are numbers. *)
LEMMA ResiduesAreNumbers == Residue \subseteq Int /\ Remainders \subseteq Nat
BY DEF Residue, Remainders

(* The remainder of TLA+ is one of them. *)
LEMMA ModuloType ==
    ASSUME NEW a \in Int
    PROVE  /\ a % 9973 \in Remainders /\ a \div 9973 \in Int
           /\ a = 9973 * (a \div 9973) + (a % 9973)
BY DEF Remainders

(* A remainder and its negation are residues. *)
LEMMA RemaindersAreResidues ==
    ASSUME NEW m \in Remainders
    PROVE  m \in Residue /\ -m \in Residue
BY DEF Residue, Remainders

(* The remainder of Rust is one of them. *)
LEMMA RemType ==
    ASSUME NEW a \in Int
    PROVE  /\ Rem(a, 9973) \in Residue
           /\ \E q \in Int : Rem(a, 9973) = a + q * 9973
<1>1. CASE a >= 0
  <2>1. Rem(a, 9973) = a % 9973
    BY <1>1 DEF Rem
  <2>2. a % 9973 \in Remainders /\ a \div 9973 \in Int
        /\ a = 9973 * (a \div 9973) + (a % 9973)
    BY ModuloType
  <2> DEFINE r == a % 9973
             q == a \div 9973
  <2>3. r \in Int /\ q \in Int /\ a = 9973 * q + r
    BY <2>2, ResiduesAreNumbers
  <2> HIDE DEF r, q
  <2>4. -q \in Int /\ r = a + (-q) * 9973
    BY <2>3
  <2>5. Rem(a, 9973) = r /\ r \in Residue
    BY <2>1, <2>2, RemaindersAreResidues DEF r
  <2>6. QED BY <2>4, <2>5
<1>2. CASE ~(a >= 0)
  <2> DEFINE c == -a
             r == c % 9973
             q == c \div 9973
  <2>1. Rem(a, 9973) = -r /\ c \in Int
    BY <1>2 DEF Rem
  <2>2. c = -a
    OBVIOUS
  <2> HIDE DEF c
  <2>3. r \in Remainders /\ q \in Int /\ c = 9973 * q + r
    BY <2>1, ModuloType
  <2> HIDE DEF r, q
  <2>4. r \in Int /\ -r \in Residue
    BY <2>3, ResiduesAreNumbers, RemaindersAreResidues
  <2>5. -r = a + q * 9973
    BY <2>2, <2>3, <2>4
  <2>6. QED BY <2>1, <2>3, <2>4, <2>5
<1>3. QED BY <1>1, <1>2

(* A step of the hash stays in range. *)
LEMMA HashStepType ==
    ASSUME NEW acc \in Acc, NEW byte \in Byte
    PROVE  HashStep(acc, byte) \in Acc
<1>1. Signed(byte) \in Int
  BY DEF Byte, Signed
<1>2. acc.hash \in Int /\ acc.multiplier \in Int
  <2> DEFINE h == acc.hash
             m == acc.multiplier
  <2>1. h \in Residue /\ m \in Remainders
    BY DEF Acc
  <2> HIDE DEF h, m
  <2>2. h \in Int /\ m \in Int
    BY <2>1, ResiduesAreNumbers
  <2>3. QED BY <2>2 DEF h, m
<1>3. acc.hash + Signed(byte) * acc.multiplier \in Int
  BY <1>1, <1>2
<1>4. Rem(acc.hash + Signed(byte) * acc.multiplier, 9973) \in Residue
  BY <1>3, RemType
<1>5. NextMultiplier(acc.multiplier) \in Remainders
  <2> DEFINE x == acc.multiplier * 31
  <2>1. NextMultiplier(acc.multiplier) = x % 9973 /\ x \in Int
    BY <1>2 DEF NextMultiplier, Modulo, Multiplier
  <2> HIDE DEF x
  <2>2. QED BY <2>1, ModuloType
<1>6. QED BY <1>4, <1>5 DEF HashStep, Acc, Modulo

(* v is what the hash of b has after each of its first bytes. *)
Hashes(v, n, b) ==
    /\ v \in [0..n -> Acc]
    /\ v[0] = [hash |-> 0, multiplier |-> 1]
    /\ \A i \in 1..n : v[i] = HashStep(v[i - 1], b[i])

(* Hash, one byte at a time. *)
LEMMA HashSteps ==
    ASSUME NEW n \in Nat, NEW b \in [1..n -> Byte]
    PROVE  \E v : Hashes(v, n, b) /\ Hash(b) = v[n]
<1> DEFINE base == [hash |-> 0, multiplier |-> 1]
           Equation(f) == f = [s \in SUBSET DOMAIN b |->
                                 IF s = {} THEN base
                                 ELSE HashStep(f[s \ {Max(s)}], b[Max(s)])]
           step == [i \in 1..n |-> [x \in Acc |-> HashStep(x, b[i])]]
           pick == [s \in SUBSET (1..n) |-> Max(s)]
           iter == CHOOSE f : Equation(f)
<1>1. \A s \in SUBSET (1..n) : s # {} => Max(s) \in s /\ pick[s] = Max(s)
  BY GreatestAndLeast
<1>2. step \in [1..n -> [Acc -> Acc]]
  BY HashStepType
<1>3. \A i \in 1..n, x \in Acc : step[i][x] = HashStep(x, b[i])
  OBVIOUS
<1>4. DOMAIN b = 1..n
  OBVIOUS
<1>5. base \in Acc
  BY DEF Acc, Residue, Remainders
<1>6. Hash(b) = iter[DOMAIN b]
  BY DEF Hash, FoldLeft, MapThenFoldSet
<1> HIDE DEF step, pick, base
<1>7. PICK f : FoldsBy(f, n, Acc, base, step, pick)
  BY <1>1, <1>2, <1>5, FoldExists
<1>8. Equation(f)
  <2>1. ASSUME NEW s \in SUBSET (1..n)
        PROVE  f[s] = IF s = {} THEN base ELSE HashStep(f[s \ {Max(s)}], b[Max(s)])
    <3>1. CASE s # {}
      <4>1. Max(s) \in 1..n /\ pick[s] = Max(s)
        BY <3>1, <1>1
      <4>2. f[s \ {Max(s)}] \in Acc
        BY <1>7 DEF FoldsBy
      <4>3. f[s] = step[Max(s)][f[s \ {Max(s)}]]
        BY <1>7, <3>1, <4>1 DEF FoldsBy
      <4>4. QED BY <4>1, <4>2, <4>3, <3>1, <1>3
    <3>2. QED BY <3>1, <1>7 DEF FoldsBy
  <2>2. f = [s \in SUBSET (1..n) |-> f[s]]
    BY <1>7 DEF FoldsBy
  <2>3. QED BY <1>4, <2>1, <2>2
<1>9. Equation(iter)
  BY <1>8
<1> HIDE DEF iter
<1>10. ASSUME NEW s \in SUBSET (1..n)
       PROVE  iter[s] = IF s = {} THEN base ELSE HashStep(iter[s \ {Max(s)}], b[Max(s)])
  BY <1>4, <1>9
<1> HIDE DEF Equation
<1>11. iter[{}] = base
  BY <1>10
<1>12. ASSUME NEW s \in SUBSET (1..n), s # {}, iter[s \ {Max(s)}] \in Acc
       PROVE  iter[s] = step[Max(s)][iter[s \ {Max(s)}]]
  <2>1. Max(s) \in 1..n
    BY <1>1, <1>12
  <2>2. QED BY <2>1, <1>3, <1>10, <1>12
<1>13. PICK v : Steps(v, n, Acc, base, step) /\ v[n] = iter[1..n]
  <2>1. FoldsDown(iter, n, Acc, base, step)
    BY <1>2, <1>5, <1>11, <1>12 DEF FoldsDown
  <2>2. QED BY <2>1, FromTheLeft
<1>14. Hashes(v, n, b)
  <2>1. \A i \in 1..n : v[i - 1] \in Acc
    BY <1>13 DEF Steps
  <2>2. QED BY <2>1, <1>13, <1>3 DEF Steps, Hashes, base
<1>15. Hash(b) = v[n]
  BY <1>4, <1>6, <1>13
<1>16. QED BY <1>14, <1>15

-----------------------------------------------------------------------------
(* The sum, from the right, and what it has to do with the hash. *)

(* w is the sum from each byte of b on. *)
Sums(w, n, b) ==
    /\ w \in [1..(n + 1) -> Remainders]
    /\ w[n + 1] = 0
    /\ \A i \in 1..n : w[i] = (Signed(b[i]) + 31 * w[i + 1]) % 9973

(* Both ways to read a byte as an i8 agree. *)
LEMMA SignedByte ==
    ASSUME NEW byte \in Byte
    PROVE  Signed(byte) \in Int /\ ((byte + 128) % 256) - 128 = Signed(byte)
<1>1. CASE byte < 128
  <2>1. byte + 128 \in Nat /\ byte + 128 < 256 /\ byte + 128 = 256 * 0 + (byte + 128)
    BY <1>1 DEF Byte
  <2>2. (byte + 128) % 256 = byte + 128
    BY <2>1
  <2>3. QED BY <2>2, <1>1 DEF Signed, Byte
<1>2. CASE ~(byte < 128)
  <2>1. (byte + 128) % 256 = byte - 128
    BY <1>2 DEF Byte
  <2>2. QED BY <2>1, <1>2 DEF Signed, Byte
<1>3. QED BY <1>1, <1>2

(* A step of SignedSum. *)
AddByte(byte, sum) == ((((byte + 128) % 256) - 128) + 31 * sum) % 9973

(* A step of the sum stays in range. *)
LEMMA AddByteType ==
    ASSUME NEW byte \in Byte, NEW x \in Remainders
    PROVE  AddByte(byte, x) \in Remainders /\ AddByte(byte, x) = (Signed(byte) + 31 * x) % 9973
<1> DEFINE y == Signed(byte) + 31 * x
<1>1. AddByte(byte, x) = y % 9973
  BY SignedByte DEF AddByte
<1>2. y \in Int
  BY SignedByte DEF Remainders
<1> HIDE DEF y
<1>3. AddByte(byte, x) \in Remainders
  BY <1>1, <1>2 DEF Remainders
<1>4. QED BY <1>1, <1>3 DEF y

(* SignedSum, one byte at a time from the last. *)
LEMMA SumSteps ==
    ASSUME NEW n \in Nat, NEW b \in [1..n -> Byte]
    PROVE  \E w : Sums(w, n, b) /\ SignedSum(b) = w[1]
<1> DEFINE zero == 0
           Equation(f) == f = [s \in SUBSET DOMAIN b |->
                                 IF s = {} THEN zero
                                 ELSE AddByte(b[Min(s)], f[s \ {Min(s)}])]
           step == [i \in 1..n |-> [x \in Remainders |-> AddByte(b[i], x)]]
           pick == [s \in SUBSET (1..n) |-> Min(s)]
           iter == CHOOSE f : Equation(f)
<1>1. \A s \in SUBSET (1..n) : s # {} => Min(s) \in s /\ pick[s] = Min(s)
  BY GreatestAndLeast
<1>2. \A i \in 1..n, x \in Remainders :
        AddByte(b[i], x) \in Remainders /\ AddByte(b[i], x) = (Signed(b[i]) + 31 * x) % 9973
  BY AddByteType
<1>3. DOMAIN b = 1..n
  OBVIOUS
<1>4. SignedSum(b) = iter[DOMAIN b]
  BY DEF SignedSum, FoldRight, MapThenFoldSet, Modulo, Multiplier, AddByte
<1>5. step \in [1..n -> [Remainders -> Remainders]] /\ zero \in Remainders
  <2>1. zero \in Remainders
    BY DEF Remainders
  <2> HIDE DEF zero
  <2>2. QED BY <1>2, <2>1
<1>6. \A i \in 1..n, x \in Remainders : step[i][x] = AddByte(b[i], x)
  <2>1. QED OBVIOUS
<1> HIDE DEF step, pick, zero
<1>7. PICK f : FoldsBy(f, n, Remainders, zero, step, pick)
  BY <1>1, <1>5, FoldExists
<1>8. Equation(f)
  <2>1. ASSUME NEW s \in SUBSET (1..n)
        PROVE  f[s] = IF s = {} THEN zero ELSE AddByte(b[Min(s)], f[s \ {Min(s)}])
    <3>1. CASE s # {}
      <4>1. Min(s) \in 1..n /\ pick[s] = Min(s)
        BY <3>1, <1>1
      <4>2. f[s \ {Min(s)}] \in Remainders
        BY <1>7 DEF FoldsBy
      <4>3. f[s] = step[Min(s)][f[s \ {Min(s)}]]
        BY <1>7, <3>1, <4>1 DEF FoldsBy
      <4>4. QED BY <4>1, <4>2, <4>3, <3>1, <1>6
    <3>2. QED BY <3>1, <1>7 DEF FoldsBy
  <2>2. f = [s \in SUBSET (1..n) |-> f[s]]
    BY <1>7 DEF FoldsBy
  <2>3. QED BY <1>3, <2>1, <2>2
<1>9. Equation(iter)
  BY <1>8
<1> HIDE DEF iter
<1>10. ASSUME NEW s \in SUBSET (1..n)
       PROVE  iter[s] = IF s = {} THEN zero ELSE AddByte(b[Min(s)], iter[s \ {Min(s)}])
  BY <1>3, <1>9
<1> HIDE DEF Equation
<1> DEFINE w == [i \in 1..(n + 1) |-> iter[i..n]]
           S == {k \in Nat : k <= n => w[(n + 1) - k] \in Remainders}
<1>11. w[n + 1] = zero
  <2>1. (n + 1)..n = {} /\ w[n + 1] = iter[(n + 1)..n]
    OBVIOUS
  <2>2. QED BY <2>1, <1>10
<1>12. ASSUME NEW i \in 1..n PROVE w[i] = AddByte(b[i], w[i + 1])
  <2>1. i..n \in SUBSET (1..n) /\ i..n # {}
    OBVIOUS
  <2>2. Min(i..n) = i /\ (i..n) \ {i} = (i + 1)..n
    BY EndsOfIntervals
  <2>3. w[i] = iter[i..n] /\ w[i + 1] = iter[(i + 1)..n]
    <3>1. i \in 1..(n + 1) /\ i + 1 \in 1..(n + 1)
      OBVIOUS
    <3>2. QED BY <3>1
  <2> HIDE DEF w
  <2>4. QED BY <2>1, <2>2, <2>3, <1>10
<1>13. w = [i \in 1..(n + 1) |-> w[i]] /\ w[1] = iter[1..n]
  OBVIOUS
<1> HIDE DEF w
<1>14. 0 \in S
  BY <1>5, <1>11
<1>15. ASSUME NEW k \in Nat, k \in S PROVE k + 1 \in S
  <2> SUFFICES ASSUME k + 1 <= n PROVE w[(n + 1) - (k + 1)] \in Remainders
    OBVIOUS
  <2> DEFINE i == (n + 1) - (k + 1)
  <2>1. i \in 1..n /\ i + 1 = (n + 1) - k
    OBVIOUS
  <2>2. w[i + 1] \in Remainders
    BY <1>15, <2>1
  <2> HIDE DEF i
  <2>3. w[i] = AddByte(b[i], w[i + 1]) /\ b[i] \in Byte
    BY <1>12, <2>1
  <2>4. w[i] \in Remainders
    BY <2>1, <2>2, <2>3, <1>2
  <2>5. QED BY <2>4 DEF i
<1>16. \A i \in 1..(n + 1) : w[i] \in Remainders
  <2>1. Nat \subseteq S
    <3> HIDE DEF S
    <3>1. QED BY <1>14, <1>15, AllNaturals
  <2>2. ASSUME NEW i \in 1..n PROVE w[i] \in Remainders
    <3>1. (n + 1) - i \in Nat /\ (n + 1) - i <= n /\ (n + 1) - ((n + 1) - i) = i
      OBVIOUS
    <3>2. QED BY <2>1, <3>1
  <2>3. QED BY <2>2, <1>11, <1>5
<1>17. \A i \in 1..n : b[i] \in Byte /\ i + 1 \in 1..(n + 1)
  OBVIOUS
<1>18. \A i \in 1..n : w[i] = (Signed(b[i]) + 31 * w[i + 1]) % 9973
  BY <1>2, <1>12, <1>16, <1>17
<1>19. Sums(w, n, b)
  <2>1. w \in [1..(n + 1) -> Remainders]
    BY <1>13, <1>16
  <2>2. w[n + 1] = 0
    BY <1>11 DEF zero
  <2>3. QED BY <2>1, <2>2, <1>18 DEF Sums
<1>20. QED BY <1>3, <1>4, <1>13, <1>19

(* a and b leave the same remainder. *)
Congruent(a, b) == (a - b) % 9973 = 0

(* Numbers with the same remainder are a multiple apart. *)
LEMMA CongruentMeans ==
    ASSUME NEW x \in Int, NEW y \in Int
    PROVE  /\ Congruent(x, y) => \E k \in Int : x = y + 9973 * k
           /\ \A k \in Int : x = y + 9973 * k => Congruent(x, y)
BY DEF Congruent

(* Congruent is an equivalence, and both remainders are in it. *)
LEMMA CongruentChain ==
    ASSUME NEW x \in Int, NEW y \in Int, NEW z \in Int, Congruent(x, y), Congruent(y, z)
    PROVE  Congruent(x, z)
BY DEF Congruent

LEMMA CongruentBack ==
    ASSUME NEW x \in Int, NEW y \in Int, Congruent(x, y)
    PROVE  Congruent(y, x)
BY DEF Congruent

LEMMA RemainderIsCongruent ==
    ASSUME NEW x \in Int PROVE Congruent(x % 9973, x)
BY DEF Congruent

LEMMA RemIsCongruent ==
    ASSUME NEW x \in Int PROVE Congruent(Rem(x, 9973), x)
<1>1. CASE x >= 0
  BY <1>1 DEF Congruent, Rem
<1>2. CASE ~(x >= 0)
  <2> DEFINE y == -x
  <2>1. y \in Int /\ x = -y /\ Rem(x, 9973) = -(y % 9973)
    BY <1>2 DEF Rem
  <2> HIDE DEF y
  <2>2. QED BY <2>1 DEF Congruent
<1>3. QED BY <1>1, <1>2

(* A byte moved from the sum to the hash: what both stand for is the same. *)
LEMMA CongruentSteps ==
    ASSUME NEW h \in Int, NEW m \in Int, NEW s \in Int, NEW x \in Int,
           NEW h2 \in Int, NEW m2 \in Int, NEW y \in Int,
           Congruent(h2, h + s * m), Congruent(m2, m * 31),
           Congruent(y, s + 31 * x)
    PROVE  Congruent(h + m * y, h2 + m2 * x)
<1> DEFINE a == h + s * m
           c == m * 31
           d == s + 31 * x
           left == h + m * y
           right == h2 + m2 * x
<1>1. a \in Int /\ c \in Int /\ d \in Int /\ left \in Int /\ right \in Int
  OBVIOUS
<1>2. Congruent(h2, a) /\ Congruent(m2, c) /\ Congruent(y, d)
  OBVIOUS
<1> HIDE DEF a, c, d, left, right
<1>3. PICK p \in Int, q \in Int, r \in Int :
        h2 = a + 9973 * p /\ m2 = c + 9973 * q /\ y = d + 9973 * r
  BY <1>1, <1>2, CongruentMeans
<1>4. m * y = m * s + m * (31 * x) + m * (9973 * r)
  BY <1>3 DEF d
<1>5. m2 * x = (m * 31) * x + (9973 * q) * x
  BY <1>3 DEF c
<1>6. m * (31 * x) = (m * 31) * x /\ m * s = s * m
  OBVIOUS
<1>7. m * (9973 * r) = 9973 * (m * r) /\ (9973 * q) * x = 9973 * (q * x)
  OBVIOUS
<1>8. PICK k \in Int : k = m * r - p - q * x
  OBVIOUS
<1>9. left = right + 9973 * k
  <2>1. /\ s * m \in Int /\ (m * 31) * x \in Int /\ m * r \in Int /\ q * x \in Int
        /\ m * y \in Int /\ m2 * x \in Int
    OBVIOUS
  <2>2. QED BY <2>1, <1>3, <1>4, <1>5, <1>6, <1>7, <1>8 DEF a, left, right
<1>10. Congruent(left, right)
  BY <1>1, <1>9, CongruentMeans
<1>11. QED BY <1>10 DEF left, right

(* What a step of the hash is congruent to. *)
LEMMA HashFields ==
    ASSUME NEW acc \in Acc, NEW byte \in Byte
    PROVE  /\ acc.hash \in Int /\ acc.hash >= -9972 /\ acc.hash <= 9972
           /\ acc.multiplier \in Nat /\ acc.multiplier <= 9972
           /\ Congruent(HashStep(acc, byte).hash, acc.hash + Signed(byte) * acc.multiplier)
           /\ Congruent(HashStep(acc, byte).multiplier, acc.multiplier * 31)
<1> DEFINE h == acc.hash
           m == acc.multiplier
           a == h + Signed(byte) * m
           c == m * 31
<1>1. h \in Residue /\ m \in Remainders
  BY DEF Acc
<1>2. HashStep(acc, byte).hash = Rem(a, 9973) /\ HashStep(acc, byte).multiplier = c % 9973
  BY DEF HashStep, NextMultiplier, Modulo, Multiplier
<1> HIDE DEF h, m
<1>3. h \in Int /\ h >= -9972 /\ h <= 9972 /\ m \in Nat /\ m <= 9972
  BY <1>1 DEF Residue, Remainders
<1>4. a \in Int /\ c \in Int
  BY <1>3, SignedByte
<1> HIDE DEF a, c
<1>5. Congruent(Rem(a, 9973), a) /\ Congruent(c % 9973, c)
  <2>1. Congruent(Rem(a, 9973), a)
    BY <1>4, RemIsCongruent
  <2>2. Congruent(c % 9973, c)
    BY <1>4, RemainderIsCongruent
  <2>3. QED BY <2>1, <2>2
<1>6. QED BY <1>2, <1>3, <1>5 DEF h, m, a, c

(* The hash is congruent to the sum: h + m * w, with w the sum of the bytes *)
(* to come, is the same at every byte.                                      *)
LEMMA HashIsTheSum ==
    ASSUME NEW n \in Nat, NEW b \in [1..n -> Byte]
    PROVE  /\ Congruent(Hash(b).hash, SignedSum(b))
           /\ SignedSum(b) \in Int /\ SignedSum(b) >= 0 /\ SignedSum(b) <= 9972
<1>1. PICK v : Hashes(v, n, b) /\ Hash(b) = v[n]
  BY HashSteps
<1>2. PICK w : Sums(w, n, b) /\ SignedSum(b) = w[1]
  BY SumSteps
<1> DEFINE H(i) == v[i].hash
           M(i) == v[i].multiplier
           T(i) == H(i) + M(i) * w[i + 1]
           S == {i \in Nat : i <= n => Congruent(w[1], T(i))}
<1>3. ASSUME NEW i \in 1..(n + 1) PROVE w[i] \in Int /\ w[i] >= 0 /\ w[i] <= 9972
  <2> DEFINE x == w[i]
  <2>1. x \in Remainders
    BY <1>2 DEF Sums
  <2> HIDE DEF x
  <2>2. x \in Int /\ x >= 0 /\ x <= 9972
    BY <2>1 DEF Remainders
  <2>3. QED BY <2>2 DEF x
<1>4. \A i \in 0..n : v[i] \in Acc
  BY <1>1 DEF Hashes
<1>5. \A i \in 0..n : H(i) \in Int /\ M(i) \in Int /\ w[i + 1] \in Int /\ T(i) \in Int
  <2> TAKE i \in 0..n
  <2>1. 0 \in Byte
    BY DEF Byte
  <2>2. H(i) \in Int /\ M(i) \in Int
    BY <1>4, <2>1, HashFields
  <2>3. w[i + 1] \in Int
    <3>1. i + 1 \in 1..(n + 1)
      OBVIOUS
    <3>2. QED BY <3>1, <1>3
  <2> HIDE DEF H, M
  <2>4. QED BY <2>2, <2>3
<1>6. Congruent(w[1], T(0))
  <2>1. H(0) = 0 /\ M(0) = 1
    BY <1>1 DEF Hashes
  <2>2. w[0 + 1] = w[1] /\ w[1] \in Int
    <3>1. 1 \in 1..(n + 1)
      OBVIOUS
    <3>2. QED BY <3>1, <1>3
  <2>3. T(0) = w[1]
    <3> HIDE DEF H, M
    <3>1. QED BY <2>1, <2>2
  <2>4. Congruent(w[1], w[1])
    BY <2>2 DEF Congruent
  <2>5. QED BY <2>3, <2>4
<1>7. ASSUME NEW i \in Nat, i \in S PROVE i + 1 \in S
  <2> SUFFICES ASSUME i + 1 <= n PROVE Congruent(w[1], T(i + 1))
    OBVIOUS
  <2> DEFINE j == i + 1
  <2>1. i \in 0..n /\ j \in 1..n /\ j \in 0..n /\ j - 1 = i /\ b[j] \in Byte /\ 1 \in 1..(n + 1)
    OBVIOUS
  <2>2. v[j] = HashStep(v[i], b[j]) /\ w[j] = (Signed(b[j]) + 31 * w[j + 1]) % 9973
    BY <2>1, <1>1, <1>2 DEF Hashes, Sums
  <2>3. Congruent(w[1], T(i)) /\ w[1] \in Int
    <3>1. Congruent(w[1], T(i))
      <4> HIDE DEF T
      <4>1. QED BY <1>7, <2>1
    <3>2. QED BY <3>1, <2>1, <1>3
  <2> HIDE DEF j
  <2> DEFINE s == Signed(b[j])
             a == s + 31 * w[j + 1]
  <2>4. s \in Int /\ w[j + 1] \in Int /\ a \in Int /\ w[j] \in Int
    <3>1. s \in Int
      BY <2>1, SignedByte
    <3>2. j \in 1..(n + 1)
      BY <2>1
    <3>3. w[j] \in Int
      BY <3>2, <1>3
    <3>4. w[j + 1] \in Int
      BY <2>1, <1>5
    <3> HIDE DEF s
    <3>5. QED BY <3>1, <3>3, <3>4
  <2>5. Congruent(H(j), H(i) + s * M(i)) /\ Congruent(M(j), M(i) * 31)
    BY <2>1, <2>2, <1>4, HashFields
  <2>6. Congruent(w[j], a)
    <3>1. w[j] = a % 9973
      BY <2>2
    <3> HIDE DEF a
    <3>2. QED BY <3>1, <2>4, RemainderIsCongruent
  <2>7. H(i) \in Int /\ M(i) \in Int /\ H(j) \in Int /\ M(j) \in Int /\ T(i) \in Int /\ T(j) \in Int
    BY <2>1, <1>5
  <2>8. T(i) = H(i) + M(i) * w[j]
    BY DEF j
  <2> HIDE DEF H, M, s
  <2>9. Congruent(H(i) + M(i) * w[j], H(j) + M(j) * w[j + 1])
    BY <2>4, <2>5, <2>6, <2>7, CongruentSteps
  <2> HIDE DEF T
  <2>10. Congruent(T(i), T(j))
    BY <2>8, <2>9 DEF T
  <2>11. Congruent(w[1], T(j))
    BY <2>3, <2>7, <2>10, CongruentChain
  <2>12. QED BY <2>11 DEF j
<1>8. Congruent(w[1], T(n))
  <2> HIDE DEF T
  <2>1. 0 \in S
    BY <1>6
  <2> HIDE DEF S
  <2>2. Nat \subseteq S
    BY <2>1, <1>7, AllNaturals
  <2>3. QED BY <2>2 DEF S
<1>9. T(n) = H(n)
  <2>1. w[n + 1] = 0 /\ M(n) \in Int /\ H(n) \in Int
    BY <1>2, <1>5 DEF Sums
  <2> HIDE DEF H, M
  <2>2. QED BY <2>1
<1>10. Congruent(w[1], H(n)) /\ H(n) \in Int /\ w[1] \in Int /\ w[1] >= 0 /\ w[1] <= 9972
  <2>1. 1 \in 1..(n + 1) /\ n \in 0..n
    OBVIOUS
  <2> HIDE DEF T, H
  <2>2. QED BY <2>1, <1>3, <1>5, <1>8, <1>9
<1> HIDE DEF H
<1>11. Congruent(H(n), w[1])
  BY <1>10, CongruentBack
<1>12. QED BY <1>1, <1>2, <1>10, <1>11 DEF H

(* What to_four_digit_string gives for any bytes, and that no step on the  *)
(* way to it overflows.                                                     *)
THEOREM FourDigits ==
    ASSUME NEW b \in Seq(Byte)
    PROVE  /\ NoOverflow(b)
           /\ to_four_digit_string(b) \in Nat /\ to_four_digit_string(b) <= 9999
           /\ \/ to_four_digit_string(b) = SignedSum(b)
              \/ to_four_digit_string(b) = Modulo - SignedSum(b)
<1> DEFINE n == Len(b)
<1>1. n \in Nat /\ b \in [1..n -> Byte]
  OBVIOUS
<1>2. ASSUME NEW c \in Seq(Byte) PROVE Hash(c) \in Acc
  <2>1. PICK v : Hashes(v, Len(c), c) /\ Hash(c) = v[Len(c)]
    <3>1. Len(c) \in Nat /\ c \in [1..Len(c) -> Byte]
      OBVIOUS
    <3>2. QED BY <3>1, HashSteps
  <2>2. Len(c) \in 0..Len(c)
    OBVIOUS
  <2>3. QED BY <2>1, <2>2 DEF Hashes
<1>3. 0 \in Byte
  BY DEF Byte
<1>4. NoOverflow(b)
  <2> SUFFICES ASSUME NEW i \in 0..(Len(b) - 1)
               PROVE  LET acc == Hash(SubSeq(b, 1, i)) IN
                        /\ acc.multiplier \in 0..(Half \div 128)
                        /\ acc.hash \in (-Half)..Half
    BY DEF NoOverflow
  <2> DEFINE acc == Hash(SubSeq(b, 1, i))
             h == acc.hash
             m == acc.multiplier
  <2>1. SubSeq(b, 1, i) \in Seq(Byte)
    OBVIOUS
  <2>2. acc \in Acc
    BY <2>1, <1>2
  <2>3. h \in Int /\ h >= -9972 /\ h <= 9972 /\ m \in Nat /\ m <= 9972
    BY <2>2, <1>3, HashFields
  <2> HIDE DEF h, m
  <2>4. m \in 0..(Half \div 128) /\ h \in (-Half)..Half
    <3>1. Half \in Int /\ Half > 9972
      BY SMT DEF Half
    <3>2. Half \div 128 \in Int /\ Half \div 128 > 9972
      BY SMT DEF Half
    <3>3. m \in 0..(Half \div 128)
      BY <2>3, <3>2, SMT
    <3>4. h \in (-Half)..Half
      BY <2>3, <3>1, SMT
    <3>5. QED BY <3>3, <3>4
  <2>5. QED BY <2>4 DEF h, m
<1> DEFINE h == Hash(b).hash
           s == SignedSum(b)
<1>5. h \in Int /\ h >= -9972 /\ h <= 9972
  BY <1>2, <1>3, HashFields
<1>6. Congruent(h, s) /\ s \in Int /\ s >= 0 /\ s <= 9972
  BY <1>1, HashIsTheSum
<1>7. to_four_digit_string(b) = Abs(h)
  BY DEF to_four_digit_string
<1> HIDE DEF h, s
<1>8. h = s \/ h = s - 9973
  BY <1>5, <1>6 DEF Congruent
<1>9. Abs(h) \in Nat /\ Abs(h) <= 9999 /\ (Abs(h) = s \/ Abs(h) = 9973 - s)
  <2>1. Abs(h) = IF h < 0 THEN -h ELSE h
    BY DEF Abs
  <2>2. PICK p \in Int : p = Abs(h)
    BY <1>5, <2>1
  <2>3. p >= 0 /\ p <= 9972 /\ (p = s \/ p = 9973 - s)
    BY <1>5, <1>6, <1>8, <2>1, <2>2
  <2>4. QED BY <2>2, <2>3
<1>10. QED BY <1>4, <1>7, <1>9 DEF s, Modulo

-----------------------------------------------------------------------------
(* A key on its way. *)

(* What is written in enough bytes is read from them. *)
LEMMA ReadsWhatIsWritten ==
    ASSUME NEW n \in Nat, NEW length \in Nat, n < Power[length]
    PROVE  Value(BigEndian(n, length)) = n
<1> DEFINE b == BigEndian(n, length)
<1>1. \A k \in Nat : Power[k] \in Nat \ {0} /\ Power[k + 1] = Base * Power[k]
  BY PowerSteps
<1>2. Base \in Nat \ {0}
  BY BaseAssumption
<1>3. ASSUME NEW i \in 1..length
      PROVE  b[i] = (n \div Power[length - i]) % Base /\ b[i] \in Int
  <2>1. b[i] = (n \div Power[length - i]) % Base
    BY DEF BigEndian
  <2> DEFINE q == n \div Power[length - i]
  <2>2. q \in Int
    <3>1. length - i \in Nat
      OBVIOUS
    <3>2. QED BY <1>1, <3>1
  <2> HIDE DEF q, b
  <2>3. q % Base \in Int
    BY <1>2, <2>2
  <2>4. QED BY <2>1, <2>3 DEF q
<1>4. b \in [1..length -> Int]
  <2>1. b = [i \in 1..length |-> b[i]]
    BY DEF BigEndian
  <2> HIDE DEF b
  <2>2. QED BY <1>3, <2>1
<1> HIDE DEF b
<1>5. PICK v : Reads(v, length, b) /\ Value(b) = v[length]
  BY <1>4, ValueSteps
<1> DEFINE S == {i \in Nat : i <= length => v[i] = n \div Power[length - i]}
<1>6. 0 \in S
  <2> DEFINE P == Power[length]
  <2>1. length - 0 = length /\ P \in Nat \ {0} /\ n = P * 0 + n /\ n < P
    BY <1>1
  <2> HIDE DEF P
  <2>2. n \div P = 0
    BY <2>1, DivisionIsUnique
  <2>3. v[0] = 0
    BY <1>5 DEF Reads
  <2>4. QED BY <2>1, <2>2, <2>3 DEF P
<1>7. ASSUME NEW i \in Nat, i \in S PROVE i + 1 \in S
  <2> SUFFICES ASSUME i + 1 <= length PROVE v[i + 1] = n \div Power[length - (i + 1)]
    OBVIOUS
  <2> DEFINE j == i + 1
             c == Power[length - j]
  <2>1. j \in 1..length /\ j - 1 = i /\ length - j \in Nat /\ (length - j) + 1 = length - i
    OBVIOUS
  <2>2. v[i] = n \div Power[length - i]
    BY <1>7
  <2>3. v[j] = v[i] * Base + b[j] /\ v[i] \in Int
    BY <2>1, <1>5 DEF Reads
  <2>4. b[j] = (n \div c) % Base /\ b[j] \in Int
    BY <2>1, <1>3
  <2>5. c \in Nat \ {0} /\ Power[length - i] = Base * c
    BY <2>1, <1>1
  <2> HIDE DEF c, j
  <2>6. n \div c = Base * (n \div (Base * c)) + ((n \div c) % Base)
    BY <2>5, <1>2, DividedTwice
  <2>7. v[j] = n \div c
    <3>1. n \div c = Base * v[i] + b[j]
      BY <2>2, <2>4, <2>5, <2>6
    <3>2. Base * v[i] = v[i] * Base
      BY <2>3, <1>2
    <3>3. QED BY <3>1, <3>2, <2>3
  <2>8. QED BY <2>7 DEF c, j
<1>8. v[length] = n
  <2>1. length \in S
    <3> HIDE DEF S
    <3>1. QED BY <1>6, <1>7, AllNaturals
  <2>2. length - length = 0 /\ Power[0] = 1 /\ n \div 1 = n
    BY PowerSteps
  <2>3. QED BY <2>1, <2>2
<1>9. QED BY <1>5, <1>8 DEF b

(* The length that EncodedLength chooses exists. *)
LEMMA LengthOf ==
    ASSUME NEW n \in Coordinate
    PROVE  /\ EncodedLength(n) \in 1..(Width + 1)
           /\ 2 * n < Power[EncodedLength(n)]
           /\ \A j \in 1..(EncodedLength(n) - 1) : 2 * n >= Power[j]
<1> USE WidthAssumption
<1> DEFINE S == {k \in 1..(Width + 1) : 2 * n < Power[k]}
<1>1. n \in Nat /\ n < Power[Width] /\ Power[Width] \in Nat
  BY PowerSteps DEF Coordinate
<1>2. Width + 1 \in S
  <2>1. Base \in Nat /\ Base >= 2
    BY BaseAssumption
  <2>2. Power[Width + 1] = Base * Power[Width]
    BY PowerSteps
  <2> DEFINE P == Power[Width]
  <2>3. P \in Nat /\ n < P /\ Base * P \in Nat
    BY <1>1, <2>1
  <2> HIDE DEF P
  <2>4. Base * P >= 2 * P
    <3>1. Base = 2 + (Base - 2) /\ Base - 2 \in Nat
      BY <2>1
    <3>2. Base * P = 2 * P + (Base - 2) * P
      BY <3>1, <2>3
    <3>3. (Base - 2) * P \in Nat
      BY <3>1, <2>3
    <3>4. QED BY <3>2, <3>3, <2>3
  <2>5. 2 * n < Base * P
    BY <1>1, <2>3, <2>4
  <2>6. QED BY <2>2, <2>5 DEF P
<1>3. S \in SUBSET Nat /\ S # {}
  BY <1>2
<1>4. PICK k \in S : \A j \in S : k <= j
  <2> HIDE DEF S
  <2>1. QED BY <1>3, LeastNatural
<1>5. \A j \in 1..(k - 1) : 2 * n >= Power[j]
  <2> TAKE j \in 1..(k - 1)
  <2>1. j \in 1..(Width + 1) /\ ~(k <= j) /\ Power[j] \in Nat
    BY PowerSteps
  <2>2. ~(2 * n < Power[j])
    BY <2>1, <1>4
  <2>3. QED BY <2>1, <2>2, <1>1
<1>6. \E l \in 1..(Width + 1) : 2 * n < Power[l] /\ \A j \in 1..(l - 1) : 2 * n >= Power[j]
  BY <1>4, <1>5
<1>7. QED BY <1>6 DEF EncodedLength

(* A coordinate is short when it is written in too few bytes. *)
LEMMA ShortIsFewBytes ==
    ASSUME NEW n \in Coordinate
    PROVE  EncodedLength(n) < Width <=> Short(n)
<1> USE WidthAssumption
<1> DEFINE l == EncodedLength(n)
<1>1. n \in Nat
  BY PowerSteps DEF Coordinate
<1>2. l \in 1..(Width + 1) /\ 2 * n < Power[l] /\ \A j \in 1..(l - 1) : 2 * n >= Power[j]
  BY LengthOf
<1> HIDE DEF l
<1>3. Width - 1 \in Nat \ {0} /\ Power[Width - 1] \in Nat /\ Power[l] \in Nat
  BY <1>2, PowerSteps
<1>4. ASSUME l < Width PROVE 2 * n < Power[Width - 1]
  <2>1. Power[l] <= Power[Width - 1]
    BY <1>2, <1>3, <1>4, PowerGrows
  <2>2. QED BY <2>1, <1>1, <1>2, <1>3
<1>5. ASSUME ~(l < Width) PROVE ~(2 * n < Power[Width - 1])
  <2>1. Width - 1 \in 1..(l - 1)
    BY <1>2, <1>3, <1>5
  <2>2. 2 * n >= Power[Width - 1]
    BY <2>1, <1>2
  <2>3. QED BY <2>2, <1>1, <1>3
<1>6. QED BY <1>4, <1>5 DEF Short, l

(* What the other end keeps of the bytes of a coordinate. *)
LEMMA KeptBytes ==
    ASSUME NEW n \in Coordinate
    PROVE  /\ LastBytes(encode_point(n)) \in Seq(Int)
           /\ Len(LastBytes(encode_point(n))) \in Nat
           /\ Len(LastBytes(encode_point(n))) <= Width
           /\ Short(n) => Len(LastBytes(encode_point(n))) < Width
           /\ ~Short(n) => LastBytes(encode_point(n)) = BigEndian(n, Width)
<1> USE WidthAssumption
<1> DEFINE l == EncodedLength(n)
           b == BigEndian(n, l)
<1>1. l \in 1..(Width + 1) /\ (l < Width <=> Short(n))
  BY LengthOf, ShortIsFewBytes
<1>2. encode_point(n) = b
  BY DEF encode_point
<1> HIDE DEF l
<1>3. ASSUME NEW k \in Nat, NEW i \in 1..k PROVE (n \div Power[k - i]) % Base \in Int
  <2> DEFINE P == Power[k - i]
             q == n \div P
  <2>1. P \in Nat \ {0} /\ n \in Nat
    BY PowerSteps DEF Coordinate
  <2> HIDE DEF P
  <2>2. q \in Int
    BY <2>1
  <2> HIDE DEF q
  <2>3. q % Base \in Int
    BY <2>2, BaseAssumption
  <2>4. QED BY <2>3 DEF q, P
<1>4. ASSUME NEW k \in Nat PROVE BigEndian(n, k) \in Seq(Int) /\ Len(BigEndian(n, k)) = k
  <2>1. BigEndian(n, k) \in [1..k -> Int]
    BY <1>3 DEF BigEndian
  <2>2. QED BY <2>1
<1>5. b \in Seq(Int) /\ Len(b) = l
  BY <1>1, <1>4
<1>6. CASE l <= Width
  <2>1. LastBytes(b) = b
    BY <1>5, <1>6, <1>1 DEF LastBytes
  <2>2. ~Short(n) => l = Width
    BY <1>1, <1>6
  <2> HIDE DEF b
  <2>3. QED BY <2>1, <2>2, <1>1, <1>2, <1>5, <1>6 DEF b
<1>7. CASE l = Width + 1
  <2> DEFINE c == SubSeq(b, 2, Width + 1)
  <2>1. LastBytes(b) = c
    BY <1>5, <1>7 DEF LastBytes
  <2>2. Len(c) = Width /\ c \in Seq(Int) /\ \A i \in 1..Width : c[i] = b[i + 1]
    <3> HIDE DEF b
    <3>1. QED BY <1>5, <1>7
  <2>3. \A i \in 1..Width : b[i + 1] = BigEndian(n, Width)[i]
    <3> TAKE i \in 1..Width
    <3>1. i + 1 \in 1..l /\ l - (i + 1) = Width - i
      BY <1>7
    <3>2. QED BY <3>1 DEF BigEndian
  <2>4. c = BigEndian(n, Width)
    <3> DEFINE d == BigEndian(n, Width)
    <3>1. d \in Seq(Int) /\ Len(d) = Width /\ \A i \in 1..Width : b[i + 1] = d[i]
      BY <1>4, <2>3
    <3> HIDE DEF b, c, d
    <3>2. \A i \in 1..Width : c[i] = d[i]
      BY <2>2, <3>1
    <3>3. c = [i \in 1..Width |-> c[i]] /\ d = [i \in 1..Width |-> d[i]]
      BY <2>2, <3>1
    <3>4. c = d
      BY <3>2, <3>3
    <3>5. QED BY <3>4 DEF d
  <2> HIDE DEF c, b
  <2>5. ~Short(n)
    BY <1>1, <1>7
  <2>6. QED BY <2>1, <2>2, <2>4, <2>5, <1>2
<1>8. QED BY <1>1, <1>6, <1>7

(* A key is read as it was written, unless a coordinate of it is short;     *)
(* then it is not read at all.                                              *)
THEOREM KeyOnItsWay ==
    ASSUME NEW key \in Key
    PROVE  /\ IsPoint(Encoded(key)) <=> ~HasShort(key)
           /\ ~HasShort(key) => Point(Encoded(key)) = key
<1> USE WidthAssumption
<1>1. key.x \in Coordinate /\ key.y \in Coordinate /\ key = [x |-> key.x, y |-> key.y]
  BY CoordinatesAssumption DEF Key
<1> DEFINE bx == LastBytes(encode_point(key.x))
           by == LastBytes(encode_point(key.y))
<1>2. PointBytes(Encoded(key)) = bx \o by
  BY DEF PointBytes, Encoded
<1>3. /\ bx \in Seq(Int) /\ Len(bx) \in Nat /\ Len(bx) <= Width
      /\ Short(key.x) => Len(bx) < Width
      /\ ~Short(key.x) => bx = BigEndian(key.x, Width)
  BY <1>1, KeptBytes
<1>4. /\ by \in Seq(Int) /\ Len(by) \in Nat /\ Len(by) <= Width
      /\ Short(key.y) => Len(by) < Width
      /\ ~Short(key.y) => by = BigEndian(key.y, Width)
  BY <1>1, KeptBytes
<1> HIDE DEF bx, by
<1>5. Len(bx \o by) = Len(bx) + Len(by)
  BY <1>3, <1>4
<1>6. ASSUME NEW n PROVE Len(BigEndian(n, Width)) = Width
  BY DEF BigEndian
<1>7. ~HasShort(key) => Len(bx) = Width /\ Len(by) = Width
  BY <1>3, <1>4, <1>6 DEF HasShort
<1>8. IsPoint(Encoded(key)) <=> ~HasShort(key)
  <2>1. IsPoint(Encoded(key)) <=> Len(bx) + Len(by) = 2 * Width
    BY <1>2, <1>5 DEF IsPoint
  <2>2. CASE HasShort(key)
    <3>1. Len(bx) < Width \/ Len(by) < Width
      BY <2>2, <1>3, <1>4 DEF HasShort
    <3>2. Len(bx) + Len(by) # 2 * Width
      BY <3>1, <1>3, <1>4
    <3>3. QED BY <2>1, <2>2, <3>2
  <2>3. CASE ~HasShort(key)
    BY <2>1, <2>3, <1>7
  <2>4. QED BY <2>2, <2>3
<1>9. ASSUME ~HasShort(key) PROVE Point(Encoded(key)) = key
  <2>1. SubSeq(bx \o by, 1, Width) = bx
    BY <1>3, <1>4, <1>7, <1>9
  <2>2. SubSeq(bx \o by, Width + 1, 2 * Width) = by
    BY <1>3, <1>4, <1>7, <1>9
  <2>3. Value(bx) = key.x
    <3>1. key.x \in Nat /\ key.x < Power[Width] /\ bx = BigEndian(key.x, Width)
      BY <1>1, <1>3, <1>9, PowerSteps DEF HasShort, Coordinate
    <3>2. QED BY <3>1, ReadsWhatIsWritten
  <2>4. Value(by) = key.y
    <3>1. key.y \in Nat /\ key.y < Power[Width] /\ by = BigEndian(key.y, Width)
      BY <1>1, <1>4, <1>9, PowerSteps DEF HasShort, Coordinate
    <3>2. QED BY <3>1, ReadsWhatIsWritten
  <2>5. Point(Encoded(key)) = [x |-> Value(bx), y |-> Value(by)]
    BY <1>2, <2>1, <2>2 DEF Point
  <2>6. QED BY <2>3, <2>4, <2>5, <1>1
<1>10. QED BY <1>8, <1>9

-----------------------------------------------------------------------------
(* The exchange. *)

(* What is under way, and what an end has derived, is of the two keys.  A   *)
(* key of the client under way says that the server's could be read.        *)
KeyInv ==
    /\ cKey \in Key /\ sKey \in Key
    /\ cState \in {"SentUkeyClientInit", "SentUkeyClientFinish", "Disconnected"}
    /\ sState \in {"ReceivedConnectionRequest", "SentUkeyServerInit",
                   "ReceivedUkeyClientFinish", "Disconnected"}
    /\ serverInit \subseteq {Encoded(sKey)}
    /\ clientFinish \subseteq {Encoded(cKey)}
    /\ clientFinish # {} => ~HasShort(sKey)
    /\ cAuth \subseteq {Auth(cKey, sKey, Encoded(sKey))}
    /\ sAuth \subseteq {Auth(cKey, sKey, Encoded(sKey))}
    /\ OnlyShortKeysFail

(* It holds at the start. *)
LEMMA KeyInvInit == KeyInit => KeyInv
BY DEF KeyInit, KeyInv, OnlyShortKeysFail

(* The client reads the key of the server or gives up. *)
LEMMA ClientFinishKeepsKeyInv == KeyInv /\ ClientFinish => KeyInv'
<1> SUFFICES ASSUME KeyInv, ClientFinish PROVE KeyInv'
  OBVIOUS
<1>1. /\ cState = "SentUkeyClientInit" /\ cKey \in Key /\ sKey \in Key
      /\ UNCHANGED <<cKey, sKey, sState, serverInit, sAuth>>
  BY DEF ClientFinish, KeyInv
<1>2. PICK key \in serverInit :
        IF IsPoint(key)
          THEN /\ cAuth' = {Auth(cKey, Point(key), key)}
               /\ clientFinish' = {Encoded(cKey)}
               /\ cState' = "SentUkeyClientFinish"
          ELSE cState' = "Disconnected" /\ UNCHANGED <<cAuth, clientFinish>>
  BY DEF ClientFinish
<1>3. key = Encoded(sKey)
  BY DEF KeyInv
<1>4. IsPoint(key) <=> ~HasShort(sKey)
  BY <1>1, <1>3, KeyOnItsWay
<1>5. HasShort(sKey)' = HasShort(sKey) /\ HasShort(cKey)' = HasShort(cKey)
  BY <1>1 DEF HasShort
<1>6. CASE IsPoint(key)
  <2>1. Point(key) = sKey
    BY <1>1, <1>3, <1>4, <1>6, KeyOnItsWay
  <2>2. /\ cAuth' = {Auth(cKey, sKey, Encoded(sKey))}
        /\ clientFinish' = {Encoded(cKey)} /\ cState' = "SentUkeyClientFinish"
    BY <1>2, <1>3, <1>6, <2>1
  <2>3. QED BY <1>1, <1>4, <1>5, <1>6, <2>2 DEF KeyInv, OnlyShortKeysFail
<1>7. CASE ~IsPoint(key)
  <2>1. cState' = "Disconnected" /\ UNCHANGED <<cAuth, clientFinish>>
    BY <1>2, <1>7
  <2>2. QED BY <1>1, <1>4, <1>5, <1>7, <2>1 DEF KeyInv, OnlyShortKeysFail
<1>8. QED BY <1>6, <1>7

(* The server reads the key of the client or gives up. *)
LEMMA ServerFinishKeepsKeyInv == KeyInv /\ ServerFinish => KeyInv'
<1> SUFFICES ASSUME KeyInv, ServerFinish PROVE KeyInv'
  OBVIOUS
<1>1. /\ sState = "SentUkeyServerInit" /\ cKey \in Key /\ sKey \in Key
      /\ UNCHANGED <<cKey, sKey, cState, serverInit, clientFinish, cAuth>>
  BY DEF ServerFinish, KeyInv
<1>2. PICK key \in clientFinish :
        IF IsPoint(key)
          THEN /\ sAuth' = {Auth(sKey, Point(key), Encoded(sKey))}
               /\ sState' = "ReceivedUkeyClientFinish"
          ELSE sState' = "Disconnected" /\ UNCHANGED sAuth
  BY DEF ServerFinish
<1>3. key = Encoded(cKey) /\ ~HasShort(sKey)
  BY DEF KeyInv
<1>4. IsPoint(key) <=> ~HasShort(cKey)
  BY <1>1, <1>3, KeyOnItsWay
<1>5. HasShort(sKey)' = HasShort(sKey) /\ HasShort(cKey)' = HasShort(cKey)
  BY <1>1 DEF HasShort
<1>6. CASE IsPoint(key)
  <2>1. Point(key) = cKey
    BY <1>1, <1>3, <1>4, <1>6, KeyOnItsWay
  <2>2. Auth(sKey, cKey, Encoded(sKey)) = Auth(cKey, sKey, Encoded(sKey))
    BY DEF Auth
  <2>3. /\ sAuth' = {Auth(cKey, sKey, Encoded(sKey))}
        /\ sState' = "ReceivedUkeyClientFinish"
    BY <1>2, <1>6, <2>1, <2>2
  <2>4. QED BY <1>1, <1>3, <1>4, <1>5, <1>6, <2>3 DEF KeyInv, OnlyShortKeysFail
<1>7. CASE ~IsPoint(key)
  <2>1. sState' = "Disconnected" /\ UNCHANGED sAuth
    BY <1>2, <1>7
  <2>2. QED BY <1>1, <1>3, <1>4, <1>5, <1>7, <2>1 DEF KeyInv, OnlyShortKeysFail
<1>8. QED BY <1>6, <1>7

(* Every step keeps it. *)
LEMMA KeyInvNext == KeyInv /\ [KeyNext]_keyVars => KeyInv'
<1> SUFFICES ASSUME KeyInv, [KeyNext]_keyVars PROVE KeyInv'
  OBVIOUS
<1>1. CASE ServerInit
  <2>1. HasShort(sKey)' = HasShort(sKey) /\ HasShort(cKey)' = HasShort(cKey)
    BY <1>1 DEF ServerInit, HasShort
  <2>2. QED BY <1>1, <2>1 DEF ServerInit, KeyInv, OnlyShortKeysFail
<1>2. CASE ClientFinish
  BY <1>2, ClientFinishKeepsKeyInv
<1>3. CASE ServerFinish
  BY <1>3, ServerFinishKeepsKeyInv
<1>4. CASE ClientLost
  <2>1. HasShort(sKey)' = HasShort(sKey) /\ HasShort(cKey)' = HasShort(cKey)
    BY <1>4 DEF ClientLost, HasShort
  <2>2. QED BY <1>4, <2>1 DEF ClientLost, KeyInv, OnlyShortKeysFail
<1>5. CASE ServerLost
  <2>1. HasShort(sKey)' = HasShort(sKey) /\ HasShort(cKey)' = HasShort(cKey)
    BY <1>5 DEF ServerLost, HasShort
  <2>2. QED BY <1>5, <2>1 DEF ServerLost, KeyInv, OnlyShortKeysFail
<1>6. CASE UNCHANGED keyVars
  <2>1. HasShort(sKey)' = HasShort(sKey) /\ HasShort(cKey)' = HasShort(cKey)
    BY <1>6 DEF keyVars, HasShort
  <2>2. QED BY <1>6, <2>1 DEF keyVars, KeyInv, OnlyShortKeysFail
<1>7. QED BY <1>1, <1>2, <1>3, <1>4, <1>5, <1>6 DEF KeyNext

(* The invariant of the exchange. *)
LEMMA KeyInvariant == KeySpec => []KeyInv
BY KeyInvInit, KeyInvNext, PTL DEF KeySpec

(* Two ends that have exchanged keys have exchanged the same ones and show  *)
(* the same PIN, whatever the keys are: finalize_key_exchange of either end *)
(* reads what encode_point of the other has made of its key.                *)
THEOREM SamePin == KeySpec => []PinsMatch
<1>1. KeyInv => PinsMatch
  BY DEF KeyInv, PinsMatch
<1>2. QED BY <1>1, KeyInvariant, PTL

(* A key exchange fails only for a coordinate that is short, and an end     *)
(* goes on only without one: encode_point leaves a byte of such a           *)
(* coordinate out, which the other end always notices.                      *)
THEOREM ShortKeysFail == KeySpec => []OnlyShortKeysFail
<1>1. KeyInv => OnlyShortKeysFail
  BY DEF KeyInv
<1>2. QED BY <1>1, KeyInvariant, PTL

(* to_four_digit_string gives, for whatever HKDF gives, the sum of the      *)
(* signed bytes times the powers of its multiplier, up to the sign, in four *)
(* digits, and no step of it leaves the range of an i32.                    *)
THEOREM PinIsSum == KeySpec => []PinIsTheSignedSum
<1>1. KeyInv => PinIsTheSignedSum
  <2> SUFFICES ASSUME KeyInv, NEW auth \in cAuth
               PROVE  /\ NoOverflow(Kdf(auth))
                      /\ to_four_digit_string(Kdf(auth)) \in Nat
                      /\ to_four_digit_string(Kdf(auth)) <= 9999
                      /\ \/ to_four_digit_string(Kdf(auth)) = SignedSum(Kdf(auth))
                         \/ to_four_digit_string(Kdf(auth)) = Modulo - SignedSum(Kdf(auth))
    BY DEF PinIsTheSignedSum
  <2>1. auth = Auth(cKey, sKey, Encoded(sKey)) /\ cKey \in Key /\ sKey \in Key
    BY DEF KeyInv
  <2>2. Kdf(auth) \in Seq(Byte)
    BY <2>1, KdfAssumption
  <2>3. QED BY <2>2, FourDigits
<1>2. QED BY <1>1, KeyInvariant, PTL
=============================================================================
