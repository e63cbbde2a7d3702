---------------------------- MODULE SumsProofs ----------------------------
(***************************************************************************)
(* What Total computes, for tables of every size.  The induction is on     *)
(* sets of row numbers: a set of naturals that holds 0 and is closed under *)
(* successor is Nat, which follows from < being well founded.              *)
(***************************************************************************)
EXTENDS Sums, WellFoundedInduction, NaturalsInduction, TLAPS

\* Induction as a statement about a set, so that no operator is instantiated.
LEMMA SetInduction ==
  ASSUME NEW T \in SUBSET Nat, 0 \in T, \A n \in T : n + 1 \in T
  PROVE  T = Nat
<1> SUFFICES ASSUME Nat \ T # {} PROVE FALSE
  OBVIOUS
<1> DEFINE R == OpToRel(<, Nat)
<1>1. \A x, y \in Nat : x < y => <<x, y>> \in R
  BY DEF OpToRel
<1>2. IsWellFoundedOn(R, Nat)
  BY NatLessThanWellFounded
<1> HIDE DEF R
<1>3. PICK x \in Nat \ T : \A y \in Nat \ T : ~(<<y, x>> \in R)
  <2>1. \E x \in Nat \ T : \A y \in Nat \ T : ~(<<y, x>> \in R)
    BY <1>2, WFMin
  <2> QED BY <2>1
<1>4. x # 0
  OBVIOUS
<1>5. x - 1 \in Nat /\ x - 1 \notin T /\ x - 1 < x
  BY <1>3, <1>4
<1> QED BY <1>1, <1>3, <1>5

\* Induction up to a bound, for statements about the rows of one table.
LEMMA BoundedInduction ==
  ASSUME NEW n \in Nat, NEW S, 0 \in S, \A i \in 0..(n - 1) : i \in S => i + 1 \in S
  PROVE  \A i \in 0..n : i \in S
<1> DEFINE T == {i \in Nat : i <= n => i \in S}
<1>1. T \in SUBSET Nat /\ 0 \in T
  OBVIOUS
<1>2. \A i \in T : i + 1 \in T
  <2> SUFFICES ASSUME NEW i \in T, i + 1 <= n PROVE i + 1 \in S
    OBVIOUS
  <2>1. i \in 0..(n - 1) /\ i \in S
    OBVIOUS
  <2> QED BY <2>1
<1> HIDE DEF T
<1>3. T = Nat
  BY <1>1, <1>2, SetInduction
<1> QED BY <1>3 DEF T

\* A running total exists: extend the one for n rows by one row.
LEMMA RunningTotalExists ==
  ASSUME NEW n \in Nat, NEW w \in [1..n -> Int]
  PROVE  \E s \in [0..n -> Int] : s = [i \in 0..n |-> IF i = 0 THEN 0 ELSE s[i - 1] + w[i]]
<1> DEFINE G(i, g) == g[0] = 0 /\ \A j \in 1..i : g[j] = g[j - 1] + w[j]
           S == {i \in Nat : \E g \in [0..i -> Int] : G(i, g)}
<1>1. 0 \in S
  <2> DEFINE g == [i \in 0..0 |-> 0]
  <2>1. g \in [0..0 -> Int] /\ G(0, g)
    OBVIOUS
  <2> QED BY <2>1
<1>2. ASSUME NEW i \in 0..(n - 1), i \in S PROVE i + 1 \in S
  <2>1. PICK g \in [0..i -> Int] : G(i, g)
    BY <1>2
  <2>2. w[i + 1] \in Int /\ g[i] \in Int /\ i \in Nat
    OBVIOUS
  <2> DEFINE h == [j \in 0..(i + 1) |-> IF j = i + 1 THEN g[i] + w[i + 1] ELSE g[j]]
  <2>3. h \in [0..(i + 1) -> Int]
    BY <2>2
  <2>4. h[0] = 0
    BY <2>1, <2>2
  <2>5. ASSUME NEW j \in 1..(i + 1) PROVE h[j] = h[j - 1] + w[j]
    <3>1. CASE j = i + 1
      <4>1. i \in 0..(i + 1) /\ i # i + 1 /\ j - 1 = i
        BY <2>2, <3>1
      <4>2. h[i + 1] = g[i] + w[i + 1]
        BY <2>2
      <4>3. h[i] = g[i]
        BY <4>1
      <4> QED BY <3>1, <4>1, <4>2, <4>3
    <3>2. CASE j # i + 1
      <4>1. j \in 1..i /\ j - 1 \in 0..i /\ j - 1 # i + 1
        BY <2>2, <3>2
      <4>2. h[j] = g[j] /\ h[j - 1] = g[j - 1]
        BY <4>1, <2>2
      <4> QED BY <4>1, <4>2, <2>1
    <3> QED BY <3>1, <3>2
  <2>6. G(i + 1, h)
    BY <2>4, <2>5
  <2> HIDE DEF h, G
  <2>7. \E f \in [0..(i + 1) -> Int] : G(i + 1, f)
    BY <2>3, <2>6
  <2>8. i + 1 \in Nat
    BY <2>2
  <2> QED BY <2>7, <2>8
<1> HIDE DEF S
<1>3. n \in S
  <2>1. \A i \in 0..n : i \in S
    BY <1>1, <1>2, BoundedInduction
  <2> QED BY <2>1
<1>4. PICK g \in [0..n -> Int] : G(n, g)
  BY <1>3 DEF S
<1>5. g = [i \in 0..n |-> IF i = 0 THEN 0 ELSE g[i - 1] + w[i]]
  BY <1>4
<1> QED BY <1>5

\* The recurrence that defines the running total, as facts about it.
LEMMA RunningTotalDef ==
  ASSUME NEW n \in Nat, NEW w \in [1..n -> Int]
  PROVE  /\ RunningTotal(w, n) \in [0..n -> Int]
         /\ RunningTotal(w, n)[0] = 0
         /\ \A i \in 0..(n - 1) :
              RunningTotal(w, n)[i + 1] = RunningTotal(w, n)[i] + w[i + 1]
<1> DEFINE s == RunningTotal(w, n)
<1>1. s = [i \in 0..n |-> IF i = 0 THEN 0 ELSE s[i - 1] + w[i]]
  BY RunningTotalExists DEF RunningTotal
<1> HIDE DEF s
<1>2. s[0] = 0
  BY <1>1
<1>3. \A i \in 0..(n - 1) : s[i + 1] = s[i] + w[i + 1]
  <2> TAKE i \in 0..(n - 1)
  <2>1. i + 1 \in 0..n /\ i + 1 # 0 /\ (i + 1) - 1 = i
    OBVIOUS
  <2> QED BY <1>1, <2>1
<1>4. s \in [0..n -> Int]
  <2> DEFINE S == {i \in Nat : s[i] \in Int}
  <2>1. 0 \in S
    BY <1>2
  <2>2. \A i \in 0..(n - 1) : i \in S => i + 1 \in S
    <3> TAKE i \in 0..(n - 1)
    <3>1. w[i + 1] \in Int
      OBVIOUS
    <3> QED BY <1>3, <3>1
  <2> HIDE DEF S
  <2>3. \A i \in 0..n : i \in S
    BY <2>1, <2>2, BoundedInduction
  <2>4. \A i \in 0..n : s[i] \in Int
    BY <2>3 DEF S
  <2> QED BY <1>1, <2>4
<1> QED BY <1>2, <1>3, <1>4 DEF s

\* A column of naturals is a column of integers.
LEMMA NatColumn ==
  ASSUME NEW n \in Nat, NEW w \in [1..n -> Nat]
  PROVE  w \in [1..n -> Int]
OBVIOUS

\* A partial sum is never negative, and never below one of the rows it has
\* passed.
LEMMA RunningTotalGrows ==
  ASSUME NEW n \in Nat, NEW w \in [1..n -> Nat]
  PROVE  /\ RunningTotal(w, n) \in [0..n -> Nat]
         /\ \A k \in 1..n : \A i \in 0..n : i >= k => RunningTotal(w, n)[i] >= w[k]
<1> DEFINE s == RunningTotal(w, n)
           S == {i \in 0..n : s[i] \in Nat /\ \A k \in 1..n : i >= k => s[i] >= w[k]}
<1>1. /\ s \in [0..n -> Int] /\ s[0] = 0
      /\ \A i \in 0..(n - 1) : s[i + 1] = s[i] + w[i + 1]
  BY NatColumn, RunningTotalDef
<1> HIDE DEF s
<1>2. 0 \in S
  BY <1>1
<1>3. \A i \in 0..(n - 1) : i \in S => i + 1 \in S
  <2> SUFFICES ASSUME NEW i \in 0..(n - 1), i \in S PROVE i + 1 \in S
    OBVIOUS
  <2>1. s[i] \in Nat /\ w[i + 1] \in Nat /\ s[i + 1] = s[i] + w[i + 1] /\ i + 1 \in 0..n
    BY <1>1
  <2>2. ASSUME NEW k \in 1..n, i + 1 >= k PROVE s[i + 1] >= w[k]
    <3>1. CASE k = i + 1
      BY <2>1, <3>1
    <3>2. CASE i >= k
      <4>1. s[i] >= w[k] /\ w[k] \in Nat
        BY <3>2
      <4> QED BY <2>1, <4>1
    <3> QED BY <2>2, <3>1, <3>2
  <2> QED BY <2>1, <2>2
<1> HIDE DEF S
<1>4. \A i \in 0..n : i \in S
  BY <1>2, <1>3, BoundedInduction
<1>5. \A i \in 0..n : s[i] \in Nat
  BY <1>4 DEF S
<1>6. s \in [0..n -> Nat]
  BY <1>1, <1>5
<1>7. \A k \in 1..n : \A i \in 0..n : i >= k => s[i] >= w[k]
  BY <1>4 DEF S
<1> QED BY <1>6, <1>7 DEF s

\* The sum of a column of naturals is a natural, at least every row.
LEMMA TotalBound ==
  ASSUME NEW n \in Nat, NEW w \in [1..n -> Nat]
  PROVE  Total(w, n) \in Nat /\ \A k \in 1..n : w[k] <= Total(w, n)
<1>1. Total(w, n) \in Nat
  BY RunningTotalGrows DEF Total
<1>2. ASSUME NEW k \in 1..n PROVE w[k] <= Total(w, n)
  <2>0. n \in 0..n /\ n >= k
    OBVIOUS
  <2>1. RunningTotal(w, n)[n] >= w[k]
    BY <2>0, RunningTotalGrows
  <2> QED BY <1>1, <2>1 DEF Total
<1> QED BY <1>1, <1>2

\* The sum of an empty or all-zero column is zero.
LEMMA TotalZero ==
  ASSUME NEW n \in Nat, NEW w \in [1..n -> Int], \A i \in 1..n : w[i] = 0
  PROVE  Total(w, n) = 0
<1> DEFINE s == RunningTotal(w, n)
           S == {i \in 0..n : s[i] = 0}
<1>1. /\ s \in [0..n -> Int] /\ s[0] = 0
      /\ \A i \in 0..(n - 1) : s[i + 1] = s[i] + w[i + 1]
  BY RunningTotalDef
<1> HIDE DEF s
<1>2. 0 \in S
  BY <1>1
<1>3. \A i \in 0..(n - 1) : i \in S => i + 1 \in S
  <2> TAKE i \in 0..(n - 1)
  <2>1. w[i + 1] = 0 /\ s[i + 1] = s[i] + w[i + 1] /\ i + 1 \in 0..n
    BY <1>1
  <2> QED BY <2>1
<1> HIDE DEF S
<1>4. n \in S
  <2>1. \A i \in 0..n : i \in S
    BY <1>2, <1>3, BoundedInduction
  <2> QED BY <2>1
<1> QED BY <1>4 DEF S, s, Total

\* Changing one row changes the sum by the difference of that row.
LEMMA TotalUpdate ==
  ASSUME NEW n \in Nat, NEW v \in [1..n -> Int], NEW w \in [1..n -> Int], NEW k \in 1..n,
         \A i \in 1..n : i # k => v[i] = w[i]
  PROVE  Total(v, n) = Total(w, n) + v[k] - w[k]
<1> DEFINE s == RunningTotal(v, n)
           t == RunningTotal(w, n)
           S == {i \in 0..n : s[i] = IF i >= k THEN t[i] + v[k] - w[k] ELSE t[i]}
<1>1. /\ s \in [0..n -> Int] /\ s[0] = 0
      /\ \A i \in 0..(n - 1) : s[i + 1] = s[i] + v[i + 1]
  BY RunningTotalDef
<1>2. /\ t \in [0..n -> Int] /\ t[0] = 0
      /\ \A i \in 0..(n - 1) : t[i + 1] = t[i] + w[i + 1]
  BY RunningTotalDef
<1>0. v[k] \in Int /\ w[k] \in Int
  OBVIOUS
<1> HIDE DEF s, t
<1>3. 0 \in S
  BY <1>1, <1>2
<1>4. \A i \in 0..(n - 1) : i \in S => i + 1 \in S
  <2> SUFFICES ASSUME NEW i \in 0..(n - 1), i \in S PROVE i + 1 \in S
    OBVIOUS
  <2>1. /\ s[i + 1] = s[i] + v[i + 1] /\ t[i + 1] = t[i] + w[i + 1]
        /\ s[i] \in Int /\ t[i] \in Int
        /\ v[i + 1] \in Int /\ w[i + 1] \in Int /\ i + 1 \in 0..n
    BY <1>1, <1>2
  <2>2. CASE i + 1 = k
    BY <1>0, <2>1, <2>2
  <2>3. CASE i + 1 # k
    BY <1>0, <2>1, <2>3
  <2> QED BY <2>2, <2>3
<1> HIDE DEF S
<1>5. n \in S
  <2>1. \A i \in 0..n : i \in S
    BY <1>3, <1>4, BoundedInduction
  <2> QED BY <2>1
<1>6. s[n] = t[n] + v[k] - w[k]
  BY <1>5 DEF S
<1> QED BY <1>6 DEF s, t, Total

\* Rows of at most c each, one of them zero, sum to at most (n - 1) * c.
LEMMA TotalCap ==
  ASSUME NEW n \in Nat, NEW w \in [1..n -> Nat], NEW c \in Nat, NEW k \in 1..n,
         w[k] = 0, \A i \in 1..n : w[i] <= c
  PROVE  Total(w, n) <= (n - 1) * c
<1> DEFINE s == RunningTotal(w, n)
           S == {i \in 0..n : s[i] <= (IF i >= k THEN i - 1 ELSE i) * c}
<1>1. /\ s \in [0..n -> Int] /\ s[0] = 0
      /\ \A i \in 0..(n - 1) : s[i + 1] = s[i] + w[i + 1]
  BY NatColumn, RunningTotalDef
<1> HIDE DEF s
<1>2. 0 \in S
  BY <1>1
<1>3. \A i \in 0..(n - 1) : i \in S => i + 1 \in S
  <2> SUFFICES ASSUME NEW i \in 0..(n - 1), i \in S PROVE i + 1 \in S
    OBVIOUS
  <2>1. /\ s[i + 1] = s[i] + w[i + 1] /\ s[i] \in Int /\ w[i + 1] \in Nat
        /\ w[i + 1] <= c /\ i + 1 \in 0..n /\ i \in Nat
    BY <1>1
  <2>2. (i + 1) * c = i * c + c /\ (i + 1) - 1 = i /\ i * c \in Int
    BY <2>1
  <2>3. (i - 1) * c \in Int /\ (i - 1) * c + c = i * c
    BY <2>1
  <2>4. CASE i + 1 = k
    <3>1. s[i + 1] <= i * c
      BY <2>1, <2>4
    <3> QED BY <2>1, <2>2, <2>4, <3>1
  <2>5. CASE i + 1 > k
    <3>1. s[i] <= (i - 1) * c
      BY <2>1, <2>5
    <3>2. s[i + 1] <= i * c
      BY <2>1, <2>2, <2>3, <3>1
    <3> QED BY <2>1, <2>2, <2>5, <3>2
  <2>6. CASE i + 1 < k
    <3>1. s[i] <= i * c
      BY <2>1, <2>6
    <3>2. s[i + 1] <= (i + 1) * c
      BY <2>1, <2>2, <3>1
    <3> QED BY <2>1, <2>6, <3>2
  <2> QED BY <2>1, <2>4, <2>5, <2>6
<1> HIDE DEF S
<1>4. n \in S
  <2>1. \A i \in 0..n : i \in S
    BY <1>2, <1>3, BoundedInduction
  <2> QED BY <2>1
<1> QED BY <1>4 DEF S, s, Total
=============================================================================
