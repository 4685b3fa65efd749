------------------------- MODULE HwTimerListProofs -------------------------
(***************************************************************************)
(* The software timers, for any number of them and any times.              *)
(***************************************************************************)
EXTENDS HwTimerList, FiniteSetTheorems, WellFoundedInduction, TLAPS

-----------------------------------------------------------------------------
(***************************************************************************)
(* Induction along the positions of a list.                                *)
(***************************************************************************)
LEMMA Upward ==
  ASSUME NEW n \in Nat, NEW G, 0 \in G, \A k \in 1..n : k - 1 \in G => k \in G
  PROVE  \A k \in 0..n : k \in G
<1> DEFINE T == {k \in 0..n : k \notin G}
           R == OpToRel(<, Nat)
<1> SUFFICES ASSUME T # {} PROVE FALSE
  OBVIOUS
<1>1. \E k \in T : \A j \in T : <<j, k>> \notin R
  <2>1. T \subseteq Nat /\ T # {}
    OBVIOUS
  <2> HIDE DEF T
  <2> QED
    BY <2>1, NatLessThanWellFounded, WFMin
<1>2. PICK k \in T : \A j \in T : <<j, k>> \notin R
  BY <1>1
<1>3. \A j \in T : j \in Nat /\ k \in Nat /\ ~(j < k)
  <2>1. k \in Nat /\ T \subseteq Nat
    OBVIOUS
  <2> HIDE DEF T
  <2>2. SUFFICES ASSUME NEW j \in T, j < k PROVE FALSE
    BY <2>1
  <2>3. <<j, k>> \in R
    BY <2>1, <2>2 DEF OpToRel
  <2> QED
    BY <1>2, <2>3
<1> HIDE DEF R
<1>4. k \in 0..n /\ k \notin G /\ k # 0
  BY <1>2
<1>5. k \in 1..n /\ k - 1 \in 0..n /\ k - 1 < k
  BY <1>4
<1>6. k - 1 \notin T
  BY <1>3, <1>5
<1> QED
  BY <1>4, <1>5, <1>6

(***************************************************************************)
(* The sums of a list exist, and there is only one way to add up.          *)
(***************************************************************************)
Adds(h, s, n) == h[0] = 0 /\ \A k \in 1..n : h[k] = h[k - 1] + s[k]

\* The sums of any finite sequence of steps exist.
LEMMA SumsExist ==
  ASSUME NEW n \in Nat, NEW s \in [1..n -> Int]
  PROVE  \E h \in [0..n -> Int] : Adds(h, s, n)
<1> DEFINE G == {m \in 0..n : \E h \in [0..m -> Int] : Adds(h, s, m)}
<1>1. 0 \in G
  <2> DEFINE h == [k \in 0..0 |-> 0]
  <2>1. h \in [0..0 -> Int] /\ Adds(h, s, 0)
    BY DEF Adds
  <2> QED
    BY <2>1
<1>2. ASSUME NEW m \in 1..n, m - 1 \in G PROVE m \in G
  <2>1. PICK f \in [0..(m - 1) -> Int] : Adds(f, s, m - 1)
    BY <1>2
  <2> DEFINE h == [k \in 0..m |-> IF k = m THEN f[m - 1] + s[m] ELSE f[k]]
  <2>2. h \in [0..m -> Int] /\ m - 1 \in 0..(m - 1)
    BY <2>1
  <2>3. h[0] = 0
    BY <2>1 DEF Adds
  <2>4. ASSUME NEW k \in 1..m PROVE h[k] = h[k - 1] + s[k]
    <3>1. CASE k = m
      BY <3>1
    <3>2. CASE k # m
      <4>1. k \in 1..(m - 1)
        BY <3>2
      <4> QED
        BY <2>1, <3>2, <4>1 DEF Adds
    <3> QED
      BY <3>1, <3>2
  <2> HIDE DEF h
  <2>5. Adds(h, s, m)
    BY <2>3, <2>4 DEF Adds
  <2> QED
    BY <2>2, <2>5
<1> HIDE DEF G
<1>3. n \in G
  <2>1. \A k \in 1..n : k - 1 \in G => k \in G
    BY <1>2
  <2>2. \A k \in 0..n : k \in G
    BY <1>1, <2>1, Upward
  <2> QED
    BY <2>2
<1> QED
  BY <1>3 DEF G

\* Two functions that add up the same steps are the same.
LEMMA SumsAgree ==
  ASSUME NEW n \in Nat, NEW s, NEW h, NEW f, Adds(h, s, n), Adds(f, s, n)
  PROVE  \A k \in 0..n : h[k] = f[k]
<1> DEFINE G == {k \in 0..n : h[k] = f[k]}
<1>1. 0 \in G
  BY DEF Adds
<1>2. \A k \in 1..n : k - 1 \in G => k \in G
  BY DEF Adds
<1> HIDE DEF G
<1>3. \A k \in 0..n : k \in G
  BY <1>1, <1>2, Upward
<1> QED
  BY <1>3 DEF G

\* The recursive function Sums adds up its steps.
LEMMA SumsAre ==
  ASSUME NEW n \in Nat, NEW s \in [1..n -> Int]
  PROVE  Adds(Sums(s), s, n) /\ Sums(s) \in [0..n -> Int]
<1> DEFINE F(h) == [k \in 0..n |-> IF k = 0 THEN 0 ELSE h[k - 1] + s[k]]
           due == CHOOSE h : h = F(h)
<1>1. Len(s) = n
  OBVIOUS
<1>2. Sums(s) = due
  BY <1>1 DEF Sums
<1>3. PICK h \in [0..n -> Int] : Adds(h, s, n)
  BY SumsExist
<1>4. h = F(h)
  BY <1>3 DEF Adds
<1>5. due = F(due)
  BY <1>4
<1> HIDE DEF due
<1>6. Adds(due, s, n)
  BY <1>5 DEF Adds
<1>7. DOMAIN due = 0..n
  BY <1>5
<1>8. \A k \in 0..n : due[k] = h[k]
  BY <1>3, <1>6, SumsAgree
<1>9. due \in [0..n -> Int]
  BY <1>5, <1>8
<1> QED
  BY <1>2, <1>6, <1>9

-----------------------------------------------------------------------------
(***************************************************************************)
(* When the timers of a list are due, after its start.                     *)
(***************************************************************************)
Dues(list, tm) == Sums([i \in DOMAIN list |-> tm[list[i]]])

\* Offset is Dues with the times as they are now.
LEMMA OffsetIs == \A list, i : Offset(list, i) = Dues(list, time)[i]
  BY DEF Offset, Times, Dues

\* When the timers of a list are due, step by step.
LEMMA DuesAre ==
  ASSUME NEW list \in Seq(Timer), NEW tm \in [Timer -> Int]
  PROVE  /\ Dues(list, tm) \in [0..Len(list) -> Int]
         /\ Dues(list, tm)[0] = 0
         /\ \A k \in 1..Len(list) :
              Dues(list, tm)[k] = Dues(list, tm)[k - 1] + tm[list[k]]
<1> DEFINE n == Len(list)
           s == [i \in DOMAIN list |-> tm[list[i]]]
<1>1. n \in Nat /\ s \in [1..n -> Int] /\ \A k \in 1..n : s[k] = tm[list[k]]
  OBVIOUS
<1> HIDE DEF s
<1>2. Adds(Sums(s), s, n) /\ Sums(s) \in [0..n -> Int]
  BY <1>1, SumsAre
<1> QED
  BY <1>1, <1>2 DEF Adds, Dues, s

\* Whatever adds up the times of a list is when they are due.
LEMMA DuesUnique ==
  ASSUME NEW list \in Seq(Timer), NEW tm \in [Timer -> Int], NEW h, h[0] = 0,
         \A k \in 1..Len(list) : h[k] = h[k - 1] + tm[list[k]]
  PROVE  \A k \in 0..Len(list) : Dues(list, tm)[k] = h[k]
<1> DEFINE n == Len(list)
           s == [i \in DOMAIN list |-> tm[list[i]]]
<1>1. n \in Nat /\ s \in [1..n -> Int] /\ \A k \in 1..n : s[k] = tm[list[k]]
  OBVIOUS
<1> HIDE DEF s
<1>2. Adds(h, s, n)
  BY <1>1 DEF Adds
<1>3. Adds(Sums(s), s, n)
  BY <1>1, SumsAre
<1> HIDE DEF n
<1>4. \A k \in 0..n : Sums(s)[k] = h[k]
  BY <1>1, <1>2, <1>3, SumsAgree
<1> QED
  BY <1>4 DEF Dues, s, n

\* No timer is due before one in front of it.
LEMMA DuesGrow ==
  ASSUME NEW list \in Seq(Timer), NEW tm \in [Timer -> Nat]
  PROVE  /\ \A j \in 0..Len(list) : \A i \in 0..j : Dues(list, tm)[i] <= Dues(list, tm)[j]
         /\ \A j \in 0..Len(list) : Dues(list, tm)[j] \in Nat
<1> DEFINE n == Len(list)
           d == Dues(list, tm)
           G == {j \in 0..n : \A i \in 0..j : d[i] <= d[j]}
<1>1. /\ n \in Nat /\ d \in [0..n -> Int] /\ d[0] = 0
      /\ \A k \in 1..n : list[k] \in Timer /\ d[k] = d[k - 1] + tm[list[k]]
  <2>1. tm \in [Timer -> Int]
    OBVIOUS
  <2> QED
    BY <2>1, DuesAre
<1> HIDE DEF d, n
<1>2. 0 \in G
  BY <1>1
<1>3. \A k \in 1..n : k - 1 \in G => k \in G
  <2> SUFFICES ASSUME NEW k \in 1..n, k - 1 \in G PROVE k \in G
    OBVIOUS
  <2>1. tm[list[k]] \in Nat /\ d[k] = d[k - 1] + tm[list[k]] /\ d[k - 1] \in Int /\ d[k] \in Int
    BY <1>1
  <2>2. ASSUME NEW i \in 0..k PROVE d[i] <= d[k]
    <3>1. CASE i = k
      BY <2>1, <3>1
    <3>2. CASE i # k
      <4>1. i \in 0..(k - 1) /\ d[i] \in Int
        BY <1>1, <3>2
      <4>2. d[i] <= d[k - 1]
        BY <4>1
      <4> QED
        BY <2>1, <4>1, <4>2
    <3> QED
      BY <3>1, <3>2
  <2>3. k \in 0..n
    BY <1>1
  <2> QED
    BY <2>2, <2>3
<1> HIDE DEF G
<1>4. \A k \in 0..n : k \in G
  BY <1>1, <1>2, <1>3, Upward
<1>5. \A j \in 0..n : \A i \in 0..j : d[i] <= d[j]
  BY <1>4 DEF G
<1>6. \A j \in 0..n : d[j] \in Nat
  <2> SUFFICES ASSUME NEW j \in 0..n PROVE d[j] \in Nat
    OBVIOUS
  <2>1. 0 \in 0..j
    BY <1>1
  <2>2. d[0] <= d[j] /\ d[j] \in Int
    BY <1>1, <1>5, <2>1
  <2> QED
    BY <1>1, <2>2
<1> QED
  BY <1>5, <1>6 DEF d, n

(***************************************************************************)
(* What is due behind the first timer.                                     *)
(***************************************************************************)
LEMMA DuesOfTail ==
  ASSUME NEW list \in Seq(Timer), list # <<>>, NEW tm \in [Timer -> Int]
  PROVE  /\ Tail(list) \in Seq(Timer) /\ Len(list) \in Nat \ {0}
         /\ Len(Tail(list)) = Len(list) - 1 /\ DOMAIN Tail(list) = 1..(Len(list) - 1)
         /\ Head(list) = list[1] /\ Head(list) \in Timer
         /\ \A k \in 1..(Len(list) - 1) : Tail(list)[k] = list[k + 1]
         /\ Dues(list, tm)[1] = tm[Head(list)]
         /\ \A k \in 0..(Len(list) - 1) :
              Dues(Tail(list), tm)[k] = Dues(list, tm)[k + 1] - Dues(list, tm)[1]
<1> DEFINE n == Len(list)
           d == Dues(list, tm)
           h == [k \in 0..(n - 1) |-> d[k + 1] - d[1]]
<1>1. /\ Tail(list) \in Seq(Timer) /\ n \in Nat \ {0} /\ Len(Tail(list)) = n - 1
      /\ Head(list) = list[1] /\ Head(list) \in Timer
      /\ \A k \in 1..(n - 1) : Tail(list)[k] = list[k + 1]
  OBVIOUS
<1>2. /\ d \in [0..n -> Int] /\ d[0] = 0
      /\ \A k \in 1..n : list[k] \in Timer /\ d[k] = d[k - 1] + tm[list[k]]
  BY DuesAre
<1> HIDE DEF d, n
<1>3. h[0] = 0 /\ \A k \in 1..(n - 1) : h[k] = h[k - 1] + tm[Tail(list)[k]]
  <2>1. h[0] = 0
    BY <1>1, <1>2
  <2>2. ASSUME NEW k \in 1..(n - 1) PROVE h[k] = h[k - 1] + tm[Tail(list)[k]]
    <3>1. k \in 0..(n - 1) /\ k - 1 \in 0..(n - 1) /\ k + 1 \in 1..n /\ k \in 0..n /\ 1 \in 0..n
      BY <1>1
    <3>2. h[k] = d[k + 1] - d[1] /\ h[k - 1] = d[k] - d[1]
      BY <3>1
    <3>3. d[k + 1] = d[k] + tm[list[k + 1]] /\ tm[list[k + 1]] \in Int
      BY <1>2, <3>1
    <3>4. d[k] \in Int /\ d[1] \in Int
      BY <1>2, <3>1
    <3> QED
      BY <1>1, <3>2, <3>3, <3>4
  <2> QED
    BY <2>1, <2>2
<1> HIDE DEF h
<1>4. \A k \in 0..(n - 1) : Dues(Tail(list), tm)[k] = h[k]
  <2> DEFINE r == Tail(list)
  <2>1. r \in Seq(Timer) /\ Len(r) = n - 1
    BY <1>1
  <2>2. h[0] = 0 /\ \A k \in 1..Len(r) : h[k] = h[k - 1] + tm[r[k]]
    BY <1>3, <2>1
  <2> HIDE DEF r
  <2>3. \A k \in 0..Len(r) : Dues(r, tm)[k] = h[k]
    BY <2>1, <2>2, DuesUnique, ZenonT(30)
  <2> QED
    BY <2>1, <2>3 DEF r
<1>5. d[1] = tm[Head(list)]
  BY <1>1, <1>2
<1> QED
  BY <1>1, <1>4, <1>5 DEF h, d, n

(***************************************************************************)
(* The timers of a list that are due by some time are its first ones, and  *)
(* so counting them says where they end.                                   *)
(***************************************************************************)
LEMMA FirstOnes ==
  ASSUME NEW n \in Nat, NEW d \in [0..n -> Int], NEW c \in Int,
         \A j \in 0..n : \A i \in 0..j : d[i] <= d[j]
  PROVE  /\ Cardinality({i \in 1..n : d[i] <= c}) \in 0..n
         /\ \A i \in 1..n : d[i] <= c <=> i <= Cardinality({j \in 1..n : d[j] <= c})
<1> DEFINE S == {i \in 1..n : d[i] <= c}
           G == {m \in 0..n : \E k \in 0..m : \A i \in 1..m : d[i] <= c <=> i <= k}
<1>1. 0 \in G
  OBVIOUS
<1>2. \A m \in 1..n : m - 1 \in G => m \in G
  <2> SUFFICES ASSUME NEW m \in 1..n, m - 1 \in G PROVE m \in G
    OBVIOUS
  <2>1. PICK k \in 0..(m - 1) : \A i \in 1..(m - 1) : d[i] <= c <=> i <= k
    OBVIOUS
  <2>2. m \in 0..n /\ d[m] \in Int
    OBVIOUS
  <2>3. CASE d[m] <= c
    <3>1. \A i \in 1..m : d[i] \in Int /\ d[i] <= d[m]
      BY <2>2
    <3>2. \A i \in 1..m : d[i] <= c <=> i <= m
      BY <2>2, <2>3, <3>1
    <3> QED
      BY <2>2, <3>2, SMTT(20)
  <2>4. CASE ~(d[m] <= c)
    <3>1. \A i \in 1..m : i \in 1..(m - 1) \/ i = m
      OBVIOUS
    <3>2. \A i \in 1..m : d[i] <= c <=> i <= k
      BY <2>1, <2>4, <3>1
    <3>3. k \in 0..m
      BY <2>1
    <3> QED
      BY <2>2, <3>2, <3>3
  <2> QED
    BY <2>3, <2>4
<1> HIDE DEF G
<1>3. \A m \in 0..n : m \in G
  BY <1>1, <1>2, Upward
<1>4. PICK k \in 0..n : \A i \in 1..n : d[i] <= c <=> i <= k
  <2>1. n \in G
    BY <1>3
  <2> QED
    BY <2>1 DEF G
<1>5. S = 1..k
  BY <1>4
<1>6. Cardinality(1..k) = k
  BY FS_Interval
<1> QED
  BY <1>4, <1>5, <1>6

-----------------------------------------------------------------------------
(***************************************************************************)
(* Two lists that take the same steps from somewhere on keep their         *)
(* distance there.                                                         *)
(***************************************************************************)
Sum(d, a, n) == a \in [1..n -> Int] /\ d \in [0..n -> Int] /\ Adds(d, a, n)

Within(i, j, s, n, m) ==
  i \in 0..n /\ j \in 0..n /\ i <= j /\ s \in Int /\ i + s \in 0..m /\ j + s \in 0..m

SameSteps(a, b, i, j, s) == \A k \in (i + 1)..j : b[k + s] = a[k]

Parallel(d, e, i, j, s) == \A k \in i..j : e[k + s] = d[k] + (e[i + s] - d[i])

\* Two lists of the same steps over a stretch differ by a constant there.
LEMMA InParallel ==
  ASSUME NEW n \in Nat, NEW a, NEW d, Sum(d, a, n),
         NEW m \in Nat, NEW b, NEW e, Sum(e, b, m),
         NEW i, NEW j, NEW s, Within(i, j, s, n, m), SameSteps(a, b, i, j, s)
  PROVE  Parallel(d, e, i, j, s)
<1> DEFINE x == e[i + s] - d[i]
           G == {l \in 0..(j - i) : e[(i + l) + s] = d[i + l] + x}
<1>1. /\ a \in [1..n -> Int] /\ d \in [0..n -> Int] /\ b \in [1..m -> Int] /\ e \in [0..m -> Int]
      /\ \A k \in 1..n : d[k] = d[k - 1] + a[k]
      /\ \A k \in 1..m : e[k] = e[k - 1] + b[k]
      /\ i \in 0..n /\ j \in 0..n /\ i <= j /\ s \in Int /\ i + s \in 0..m /\ j + s \in 0..m
      /\ \A k \in (i + 1)..j : b[k + s] = a[k]
  BY DEF Sum, Adds, Within, SameSteps
<1>2. x \in Int
  BY <1>1
<1>3. 0 \in G
  <2>1. e[i + s] \in Int /\ d[i] \in Int /\ i + 0 = i
    BY <1>1
  <2>2. e[(i + 0) + s] = d[i + 0] + x
    BY <2>1
  <2>3. 0 \in 0..(j - i)
    BY <1>1
  <2> QED
    BY <2>2, <2>3
<1> HIDE DEF x
<1>4. ASSUME NEW l \in 1..(j - i), l - 1 \in G PROVE l \in G
  <2> DEFINE k == i + l
  <2>1. i + (l - 1) = k - 1 /\ k \in (i + 1)..j /\ k \in 1..n /\ k \in Int /\ l \in 0..(j - i)
    BY <1>1
  <2> HIDE DEF k
  <2>2. k + s \in 1..m /\ (k + s) - 1 = (k - 1) + s /\ (k - 1) + s \in 0..m /\ k - 1 \in 0..n
    BY <1>1, <2>1
  <2>3. e[(k - 1) + s] = d[k - 1] + x
    BY <1>4, <2>1
  <2>4. e[k + s] = e[(k - 1) + s] + b[k + s]
    BY <1>1, <2>2
  <2>5. d[k] = d[k - 1] + a[k] /\ b[k + s] = a[k] /\ a[k] \in Int /\ d[k - 1] \in Int
    BY <1>1, <2>1, <2>2
  <2>6. e[k + s] = d[k] + x
    BY <1>2, <2>3, <2>4, <2>5
  <2> QED
    BY <2>1, <2>6 DEF k
<1> HIDE DEF G
<1>5. j - i \in Nat /\ \A l \in 1..(j - i) : l - 1 \in G => l \in G
  BY <1>1, <1>4
<1>6. \A l \in 0..(j - i) : l \in G
  BY <1>3, <1>5, Upward
<1>7. ASSUME NEW k \in i..j PROVE e[k + s] = d[k] + x
  <2>1. k - i \in 0..(j - i) /\ i + (k - i) = k
    BY <1>1
  <2> QED
    BY <1>6, <2>1 DEF G
<1> QED
  BY <1>7 DEF x, Parallel

(***************************************************************************)
(* A timer in front of the others.                                         *)
(***************************************************************************)
LEMMA SumsInFront ==
  ASSUME NEW n \in Nat \ {0}, NEW a, NEW d, Sum(d, a, n),
         NEW b, NEW e, Sum(e, b, n + 1),
         \A k \in 2..n : b[k + 1] = a[k]
  PROVE  e[1] = b[1] /\ \A k \in 1..n : e[k + 1] = b[1] + b[2] + (d[k] - d[1])
<1>1. /\ n + 1 \in Nat /\ 1 \in 1..(n + 1) /\ 2 \in 1..(n + 1) /\ 2 - 1 = 1 /\ 1 - 1 = 0
      /\ 1 \in 0..n /\ n \in 0..n /\ 1 <= n /\ 1 \in Int /\ 1 + 1 \in 0..(n + 1)
      /\ 1 + 1 = 2 /\ n + 1 \in 0..(n + 1)
  OBVIOUS
<1>2. /\ e[0] = 0 /\ e[1] = e[1 - 1] + b[1] /\ e[2] = e[2 - 1] + b[2]
      /\ b[1] \in Int /\ b[2] \in Int
      /\ d \in [0..n -> Int]
  BY <1>1 DEF Sum, Adds
<1>3. e[1] = b[1] /\ e[2] = b[1] + b[2]
  BY <1>1, <1>2
<1>5. \A k \in 1..n : e[k + 1] = d[k] + (e[2] - d[1])
  <2> DEFINE i == 1
             s == 1
  <2>1. Within(i, n, s, n, n + 1) /\ n \in Nat
    BY <1>1 DEF Within
  <2>2. SameSteps(a, b, i, n, s)
    BY <1>1 DEF SameSteps
  <2> HIDE DEF i, s
  <2>3. Parallel(d, e, i, n, s)
    BY <1>1, <2>1, <2>2, InParallel
  <2> QED
    BY <2>3 DEF i, s, Parallel
<1>6. \A k \in 1..n : d[k] \in Int /\ d[1] \in Int
  BY <1>1, <1>2
<1> QED
  BY <1>1, <1>2, <1>3, <1>5, <1>6

(***************************************************************************)
(* A timer behind the first p, due at c.                                   *)
(***************************************************************************)
StepsInserted(n, a, d, b, e, p, c) ==
  /\ n \in Nat /\ Sum(d, a, n) /\ Sum(e, b, n + 1) /\ p \in 1..n /\ c \in Int
  /\ \A k \in 1..p : b[k] = a[k]
  /\ b[p + 1] = c - d[p]
  /\ p < n => b[p + 2] = a[p + 1] - (c - d[p])
  /\ \A k \in (p + 2)..n : b[k + 1] = a[k]

\* A step put in at p + 1 leaves every sum but its own.
LEMMA SumsInserted ==
  ASSUME NEW n, NEW a, NEW d, NEW b, NEW e, NEW p, NEW c,
         StepsInserted(n, a, d, b, e, p, c)
  PROVE  /\ \A k \in 1..p : e[k] = d[k]
         /\ e[p + 1] = c
         /\ \A k \in (p + 1)..n : e[k + 1] = d[k]
<1> USE DEF StepsInserted
<1>1. /\ \A k \in 0..n : d[k] \in Int
      /\ \A k \in 0..(n + 1) : e[k] \in Int
      /\ \A k \in 1..n : d[k] = d[k - 1] + a[k] /\ a[k] \in Int
      /\ \A k \in 1..(n + 1) : e[k] = e[k - 1] + b[k]
      /\ d[0] = 0 /\ e[0] = 0
  BY DEF Sum, Adds
<1>2. \A k \in 0..p : e[k] = d[k]
  <2> DEFINE i == 0
             s == 0
  <2>1. Within(i, p, s, n, n + 1) /\ n + 1 \in Nat
    BY DEF Within
  <2>2. SameSteps(a, b, i, p, s)
    BY DEF SameSteps
  <2>3. i + s = 0 /\ i = 0 /\ s = 0
    OBVIOUS
  <2> HIDE DEF i, s
  <2>4. Parallel(d, e, i, p, s)
    BY <2>1, <2>2, InParallel
  <2>5. \A k \in 0..p : k + s = k /\ d[k] \in Int
    BY <1>1, <2>3
  <2> QED
    BY <1>1, <2>3, <2>4, <2>5 DEF Parallel
<1>3. e[p + 1] = c
  <2>1. p + 1 \in 1..(n + 1) /\ (p + 1) - 1 = p /\ p \in 0..p /\ p \in 0..n
    OBVIOUS
  <2>2. e[p + 1] = e[p] + b[p + 1] /\ d[p] \in Int /\ e[p] = d[p]
    BY <1>1, <1>2, <2>1
  <2> QED
    BY <2>2
<1>4. ASSUME p < n PROVE \A k \in (p + 1)..n : e[k + 1] = d[k]
  <2>1. /\ p + 2 \in 1..(n + 1) /\ (p + 2) - 1 = p + 1 /\ p + 1 \in 1..n /\ (p + 1) - 1 = p
        /\ p \in 0..n /\ p + 1 \in 0..n
    BY <1>4
  <2>2. /\ e[p + 2] = e[p + 1] + b[p + 2] /\ d[p + 1] = d[p] + a[p + 1]
        /\ d[p] \in Int /\ a[p + 1] \in Int /\ d[p + 1] \in Int
    BY <1>1, <2>1
  <2>3. e[p + 2] = d[p + 1]
    BY <1>3, <1>4, <2>2
  <2>7. \A k \in (p + 1)..n : d[k] \in Int
    BY <1>1, <2>1
  <2> DEFINE i == p + 1
             s == 1
  <2>4. Within(i, n, s, n, n + 1) /\ n + 1 \in Nat /\ i + s = p + 2
    BY <1>4, <2>1 DEF Within
  <2>5. SameSteps(a, b, i, n, s)
    BY <2>1 DEF SameSteps
  <2> HIDE DEF i, s
  <2>6. Parallel(d, e, i, n, s)
    BY <2>4, <2>5, InParallel
  <2>8. \A k \in i..n : e[k + s] = d[k]
    BY <2>2, <2>3, <2>4, <2>6, <2>7 DEF i, Parallel
  <2> QED
    BY <2>8 DEF i, s
<1>5. p = n => \A k \in (p + 1)..n : e[k + 1] = d[k]
  OBVIOUS
<1>6. p < n \/ p = n
  OBVIOUS
<1> QED
  BY <1>2, <1>3, <1>4, <1>5, <1>6

(***************************************************************************)
(* Without the i-th timer: the next one takes over its time.               *)
(***************************************************************************)
StepsRemoved(n, a, d, b, e, i) ==
  /\ n \in Nat /\ Sum(d, a, n) /\ Sum(e, b, n - 1) /\ i \in 2..n
  /\ \A k \in 1..(i - 1) : b[k] = a[k]
  /\ i < n => b[i] = a[i] + a[i + 1]
  /\ \A k \in (i + 2)..n : b[k - 1] = a[k]

\* A step taken out and added to the next leaves every other sum.
LEMMA SumsRemoved ==
  ASSUME NEW n, NEW a, NEW d, NEW b, NEW e, NEW i,
         StepsRemoved(n, a, d, b, e, i)
  PROVE  /\ \A k \in 1..(i - 1) : e[k] = d[k]
         /\ \A k \in (i + 1)..n : e[k - 1] = d[k]
<1> USE DEF StepsRemoved
<1>1. /\ \A k \in 0..n : d[k] \in Int
      /\ \A k \in 0..(n - 1) : e[k] \in Int
      /\ \A k \in 1..n : d[k] = d[k - 1] + a[k] /\ a[k] \in Int
      /\ \A k \in 1..(n - 1) : e[k] = e[k - 1] + b[k]
      /\ d[0] = 0 /\ e[0] = 0 /\ n - 1 \in Nat
  BY SMTT(20) DEF Sum, Adds
<1>2. \A k \in 0..(i - 1) : e[k] = d[k]
  <2> DEFINE z == 0
             j == i - 1
  <2>1. Within(z, j, z, n, n - 1)
    BY DEF Within
  <2>2. SameSteps(a, b, z, j, z)
    BY DEF SameSteps
  <2>3. z + z = 0 /\ z = 0
    OBVIOUS
  <2>4. \A k \in 0..j : k + z = k /\ d[k] \in Int
    BY <1>1
  <2> HIDE DEF z, j
  <2>5. Parallel(d, e, z, j, z)
    BY <1>1, <2>1, <2>2, InParallel
  <2>6. \A k \in 0..j : e[k] = d[k]
    BY <1>1, <2>3, <2>4, <2>5 DEF Parallel
  <2> QED
    BY <2>6 DEF j
<1>3. ASSUME i < n PROVE \A k \in (i + 1)..n : e[k - 1] = d[k]
  <2>1. i \in 1..(n - 1) /\ i - 1 \in 0..(i - 1) /\ i \in 1..n /\ i + 1 \in 1..n /\ (i + 1) - 1 = i
        /\ i - 1 \in 0..n
    BY <1>3
  <2>2. /\ e[i] = e[i - 1] + b[i] /\ d[i] = d[i - 1] + a[i] /\ d[i + 1] = d[i] + a[i + 1]
        /\ a[i] \in Int /\ a[i + 1] \in Int /\ d[i - 1] \in Int /\ e[i - 1] = d[i - 1]
    BY <1>1, <1>2, <2>1
  <2>3. e[i] = d[i + 1] /\ d[i + 1] \in Int
    BY <1>3, <2>2
  <2> DEFINE l == i + 1
             s == -1
  <2>4. Within(l, n, s, n, n - 1)
    BY <1>3, <2>1 DEF Within
  <2>5. SameSteps(a, b, l, n, s)
    <3> SUFFICES ASSUME NEW k \in (l + 1)..n PROVE b[k + s] = a[k]
      BY DEF SameSteps
    <3>1. k \in (i + 2)..n /\ k + s = k - 1
      OBVIOUS
    <3> QED
      BY <3>1
  <2>6. l + s = i /\ \A k \in l..n : k + s = k - 1 /\ d[k] \in Int
    BY <1>1
  <2> HIDE DEF l, s
  <2>7. Parallel(d, e, l, n, s)
    BY <1>1, <2>4, <2>5, InParallel
  <2>8. \A k \in l..n : e[k - 1] = d[k]
    BY <2>3, <2>6, <2>7 DEF Parallel, l
  <2> QED
    BY <2>8 DEF l
<1>4. i < n \/ i = n
  OBVIOUS
<1>5. i = n => \A k \in (i + 1)..n : e[k - 1] = d[k]
  OBVIOUS
<1> QED
  BY <1>2, <1>3, <1>4, <1>5

(***************************************************************************)
(* Without the first p timers, and the next due x earlier.                 *)
(***************************************************************************)
StepsCut(n, a, d, b, e, p, x) ==
  /\ n \in Nat /\ Sum(d, a, n) /\ Sum(e, b, n - p) /\ p \in 1..(n - 1) /\ x \in Int
  /\ b[1] = d[p + 1] - x
  /\ \A k \in 2..(n - p) : b[k] = a[p + k]

\* With the first p steps gone and x off the next, all sums are x less.
LEMMA SumsCut ==
  ASSUME NEW n, NEW a, NEW d, NEW b, NEW e, NEW p, NEW x,
         StepsCut(n, a, d, b, e, p, x)
  PROVE  \A k \in 1..(n - p) : e[k] = d[p + k] - x
<1> USE DEF StepsCut
<1>1. /\ \A k \in 0..n : d[k] \in Int
      /\ e[1] = e[1 - 1] + b[1] /\ e[0] = 0 /\ n - p \in Nat /\ p \in Int
      /\ \A k \in 0..(n - p) : e[k] \in Int
  <2>1. 1 \in 1..(n - p) /\ n - p \in Nat /\ p \in Int
    OBVIOUS
  <2>2. \A k \in 0..n : d[k] \in Int
    BY DEF Sum
  <2>3. e[0] = 0 /\ \A k \in 0..(n - p) : e[k] \in Int
    BY DEF Sum, Adds
  <2>4. e[1] = e[1 - 1] + b[1]
    BY <2>1 DEF Sum, Adds
  <2> QED
    BY <2>1, <2>2, <2>3, <2>4
<1>2. e[1] = d[p + 1] - x /\ d[p + 1] \in Int
  <2>1. p + 1 \in 0..n
    OBVIOUS
  <2> QED
    BY <1>1, <2>1
<1> DEFINE i == p + 1
           s == 0 - p
<1>3. Within(i, n, s, n, n - p)
  BY DEF Within
<1>4. SameSteps(a, b, i, n, s)
  <2> SUFFICES ASSUME NEW k \in (i + 1)..n PROVE b[k + s] = a[k]
    BY DEF SameSteps
  <2>1. k + s \in 2..(n - p) /\ p + (k + s) = k
    OBVIOUS
  <2> QED
    BY <2>1
<1>5. i + s = 1
  OBVIOUS
<1>6. \A k \in 1..(n - p) : (p + k) + s = k /\ p + k \in i..n
  OBVIOUS
<1> HIDE DEF s
<1>7. Parallel(d, e, i, n, s)
  <2> HIDE DEF i
  <2> QED
    BY <1>1, <1>3, <1>4, InParallel
<1>8. \A k \in i..n : e[k + s] = d[k] + (e[1] - d[p + 1])
  BY <1>5, <1>7 DEF Parallel
<1>9. ASSUME NEW k \in 1..(n - p) PROVE e[k] = d[p + k] - x
  <2>1. e[(p + k) + s] = d[p + k] + (e[1] - d[p + 1]) /\ d[p + k] \in Int
    BY <1>1, <1>6, <1>8
  <2> QED
    BY <1>2, <1>6, <2>1
<1> QED
  BY <1>9

(***************************************************************************)
(* Without the first timer, the next m due at once and the others x        *)
(* earlier.                                                                *)
(***************************************************************************)
StepsCleared(n, a, d, b, e, m, x) ==
  /\ n \in Nat \ {0} /\ Sum(d, a, n) /\ Sum(e, b, n - 1) /\ m \in 0..(n - 1) /\ x \in Int
  /\ \A k \in 1..m : b[k] = 0
  /\ m < n - 1 => b[m + 1] = d[m + 2] - x
  /\ \A k \in (m + 3)..n : b[k - 1] = a[k]

\* The first gone, m steps set to 0 and the next one lowered: all after are x less.
LEMMA SumsCleared ==
  ASSUME NEW n, NEW a, NEW d, NEW b, NEW e, NEW m, NEW x,
         StepsCleared(n, a, d, b, e, m, x)
  PROVE  /\ \A k \in 1..m : e[k] = 0
         /\ \A k \in (m + 2)..n : e[k - 1] = d[k] - x
<1> USE DEF StepsCleared
<1>1. /\ \A k \in 0..n : d[k] \in Int
      /\ \A k \in 0..(n - 1) : e[k] \in Int
      /\ \A k \in 1..(n - 1) : e[k] = e[k - 1] + b[k]
      /\ e[0] = 0 /\ n - 1 \in Nat /\ m \in Nat
  BY DEF Sum, Adds
<1>2. \A k \in 0..m : e[k] = 0
  <2> DEFINE G == {k \in 0..m : e[k] = 0}
  <2>1. 0 \in G
    BY <1>1
  <2>2. ASSUME NEW k \in 1..m, k - 1 \in G PROVE k \in G
    <3>1. k \in 1..(n - 1) /\ k \in 0..m
      OBVIOUS
    <3> QED
      BY <1>1, <2>2, <3>1
  <2>3. \A k \in 1..m : k - 1 \in G => k \in G
    BY <2>2
  <2> HIDE DEF G
  <2>4. \A k \in 0..m : k \in G
    BY <1>1, <2>1, <2>3, Upward
  <2> QED
    BY <2>4 DEF G
<1>3. ASSUME m < n - 1 PROVE \A k \in (m + 2)..n : e[k - 1] = d[k] - x
  <2>1. m + 1 \in 1..(n - 1) /\ (m + 1) - 1 = m /\ m \in 0..m /\ m + 2 \in 0..n
    BY <1>3
  <2>2. e[m + 1] = e[m] + b[m + 1] /\ e[m] = 0 /\ d[m + 2] \in Int
    BY <1>1, <1>2, <2>1
  <2>3. e[m + 1] = d[m + 2] - x
    BY <1>3, <2>2
  <2> DEFINE l == m + 2
             s == -1
  <2>4. Within(l, n, s, n, n - 1)
    BY <1>3, <2>1 DEF Within
  <2>5. SameSteps(a, b, l, n, s)
    <3> SUFFICES ASSUME NEW k \in (l + 1)..n PROVE b[k + s] = a[k]
      BY DEF SameSteps
    <3>1. k \in (m + 3)..n /\ k + s = k - 1
      OBVIOUS
    <3> QED
      BY <3>1
  <2>6. l + s = m + 1 /\ \A k \in l..n : k + s = k - 1 /\ d[k] \in Int
    BY <1>1
  <2> HIDE DEF l, s
  <2>7. Parallel(d, e, l, n, s)
    BY <1>1, <2>4, <2>5, InParallel
  <2>8. \A k \in l..n : e[k - 1] = d[k] - x
    BY <2>2, <2>3, <2>6, <2>7 DEF Parallel, l
  <2> QED
    BY <2>8 DEF l
<1>4. m < n - 1 \/ m = n - 1
  OBVIOUS
<1>5. m = n - 1 => \A k \in (m + 2)..n : e[k - 1] = d[k] - x
  OBVIOUS
<1> QED
  BY <1>2, <1>3, <1>4, <1>5

-----------------------------------------------------------------------------
(***************************************************************************)
(* A timer is in a list once.                                              *)
(***************************************************************************)
Once(list) == \A i, j \in 1..Len(list) : list[i] = list[j] => i = j

(***************************************************************************)
(* The lists the operations make of a list: t put behind the first p       *)
(* timers, the i-th timer taken out, the first p cut off.                  *)
(***************************************************************************)
Inserted(new, p, t, list) ==
  /\ new \in Seq(Timer) /\ Len(new) = Len(list) + 1
  /\ \A k \in 1..p : new[k] = list[k]
  /\ new[p + 1] = t
  /\ \A k \in (p + 1)..Len(list) : new[k + 1] = list[k]

Without(new, i, list) ==
  /\ new \in Seq(Timer) /\ Len(new) = Len(list) - 1
  /\ \A k \in 1..(i - 1) : new[k] = list[k]
  /\ \A k \in (i + 1)..Len(list) : new[k - 1] = list[k]

Cut(new, p, list) ==
  /\ new \in Seq(Timer) /\ Len(new) = Len(list) - p
  /\ \A k \in 1..(Len(list) - p) : new[k] = list[p + k]

In(t, list) == \E k \in 1..Len(list) : list[k] = t

\* A list with a timer put in front.
LEMMA InFrontIs ==
  ASSUME NEW list \in Seq(Timer), NEW t \in Timer
  PROVE  Inserted(<<t>> \o list, 0, t, list)
BY DEF Inserted

\* The elements of two sequences put together.
LEMMA JoinIs ==
  ASSUME NEW a \in Seq(Timer), NEW b \in Seq(Timer)
  PROVE  /\ a \o b \in Seq(Timer) /\ Len(a \o b) = Len(a) + Len(b)
         /\ \A k \in 1..Len(a) : (a \o b)[k] = a[k]
         /\ \A k \in 1..Len(b) : (a \o b)[Len(a) + k] = b[k]
OBVIOUS

\* InsertAt(list, p + 1, t) puts t behind the first p.
LEMMA InsertAtIs ==
  ASSUME NEW list \in Seq(Timer), NEW t \in Timer, NEW p \in 0..Len(list)
  PROVE  Inserted(InsertAt(list, p + 1, t), p, t, list)
<1> DEFINE front == SubSeq(list, 1, p)
           back == SubSeq(list, p + 1, Len(list))
           new == (front \o <<t>>) \o back
<1>1. InsertAt(list, p + 1, t) = new
  <2>1. (p + 1) - 1 = p
    OBVIOUS
  <2> QED
    BY <2>1, Zenon DEF InsertAt
<1>2. /\ front \in Seq(Timer) /\ Len(front) = p
      /\ \A k \in 1..p : front[k] = list[k]
  OBVIOUS
<1>3. /\ back \in Seq(Timer) /\ Len(back) = Len(list) - p
      /\ \A k \in 1..(Len(list) - p) : back[k] = list[p + k]
  OBVIOUS
<1> HIDE DEF front, back
<1>4. new \in Seq(Timer) /\ Len(new) = Len(list) + 1
  <2>1. front \o <<t>> \in Seq(Timer) /\ Len(front \o <<t>>) = p + 1
    BY <1>2
  <2>2. new \in Seq(Timer) /\ Len(new) = (p + 1) + Len(back)
    BY <1>3, <2>1, JoinIs, Zenon
  <2>3. (p + 1) + Len(back) = Len(list) + 1
    BY <1>3
  <2> QED
    BY <2>2, <2>3, Zenon
<1>5. \A k \in 1..p : new[k] = list[k]
  BY <1>2, <1>3
<1>6. new[p + 1] = t
  <2>1. /\ front \o <<t>> \in Seq(Timer) /\ Len(front \o <<t>>) = p + 1
        /\ (front \o <<t>>)[p + 1] = t /\ p + 1 \in 1..(p + 1)
    BY <1>2
  <2> QED
    BY <1>3, <2>1, JoinIs
<1>7. ASSUME NEW k \in (p + 1)..Len(list) PROVE new[k + 1] = list[k]
  <2>1. new[k + 1] = back[(k + 1) - (p + 1)]
    BY <1>2, <1>3
  <2>2. (k + 1) - (p + 1) = k - p /\ k - p \in 1..(Len(list) - p) /\ p + (k - p) = k
    OBVIOUS
  <2> QED
    BY <1>3, <2>1, <2>2
<1> QED
  BY <1>1, <1>4, <1>5, <1>6, <1>7 DEF Inserted

\* RemoveAt(list, i) takes out number i and nothing else.
LEMMA RemoveAtIs ==
  ASSUME NEW list \in Seq(Timer), NEW i \in 1..Len(list)
  PROVE  Without(RemoveAt(list, i), i, list)
<1> DEFINE front == SubSeq(list, 1, i - 1)
           back == SubSeq(list, i + 1, Len(list))
           new == front \o back
<1>1. RemoveAt(list, i) = new
  BY DEF RemoveAt
<1>2. /\ front \in Seq(Timer) /\ Len(front) = i - 1
      /\ \A k \in 1..(i - 1) : front[k] = list[k]
  OBVIOUS
<1>3. /\ back \in Seq(Timer) /\ Len(back) = Len(list) - i
      /\ \A k \in 1..(Len(list) - i) : back[k] = list[i + k]
  OBVIOUS
<1> HIDE DEF front, back
<1>4. new \in Seq(Timer) /\ Len(new) = Len(list) - 1
  BY <1>2, <1>3
<1>5. \A k \in 1..(i - 1) : new[k] = list[k]
  BY <1>2, <1>3
<1>6. ASSUME NEW k \in (i + 1)..Len(list) PROVE new[k - 1] = list[k]
  <2>1. new[k - 1] = back[(k - 1) - (i - 1)]
    BY <1>2, <1>3
  <2>2. (k - 1) - (i - 1) = k - i /\ k - i \in 1..(Len(list) - i) /\ i + (k - i) = k
    OBVIOUS
  <2> QED
    BY <1>3, <2>1, <2>2
<1> QED
  BY <1>1, <1>4, <1>5, <1>6 DEF Without

\* The tail is the list without its first.
LEMMA TailIs ==
  ASSUME NEW list \in Seq(Timer), list # <<>>
  PROVE  Cut(Tail(list), 1, list) /\ Without(Tail(list), 1, list)
<1>1. /\ Tail(list) \in Seq(Timer) /\ Len(Tail(list)) = Len(list) - 1 /\ Len(list) \in Nat
      /\ \A k \in 1..(Len(list) - 1) : Tail(list)[k] = list[k + 1]
  OBVIOUS
<1>2. \A k \in 2..Len(list) : k - 1 \in 1..(Len(list) - 1) /\ (k - 1) + 1 = k
  BY <1>1
<1>3. \A k \in 2..Len(list) : Tail(list)[k - 1] = list[k]
  BY <1>1, <1>2
<1> QED
  BY <1>1, <1>3 DEF Cut, Without

\* SubSeq(list, p + 1, Len(list)) cuts the first p off.
LEMMA CutIs ==
  ASSUME NEW list \in Seq(Timer), NEW p \in 0..Len(list)
  PROVE  Cut(SubSeq(list, p + 1, Len(list)), p, list)
BY DEF Cut

(***************************************************************************)
(* Where a timer of a list is found.                                       *)
(***************************************************************************)
Places(list, t) == {i \in 1..Len(list) : list[i] = t}

\* The place SelectInSeq finds is the only one.
LEMMA Found ==
  ASSUME NEW list \in Seq(Timer), Once(list), NEW k \in 1..Len(list), NEW t, list[k] = t
  PROVE  Places(list, t) # {} /\ Min(Places(list, t)) = k
<1>1. Places(list, t) = {k}
  BY DEF Once, Places
<1> QED
  BY <1>1 DEF Min

(***************************************************************************)
(* Who is in the lists so made.                                            *)
(***************************************************************************)
LEMMA InsertedHas ==
  ASSUME NEW list \in Seq(Timer), Once(list), NEW t \in Timer, ~In(t, list),
         NEW p \in 0..Len(list), NEW new, Inserted(new, p, t, list)
  PROVE  Once(new) /\ \A u : In(u, new) <=> In(u, list) \/ u = t
<1> DEFINE n == Len(list)
           From(k) == IF k <= p THEN k ELSE k - 1
<1>1. n \in Nat /\ Len(new) = n + 1 /\ new[p + 1] = t /\ p \in 0..n
  BY DEF Inserted
<1>2. ASSUME NEW k \in 1..(n + 1), k # p + 1
      PROVE  From(k) \in 1..n /\ new[k] = list[From(k)]
  <2>1. CASE k <= p
    BY <1>1, <2>1 DEF Inserted
  <2>2. CASE ~(k <= p)
    <3>1. k - 1 \in (p + 1)..n /\ (k - 1) + 1 = k
      BY <1>1, <1>2, <2>2
    <3> QED
      BY <1>1, <2>2, <3>1 DEF Inserted
  <2> QED
    BY <2>1, <2>2
<1>3. \A k \in 1..(n + 1) : k # p + 1 => new[k] # t
  BY <1>2 DEF In
<1>4. ASSUME NEW i \in 1..(n + 1), NEW j \in 1..(n + 1), new[i] = new[j] PROVE i = j
  <2>1. CASE i = p + 1 \/ j = p + 1
    BY <1>1, <1>3, <1>4, <2>1
  <2>2. CASE i # p + 1 /\ j # p + 1
    <3>1. From(i) = From(j)
      BY <1>2, <1>4, <2>2 DEF Once
    <3> QED
      BY <1>1, <2>2, <3>1
  <2> QED
    BY <2>1, <2>2
<1>5. \A u : In(u, new) => In(u, list) \/ u = t
  BY <1>1, <1>2 DEF In
<1>6. In(t, new)
  <2>1. p + 1 \in 1..Len(new)
    BY <1>1
  <2> QED
    BY <1>1, <2>1 DEF In
<1>7. ASSUME NEW u, In(u, list) PROVE In(u, new)
  <2>1. PICK k \in 1..n : list[k] = u
    BY <1>7 DEF In
  <2>2. CASE k <= p
    <3>1. k \in 1..p /\ k \in 1..Len(new)
      BY <1>1, <2>2
    <3> QED
      BY <2>1, <3>1 DEF In, Inserted
  <2>3. CASE ~(k <= p)
    <3>1. k \in (p + 1)..n /\ k + 1 \in 1..Len(new)
      BY <1>1, <2>3
    <3> QED
      BY <2>1, <3>1 DEF In, Inserted
  <2> QED
    BY <2>2, <2>3
<1> QED
  BY <1>1, <1>4, <1>5, <1>6, <1>7 DEF Once

\* What is left in a list without its number i.
LEMMA WithoutHas ==
  ASSUME NEW list \in Seq(Timer), Once(list), NEW i \in 1..Len(list),
         NEW new, Without(new, i, list)
  PROVE  Once(new) /\ \A u : In(u, new) <=> In(u, list) /\ u # list[i]
<1> DEFINE n == Len(list)
           From(k) == IF k < i THEN k ELSE k + 1
<1>1. n \in Nat /\ Len(new) = n - 1 /\ i \in 1..n
  BY DEF Without
<1>2. ASSUME NEW k \in 1..(n - 1)
      PROVE  From(k) \in 1..n /\ From(k) # i /\ new[k] = list[From(k)]
  <2>1. CASE k < i
    BY <1>1, <2>1 DEF Without
  <2>2. CASE ~(k < i)
    <3>1. k + 1 \in (i + 1)..n /\ (k + 1) - 1 = k
      BY <1>1, <2>2
    <3> QED
      BY <1>1, <2>2, <3>1 DEF Without
  <2> QED
    BY <2>1, <2>2
<1>3. ASSUME NEW k \in 1..(n - 1), NEW j \in 1..(n - 1), new[k] = new[j] PROVE k = j
  <2>1. From(k) = From(j)
    BY <1>2, <1>3 DEF Once
  <2> QED
    BY <1>1, <2>1
<1>4. \A u : In(u, new) => In(u, list) /\ u # list[i]
  BY <1>1, <1>2 DEF In, Once
<1>5. ASSUME NEW u, In(u, list), u # list[i] PROVE In(u, new)
  <2>1. PICK k \in 1..n : list[k] = u
    BY <1>5 DEF In
  <2>2. CASE k < i
    <3>1. k \in 1..(i - 1) /\ k \in 1..Len(new)
      BY <1>1, <2>2
    <3> QED
      BY <2>1, <3>1 DEF In, Without
  <2>3. CASE ~(k < i)
    <3>1. k \in (i + 1)..n /\ k - 1 \in 1..Len(new)
      BY <1>1, <1>5, <2>1, <2>3
    <3> QED
      BY <2>1, <3>1 DEF In, Without
  <2> QED
    BY <2>2, <2>3
<1> QED
  BY <1>1, <1>3, <1>4, <1>5 DEF Once

\* What is left in a list without its first p.
LEMMA CutHas ==
  ASSUME NEW list \in Seq(Timer), Once(list), NEW p \in 0..Len(list),
         NEW new, Cut(new, p, list)
  PROVE  /\ Once(new)
         /\ \A u : In(u, new) <=> \E k \in (p + 1)..Len(list) : list[k] = u
<1> DEFINE n == Len(list)
<1>1. n \in Nat /\ Len(new) = n - p /\ \A k \in 1..(n - p) : new[k] = list[p + k]
  BY DEF Cut
<1>2. ASSUME NEW k \in 1..(n - p), NEW j \in 1..(n - p), new[k] = new[j] PROVE k = j
  <2>1. p + k \in 1..n /\ p + j \in 1..n /\ list[p + k] = list[p + j]
    BY <1>1, <1>2
  <2>2. p + k = p + j
    BY <2>1 DEF Once
  <2> QED
    BY <2>2
<1>3. ASSUME NEW u, In(u, new) PROVE \E k \in (p + 1)..n : list[k] = u
  <2>1. PICK k \in 1..(n - p) : new[k] = u
    BY <1>1, <1>3 DEF In
  <2>2. p + k \in (p + 1)..n /\ list[p + k] = u
    BY <1>1, <2>1
  <2> QED
    BY <2>2
<1>4. ASSUME NEW u, NEW k \in (p + 1)..n, list[k] = u PROVE In(u, new)
  <2>1. k - p \in 1..(n - p) /\ p + (k - p) = k
    BY <1>1
  <2>2. k - p \in 1..Len(new) /\ new[k - p] = u
    BY <1>1, <1>4, <2>1
  <2> QED
    BY <2>2 DEF In
<1> QED
  BY <1>1, <1>2, <1>3, <1>4 DEF Once

-----------------------------------------------------------------------------
(***************************************************************************)
(* When the timers of the lists so made are due.                           *)
(***************************************************************************)
Steps(list, tm) == [k \in 1..Len(list) |-> tm[list[k]]]

\* When the timers are due, as a sum of steps.
LEMMA DuesSum ==
  ASSUME NEW list \in Seq(Timer), NEW tm \in [Timer -> Int]
  PROVE  /\ Len(list) \in Nat /\ \A k \in 1..Len(list) : list[k] \in Timer
         /\ Steps(list, tm) \in [1..Len(list) -> Int]
         /\ \A k \in 1..Len(list) : Steps(list, tm)[k] = tm[list[k]]
         /\ Sum(Dues(list, tm), Steps(list, tm), Len(list))
<1>1. Len(list) \in Nat /\ \A k \in 1..Len(list) : list[k] \in Timer
  OBVIOUS
<1>2. /\ Steps(list, tm) \in [1..Len(list) -> Int]
      /\ \A k \in 1..Len(list) : Steps(list, tm)[k] = tm[list[k]]
  BY <1>1 DEF Steps
<1> QED
  BY <1>1, <1>2, DuesAre, ZenonT(30) DEF Sum, Adds

Listed(list, tm, nm) ==
  /\ list \in Seq(Timer) /\ Once(list)
  /\ tm \in [Timer -> Int] /\ nm \in [Timer -> Int]

InFrontTimes(list, tm, new, nm, t) ==
  /\ Listed(list, tm, nm) /\ list # <<>> /\ ~In(t, list) /\ Inserted(new, 0, t, list)
  /\ \A u \in Timer : u # t /\ u # list[1] => nm[u] = tm[u]

InsertedTimes(list, tm, new, nm, t, p, c) ==
  /\ Listed(list, tm, nm) /\ ~In(t, list) /\ Inserted(new, p, t, list)
  /\ p \in 1..Len(list) /\ c \in Int
  /\ nm[t] = c - Dues(list, tm)[p]
  /\ p < Len(list) => nm[list[p + 1]] = tm[list[p + 1]] - nm[t]
  /\ \A u \in Timer : u # t /\ (p < Len(list) => u # list[p + 1]) => nm[u] = tm[u]

RemovedTimes(list, tm, new, nm, i) ==
  /\ Listed(list, tm, nm) /\ Without(new, i, list) /\ i \in 2..Len(list)
  /\ i < Len(list) => nm[list[i + 1]] = tm[list[i + 1]] + tm[list[i]]
  /\ \A u \in Timer : u # list[i] /\ (i < Len(list) => u # list[i + 1]) => nm[u] = tm[u]

CutTimes(list, tm, new, nm, p, x) ==
  /\ Listed(list, tm, nm) /\ Cut(new, p, list) /\ p \in 1..(Len(list) - 1) /\ x \in Int
  /\ nm[list[p + 1]] = Dues(list, tm)[p + 1] - x
  /\ \A k \in (p + 2)..Len(list) : nm[list[k]] = tm[list[k]]

ClearedTimes(list, tm, new, nm, m, x) ==
  /\ Listed(list, tm, nm) /\ Cut(new, 1, list) /\ m \in 0..(Len(list) - 1) /\ x \in Int
  /\ \A k \in 1..m : nm[list[k + 1]] = 0
  /\ m < Len(list) - 1 => nm[list[m + 2]] = Dues(list, tm)[m + 2] - x
  /\ \A k \in (m + 3)..Len(list) : nm[list[k]] = tm[list[k]]

\* When the timers are due once one is put in front.
LEMMA InFrontDues ==
  ASSUME NEW list, NEW tm, NEW new, NEW nm, NEW t, InFrontTimes(list, tm, new, nm, t)
  PROVE  /\ Dues(new, nm)[1] = nm[t]
         /\ \A k \in 1..Len(list) :
              Dues(new, nm)[k + 1] = nm[t] + nm[list[1]] + (Dues(list, tm)[k] - Dues(list, tm)[1])
<1> DEFINE n == Len(list)
           a == Steps(list, tm)
           b == Steps(new, nm)
           d == Dues(list, tm)
           e == Dues(new, nm)
<1>0. /\ list \in Seq(Timer) /\ Once(list) /\ tm \in [Timer -> Int] /\ nm \in [Timer -> Int]
      /\ list # <<>> /\ ~In(t, list) /\ Inserted(new, 0, t, list)
  BY DEF InFrontTimes, Listed
<1>1. n \in Nat \ {0} /\ new \in Seq(Timer) /\ Len(new) = n + 1
  BY <1>0 DEF Inserted
<1>2. Sum(d, a, n) /\ Sum(e, b, n + 1) /\ \A k \in 1..n : a[k] = tm[list[k]] /\ list[k] \in Timer
  BY <1>0, <1>1, DuesSum
<1>3. \A k \in 1..(n + 1) : b[k] = nm[new[k]]
  BY <1>0, <1>1, DuesSum
<1>4. new[1] = t /\ \A k \in 1..n : new[k + 1] = list[k]
  BY <1>0 DEF Inserted
<1> HIDE DEF a, b, d, e, n
<1>5. b[1] = nm[t] /\ b[2] = nm[list[1]]
  <2>1. 1 \in 1..(n + 1) /\ 2 \in 1..(n + 1) /\ 1 \in 1..n /\ 1 + 1 = 2
    BY <1>1
  <2> QED
    BY <1>3, <1>4, <2>1
<1>6. ASSUME NEW k \in 2..n PROVE b[k + 1] = a[k]
  <2>1. k \in 1..n /\ 1 \in 1..n /\ k # 1 /\ k + 1 \in 1..(n + 1)
    BY <1>1
  <2>2. list[k] # t /\ list[k] # list[1]
    BY <1>0, <2>1 DEF In, Once, n
  <2> QED
    BY <1>2, <1>3, <1>4, <2>1, <2>2 DEF InFrontTimes
<1>7. e[1] = b[1] /\ \A k \in 1..n : e[k + 1] = b[1] + b[2] + (d[k] - d[1])
  BY <1>1, <1>2, <1>6, SumsInFront
<1> QED
  BY <1>5, <1>7 DEF d, e, n

\* When they are due once one is put in behind p of them.
LEMMA InsertedDues ==
  ASSUME NEW list, NEW tm, NEW new, NEW nm, NEW t, NEW p, NEW c,
         InsertedTimes(list, tm, new, nm, t, p, c)
  PROVE  /\ \A k \in 1..p : Dues(new, nm)[k] = Dues(list, tm)[k]
         /\ Dues(new, nm)[p + 1] = c
         /\ \A k \in (p + 1)..Len(list) : Dues(new, nm)[k + 1] = Dues(list, tm)[k]
<1> DEFINE n == Len(list)
           a == Steps(list, tm)
           b == Steps(new, nm)
           d == Dues(list, tm)
           e == Dues(new, nm)
<1>0. /\ list \in Seq(Timer) /\ Once(list) /\ tm \in [Timer -> Int] /\ nm \in [Timer -> Int]
      /\ ~In(t, list) /\ Inserted(new, p, t, list) /\ p \in 1..Len(list) /\ c \in Int
  BY DEF InsertedTimes, Listed
<1>1. n \in Nat /\ new \in Seq(Timer) /\ Len(new) = n + 1 /\ p \in 1..n
  BY <1>0 DEF Inserted
<1>2. Sum(d, a, n) /\ Sum(e, b, n + 1) /\ \A k \in 1..n : a[k] = tm[list[k]] /\ list[k] \in Timer
  BY <1>0, <1>1, DuesSum
<1>3. \A k \in 1..(n + 1) : b[k] = nm[new[k]]
  BY <1>0, <1>1, DuesSum
<1>4. /\ \A k \in 1..p : new[k] = list[k]
      /\ new[p + 1] = t
      /\ \A k \in (p + 1)..n : new[k + 1] = list[k]
  BY <1>0 DEF Inserted
<1>5. nm[t] = c - d[p] /\ (p < n => nm[list[p + 1]] = tm[list[p + 1]] - nm[t])
  BY DEF InsertedTimes
<1>6. ASSUME NEW k \in 1..n, p < n => k # p + 1 PROVE nm[list[k]] = tm[list[k]]
  <2>1. list[k] # t
    BY <1>0 DEF In
  <2>2. p < n => list[k] # list[p + 1]
    <3>1. ASSUME p < n PROVE p + 1 \in 1..n
      BY <1>1, <3>1
    <3> QED
      BY <1>0, <1>6, <3>1 DEF Once
  <2> QED
    BY <1>2, <2>1, <2>2 DEF InsertedTimes
<1> HIDE DEF a, b, d, e, n
<1>7. ASSUME NEW k \in 1..p PROVE b[k] = a[k]
  <2>0. n \in Nat /\ p \in Nat /\ p <= n /\ k \in Nat /\ 1 <= k /\ k <= p
    BY <1>1
  <2>1. k \in 1..n /\ k \in 1..(n + 1) /\ k # p + 1
    BY <2>0
  <2>2. a[k] = tm[list[k]]
    BY <1>2, <2>1
  <2>3. b[k] = nm[new[k]]
    BY <1>3, <2>1
  <2>4. new[k] = list[k]
    BY <1>4
  <2>5. nm[list[k]] = tm[list[k]]
    BY <1>6, <2>1
  <2> QED
    BY <2>2, <2>3, <2>4, <2>5
<1>8. b[p + 1] = c - d[p]
  <2>1. p + 1 \in 1..(n + 1)
    BY <1>1
  <2> QED
    BY <1>3, <1>4, <1>5, <2>1
<1>9. ASSUME p < n PROVE b[p + 2] = a[p + 1] - (c - d[p])
  <2>1. p + 1 \in (p + 1)..n /\ (p + 1) + 1 = p + 2 /\ p + 2 \in 1..(n + 1) /\ p + 1 \in 1..n
    BY <1>1, <1>9
  <2>2. a[p + 1] = tm[list[p + 1]]
    BY <1>2, <2>1
  <2>3. b[p + 2] = nm[new[p + 2]]
    BY <1>3, <2>1
  <2>4. new[p + 2] = list[p + 1]
    BY <1>4, <2>1
  <2> QED
    BY <1>5, <1>9, <2>2, <2>3, <2>4
<1>10. ASSUME NEW k \in (p + 2)..n PROVE b[k + 1] = a[k]
  <2>1. k \in (p + 1)..n /\ k + 1 \in 1..(n + 1) /\ k \in 1..n /\ k # p + 1
    BY <1>1
  <2>2. a[k] = tm[list[k]]
    BY <1>2, <2>1
  <2>3. b[k + 1] = nm[new[k + 1]]
    BY <1>3, <2>1
  <2>4. new[k + 1] = list[k]
    BY <1>4, <2>1
  <2>5. nm[list[k]] = tm[list[k]]
    BY <1>6, <2>1
  <2> QED
    BY <2>2, <2>3, <2>4, <2>5
<1>11. StepsInserted(n, a, d, b, e, p, c)
  BY <1>0, <1>1, <1>2, <1>7, <1>8, <1>9, <1>10 DEF StepsInserted
<1>12. /\ \A k \in 1..p : e[k] = d[k]
       /\ e[p + 1] = c
       /\ \A k \in (p + 1)..n : e[k + 1] = d[k]
  BY <1>11, SumsInserted
<1> QED
  BY <1>12 DEF d, e, n

\* When they are due once one is taken out.
LEMMA RemovedDues ==
  ASSUME NEW list, NEW tm, NEW new, NEW nm, NEW i, RemovedTimes(list, tm, new, nm, i)
  PROVE  /\ \A k \in 1..(i - 1) : Dues(new, nm)[k] = Dues(list, tm)[k]
         /\ \A k \in (i + 1)..Len(list) : Dues(new, nm)[k - 1] = Dues(list, tm)[k]
<1> DEFINE n == Len(list)
           a == Steps(list, tm)
           b == Steps(new, nm)
           d == Dues(list, tm)
           e == Dues(new, nm)
<1>0. /\ list \in Seq(Timer) /\ Once(list) /\ tm \in [Timer -> Int] /\ nm \in [Timer -> Int]
      /\ Without(new, i, list) /\ i \in 2..Len(list)
  BY DEF RemovedTimes, Listed
<1>1. n \in Nat /\ new \in Seq(Timer) /\ Len(new) = n - 1 /\ i \in 2..n
  BY <1>0 DEF Without
<1>2. /\ Sum(d, a, n) /\ Sum(e, b, n - 1)
      /\ \A k \in 1..n : a[k] = tm[list[k]] /\ list[k] \in Timer /\ a[k] \in Int
  BY <1>0, <1>1, DuesSum
<1>3. \A k \in 1..(n - 1) : b[k] = nm[new[k]]
  BY <1>0, <1>1, DuesSum
<1>4. /\ \A k \in 1..(i - 1) : new[k] = list[k]
      /\ \A k \in (i + 1)..n : new[k - 1] = list[k]
  BY <1>0 DEF Without
<1>5. i < n => nm[list[i + 1]] = tm[list[i + 1]] + tm[list[i]]
  BY DEF RemovedTimes
<1>6. ASSUME NEW k \in 1..n, k # i, i < n => k # i + 1 PROVE nm[list[k]] = tm[list[k]]
  <2>1. list[k] # list[i]
    BY <1>0, <1>6 DEF Once
  <2>2. i < n => list[k] # list[i + 1]
    <3>1. ASSUME i < n PROVE i + 1 \in 1..n
      BY <1>1, <3>1
    <3> QED
      BY <1>0, <1>6, <3>1 DEF Once
  <2> QED
    BY <1>2, <2>1, <2>2 DEF RemovedTimes
<1> HIDE DEF a, b, d, e, n
<1>7. ASSUME NEW k \in 1..(i - 1) PROVE b[k] = a[k]
  <2>1. k \in 1..n /\ k \in 1..(n - 1) /\ k # i + 1 /\ k # i
    BY <1>1
  <2>2. a[k] = tm[list[k]]
    BY <1>2, <2>1
  <2>3. b[k] = nm[new[k]]
    BY <1>3, <2>1
  <2>4. new[k] = list[k]
    BY <1>4
  <2>5. nm[list[k]] = tm[list[k]]
    BY <1>6, <2>1
  <2> QED
    BY <2>2, <2>3, <2>4, <2>5
<1>8. ASSUME i < n PROVE b[i] = a[i] + a[i + 1]
  <2>1. i + 1 \in (i + 1)..n /\ (i + 1) - 1 = i /\ i \in 1..(n - 1) /\ i + 1 \in 1..n /\ i \in 1..n
    BY <1>1, <1>8
  <2>2. b[i] = nm[list[i + 1]]
    BY <1>3, <1>4, <2>1
  <2> QED
    BY <1>2, <1>5, <1>8, <2>1, <2>2
<1>9. ASSUME NEW k \in (i + 2)..n PROVE b[k - 1] = a[k]
  <2>1. k \in (i + 1)..n /\ k - 1 \in 1..(n - 1) /\ k \in 1..n /\ k # i + 1 /\ k # i
    BY <1>1
  <2>2. a[k] = tm[list[k]]
    BY <1>2, <2>1
  <2>3. b[k - 1] = nm[new[k - 1]]
    BY <1>3, <2>1
  <2>4. new[k - 1] = list[k]
    BY <1>4, <2>1
  <2>5. nm[list[k]] = tm[list[k]]
    BY <1>6, <2>1
  <2> QED
    BY <2>2, <2>3, <2>4, <2>5
<1>10. StepsRemoved(n, a, d, b, e, i)
  BY <1>1, <1>2, <1>7, <1>8, <1>9 DEF StepsRemoved
<1>11. /\ \A k \in 1..(i - 1) : e[k] = d[k]
       /\ \A k \in (i + 1)..n : e[k - 1] = d[k]
  <2>1. \A k \in 1..(i - 1) : e[k] = d[k]
    BY <1>10, SumsRemoved
  <2>2. \A k \in (i + 1)..n : e[k - 1] = d[k]
    BY <1>10, SumsRemoved
  <2> QED
    BY <2>1, <2>2
<1> QED
  BY <1>11 DEF d, e, n

\* When the rest is due once the first p are gone.
LEMMA CutDues ==
  ASSUME NEW list, NEW tm, NEW new, NEW nm, NEW p, NEW x, CutTimes(list, tm, new, nm, p, x)
  PROVE  \A k \in 1..(Len(list) - p) : Dues(new, nm)[k] = Dues(list, tm)[p + k] - x
<1> DEFINE n == Len(list)
           a == Steps(list, tm)
           b == Steps(new, nm)
           d == Dues(list, tm)
           e == Dues(new, nm)
<1>0. /\ list \in Seq(Timer) /\ Once(list) /\ tm \in [Timer -> Int] /\ nm \in [Timer -> Int]
      /\ Cut(new, p, list) /\ p \in 1..(Len(list) - 1) /\ x \in Int
  BY DEF CutTimes, Listed
<1>1. n \in Nat /\ new \in Seq(Timer) /\ Len(new) = n - p /\ p \in 1..(n - 1)
  BY <1>0 DEF Cut
<1>2. Sum(d, a, n) /\ Sum(e, b, n - p) /\ \A k \in 1..n : a[k] = tm[list[k]]
  BY <1>0, <1>1, DuesSum
<1>3. \A k \in 1..(n - p) : b[k] = nm[list[p + k]]
  <2>1. \A k \in 1..(n - p) : b[k] = nm[new[k]]
    BY <1>0, <1>1, DuesSum
  <2> QED
    BY <1>0, <2>1 DEF Cut
<1>4. nm[list[p + 1]] = d[p + 1] - x /\ \A k \in (p + 2)..n : nm[list[k]] = tm[list[k]]
  BY DEF CutTimes
<1> HIDE DEF a, b, d, e, n
<1>5. b[1] = d[p + 1] - x
  BY <1>1, <1>3, <1>4
<1>6. ASSUME NEW k \in 2..(n - p) PROVE b[k] = a[p + k]
  <2>1. k \in 1..(n - p) /\ p + k \in (p + 2)..n /\ p + k \in 1..n
    BY <1>1
  <2> QED
    BY <1>2, <1>3, <1>4, <2>1
<1>7. StepsCut(n, a, d, b, e, p, x)
  BY <1>0, <1>1, <1>2, <1>5, <1>6 DEF StepsCut
<1>8. \A k \in 1..(n - p) : e[k] = d[p + k] - x
  BY <1>7, SumsCut
<1> QED
  BY <1>8 DEF d, e, n

\* When the rest is due once an expired timer is stopped.
LEMMA ClearedDues ==
  ASSUME NEW list, NEW tm, NEW new, NEW nm, NEW m, NEW x, ClearedTimes(list, tm, new, nm, m, x)
  PROVE  /\ \A k \in 1..m : Dues(new, nm)[k] = 0
         /\ \A k \in (m + 2)..Len(list) : Dues(new, nm)[k - 1] = Dues(list, tm)[k] - x
<1> DEFINE n == Len(list)
           a == Steps(list, tm)
           b == Steps(new, nm)
           d == Dues(list, tm)
           e == Dues(new, nm)
<1>0. /\ list \in Seq(Timer) /\ Once(list) /\ tm \in [Timer -> Int] /\ nm \in [Timer -> Int]
      /\ Cut(new, 1, list) /\ m \in 0..(Len(list) - 1) /\ x \in Int
  BY DEF ClearedTimes, Listed
<1>1. n \in Nat \ {0} /\ new \in Seq(Timer) /\ Len(new) = n - 1 /\ m \in 0..(n - 1)
  BY <1>0 DEF Cut
<1>2. Sum(d, a, n) /\ Sum(e, b, n - 1) /\ \A k \in 1..n : a[k] = tm[list[k]]
  BY <1>0, <1>1, DuesSum
<1>3. \A k \in 1..(n - 1) : b[k] = nm[list[1 + k]]
  <2>1. \A k \in 1..(n - 1) : b[k] = nm[new[k]]
    BY <1>0, <1>1, DuesSum
  <2> QED
    BY <1>0, <2>1 DEF Cut
<1>4. /\ \A k \in 1..m : nm[list[k + 1]] = 0
      /\ m < n - 1 => nm[list[m + 2]] = d[m + 2] - x
      /\ \A k \in (m + 3)..n : nm[list[k]] = tm[list[k]]
  BY DEF ClearedTimes
<1> HIDE DEF a, b, d, e, n
<1>5. ASSUME NEW k \in 1..m PROVE b[k] = 0
  <2>1. k \in 1..(n - 1) /\ 1 + k = k + 1
    BY <1>1
  <2> QED
    BY <1>3, <1>4, <2>1
<1>6. ASSUME m < n - 1 PROVE b[m + 1] = d[m + 2] - x
  <2>1. m + 1 \in 1..(n - 1) /\ 1 + (m + 1) = m + 2
    BY <1>1, <1>6
  <2> QED
    BY <1>3, <1>4, <1>6, <2>1
<1>7. ASSUME NEW k \in (m + 3)..n PROVE b[k - 1] = a[k]
  <2>1. k - 1 \in 1..(n - 1) /\ 1 + (k - 1) = k /\ k \in 1..n
    BY <1>1
  <2> QED
    BY <1>2, <1>3, <1>4, <2>1
<1>8. StepsCleared(n, a, d, b, e, m, x)
  BY <1>0, <1>1, <1>2, <1>5, <1>6, <1>7 DEF StepsCleared
<1>9. /\ \A k \in 1..m : e[k] = 0
      /\ \A k \in (m + 2)..n : e[k - 1] = d[k] - x
  BY <1>8, SumsCleared
<1> QED
  BY <1>9 DEF d, e, n

-----------------------------------------------------------------------------
(***************************************************************************)
(* The invariant.  The lists hold the timers their states name.  While a   *)
(* timer is started, what the hardware has still to count and has counted  *)
(* is what the first of the list was started for, give or take the tick of *)
(* the load, and no timer is due later than MaxTicks from now.             *)
(***************************************************************************)
ListsOK ==
  /\ state \in [Timer -> State] /\ time \in [Timer -> Nat]
  /\ handler \in {"idle", "entered", "calling"} /\ last \in Timer \cup {None}
  /\ active \in Seq(Timer) /\ fired \in Seq(Timer)
  /\ Once(active) /\ Once(fired)
  /\ \A t \in Timer : state[t] = "ACTIVE" <=> In(t, active)
  /\ \A t \in Timer : state[t] = "FIRED" <=> In(t, fired)
  /\ \A t \in Timer : state[t] = "CALLBACK" => t = last
  /\ handler # "calling" => fired = <<>> /\ \A t \in Timer : state[t] # "CALLBACK"
  /\ handler = "calling" => last \in Timer

HardwareOK == en \in BOOLEAN /\ irq \in BOOLEAN /\ value \in Nat /\ elapsed \in Nat

Counts ==
  active # <<>> =>
    /\ time[Head(active)] <= value + elapsed + 1
    /\ value > 0 => value + elapsed <= time[Head(active)] + 1
    /\ value <= time[Head(active)] \/ value <= 1

Behind(k) == Dues(active, time)[k] - Dues(active, time)[1]

Bounded ==
  /\ value <= MaxTicks
  /\ \A t \in Timer : time[t] <= MaxTicks + 1
  /\ \A k \in 1..Len(active) :
       Behind(k) <= MaxTicks /\ (value <= 1 \/ value + Behind(k) <= MaxTicks)

TimerInv == ListsOK /\ HardwareOK /\ Counts /\ Bounded /\ Armed

-----------------------------------------------------------------------------
(***************************************************************************)
(* When the started timers are due.                                        *)
(***************************************************************************)
Due(k) == Dues(active, time)[k]

\* The empty list is the one of length 0.
LEMMA EmptyIs ==
  ASSUME NEW list \in Seq(Timer)
  PROVE  list = <<>> <=> Len(list) = 0
OBVIOUS

\* What is used of when the timers of a list are due.
LEMMA DuesFacts ==
  ASSUME NEW list \in Seq(Timer), list # <<>>, NEW tm \in [Timer -> Nat]
  PROVE  /\ Len(list) \in Nat \ {0} /\ Head(list) = list[1] /\ list[1] \in Timer
         /\ \A k \in 1..Len(list) : list[k] \in Timer /\ tm[list[k]] \in Nat
         /\ Dues(list, tm)[0] = 0 /\ Dues(list, tm)[1] = tm[list[1]]
         /\ \A k \in 0..Len(list) : Dues(list, tm)[k] \in Nat
         /\ \A k \in 1..Len(list) : /\ Dues(list, tm)[k] = Dues(list, tm)[k - 1] + tm[list[k]]
                                    /\ Dues(list, tm)[1] <= Dues(list, tm)[k]
                                    /\ Dues(list, tm)[k - 1] <= Dues(list, tm)[k]
<1> DEFINE n == Len(list)
           d == Dues(list, tm)
<1>1. tm \in [Timer -> Int]
  OBVIOUS
<1>2. /\ n \in Nat \ {0} /\ Head(list) = list[1] /\ list[1] \in Timer
      /\ \A k \in 1..n : list[k] \in Timer /\ tm[list[k]] \in Nat
  OBVIOUS
<1>3. d[0] = 0 /\ \A k \in 1..n : d[k] = d[k - 1] + tm[list[k]]
  BY <1>1, DuesAre
<1>4. /\ \A j \in 0..n : \A i \in 0..j : d[i] <= d[j]
      /\ \A k \in 0..n : d[k] \in Nat
  BY DuesGrow
<1> HIDE DEF n, d
<1>5. ASSUME NEW k \in 1..n PROVE d[1] <= d[k] /\ d[k - 1] <= d[k]
  <2>1. 1 \in 0..k /\ k - 1 \in 0..k /\ k \in 0..n
    BY <1>2
  <2> QED
    BY <1>4, <2>1
<1>6. d[1] = tm[list[1]]
  <2>1. 1 \in 1..n /\ 1 - 1 = 0 /\ tm[list[1]] \in Int
    BY <1>2
  <2> QED
    BY <1>3, <2>1
<1> QED
  BY <1>2, <1>3, <1>4, <1>5, <1>6 DEF n, d

\* The same of the active timers, now.
LEMMA ActiveFacts ==
  ASSUME ListsOK, active # <<>>
  PROVE  /\ Len(active) \in Nat \ {0} /\ Head(active) = active[1] /\ active[1] \in Timer
         /\ \A k \in 1..Len(active) : active[k] \in Timer /\ time[active[k]] \in Nat
         /\ Due(0) = 0 /\ Due(1) = time[active[1]]
         /\ \A k \in 0..Len(active) : Due(k) \in Nat
         /\ \A k \in 1..Len(active) :
              Due(k) = Due(k - 1) + time[active[k]] /\ Due(1) <= Due(k) /\ Due(k - 1) <= Due(k)
<1>1. active \in Seq(Timer) /\ time \in [Timer -> Nat]
  BY DEF ListsOK
<1> QED
  BY <1>1, DuesFacts DEF Due

\* And after a step.
LEMMA ActiveNext ==
  ASSUME ListsOK', active' # <<>>
  PROVE  /\ Len(active') \in Nat \ {0} /\ Head(active') = active'[1] /\ active'[1] \in Timer
         /\ \A k \in 1..Len(active') : active'[k] \in Timer /\ time'[active'[k]] \in Nat
         /\ Due(0)' = 0 /\ Due(1)' = time'[active'[1]]
         /\ \A k \in 0..Len(active') : Due(k)' \in Nat
         /\ \A k \in 1..Len(active') :
              /\ Due(k)' = Due(k - 1)' + time'[active'[k]]
              /\ Due(1)' <= Due(k)' /\ Due(k - 1)' <= Due(k)'
<1>1. active' \in Seq(Timer) /\ time' \in [Timer -> Nat]
  BY DEF ListsOK
<1> QED
  BY <1>1, DuesFacts DEF Due

(***************************************************************************)
(* Behind the first timer: how long after it the others are due, and what  *)
(* counting those due by some time says.                                   *)
(***************************************************************************)
LEMMA OthersFacts ==
  ASSUME ListsOK, active # <<>>
  PROVE  /\ Tail(active) \in Seq(Timer) /\ Len(Tail(active)) = Len(active) - 1
         /\ (Tail(active) = <<>> <=> Len(active) = 1)
         /\ DOMAIN Tail(active) = 1..(Len(active) - 1)
         /\ \A k \in 1..(Len(active) - 1) : Tail(active)[k] = active[k + 1]
         /\ \A k \in 0..(Len(active) - 1) : Offset(Tail(active), k) = Due(k + 1) - Due(1)
<1>1. active \in Seq(Timer) /\ time \in [Timer -> Nat] /\ time \in [Timer -> Int]
  BY DEF ListsOK
<1>2. Tail(active) = <<>> <=> Len(active) = 1
  <2>1. /\ Len(active) \in Nat \ {0} /\ Tail(active) \in Seq(Timer)
        /\ Len(Tail(active)) = Len(active) - 1
    BY <1>1
  <2>2. Tail(active) = <<>> <=> Len(Tail(active)) = 0
    BY <2>1, EmptyIs
  <2> QED
    BY <2>1, <2>2
<1> QED
  BY <1>1, <1>2, DuesOfTail, OffsetIs DEF Due

\* As the sums grow, the timers due within c are the first m of the others.
LEMMA OthersBy ==
  ASSUME ListsOK, active # <<>>, NEW c \in Int
  PROVE  LET m == Cardinality({i \in DOMAIN Tail(active) : Offset(Tail(active), i) <= c})
         IN  /\ m \in 0..(Len(active) - 1)
             /\ \A k \in 1..(Len(active) - 1) : Due(k + 1) - Due(1) <= c <=> k <= m
<1> DEFINE n == Len(active) - 1
           d == Dues(Tail(active), time)
<1>1. /\ Tail(active) \in Seq(Timer) /\ Len(Tail(active)) = n /\ DOMAIN Tail(active) = 1..n
      /\ time \in [Timer -> Nat] /\ time \in [Timer -> Int]
      /\ \A k \in 0..n : d[k] = Due(k + 1) - Due(1)
      /\ \A k : Offset(Tail(active), k) = d[k]
      /\ n \in Nat
  <2>1. time \in [Timer -> Nat] /\ time \in [Timer -> Int]
    BY DEF ListsOK
  <2>2. \A k : Offset(Tail(active), k) = d[k]
    BY OffsetIs
  <2>3. n \in Nat
    BY ActiveFacts
  <2> QED
    BY <2>1, <2>2, <2>3, OthersFacts
<1>2. d \in [0..n -> Int] /\ \A j \in 0..n : \A i \in 0..j : d[i] <= d[j]
  BY <1>1, DuesAre, DuesGrow
<1> HIDE DEF n, d
<1>3. {i \in DOMAIN Tail(active) : Offset(Tail(active), i) <= c} = {i \in 1..n : d[i] <= c}
  BY <1>1
<1>4. /\ Cardinality({i \in 1..n : d[i] <= c}) \in 0..n
      /\ \A i \in 1..n : d[i] <= c <=> i <= Cardinality({j \in 1..n : d[j] <= c})
  BY <1>1, <1>2, FirstOnes
<1>5. \A k \in 1..n : d[k] = Due(k + 1) - Due(1)
  BY <1>1
<1> QED
  BY <1>3, <1>4, <1>5 DEF n

\* Lapsed counts them.
LEMMA OthersLapsed ==
  ASSUME ListsOK, active # <<>>, NEW c \in Int
  PROVE  /\ Lapsed(Tail(active), c) \in 0..(Len(active) - 1)
         /\ \A k \in 1..(Len(active) - 1) :
              Due(k + 1) - Due(1) <= c <=> k <= Lapsed(Tail(active), c)
BY OthersBy DEF Lapsed

\* So does the count of those due before c.
LEMMA OthersBefore ==
  ASSUME ListsOK, active # <<>>, NEW c \in Int
  PROVE  LET m == Cardinality({i \in DOMAIN Tail(active) : Offset(Tail(active), i) < c})
         IN  /\ m \in 0..(Len(active) - 1)
             /\ \A k \in 1..(Len(active) - 1) : Due(k + 1) - Due(1) < c <=> k <= m
<1> DEFINE n == Len(active) - 1
<1>1. /\ DOMAIN Tail(active) = 1..n /\ n \in Nat
      /\ \A k \in 1..n : Offset(Tail(active), k) = Due(k + 1) - Due(1)
                         /\ Due(k + 1) - Due(1) \in Int
  <2>1. \A k \in 1..n : k \in 0..n /\ k + 1 \in 0..Len(active) /\ 1 \in 0..Len(active)
    BY ActiveFacts
  <2> QED
    BY <2>1, OthersFacts, ActiveFacts
<1> HIDE DEF n
<1>2. \A k \in 1..n : Offset(Tail(active), k) < c <=> Offset(Tail(active), k) <= c - 1
  BY <1>1
<1>3. {i \in DOMAIN Tail(active) : Offset(Tail(active), i) < c}
        = {i \in DOMAIN Tail(active) : Offset(Tail(active), i) <= c - 1}
  BY <1>1, <1>2
<1>4. ASSUME NEW k \in 1..n PROVE Due(k + 1) - Due(1) <= c - 1 <=> Due(k + 1) - Due(1) < c
  <2>1. Due(k + 1) - Due(1) \in Int
    BY <1>1
  <2> QED
    BY <2>1
<1>5. c - 1 \in Int
  OBVIOUS
<1> QED
  BY <1>3, <1>4, <1>5, OthersBy DEF n

-----------------------------------------------------------------------------
(***************************************************************************)
(* The lists after a start, a stop and a call.                             *)
(***************************************************************************)
LEMMA StartedLists ==
  ASSUME ListsOK, NEW t \in Timer, state[t] \in {"ALLOC", "CALLBACK"},
         state' = [state EXCEPT ![t] = "ACTIVE"], UNCHANGED <<fired, handler, last>>,
         NEW p \in 0..Len(active), Inserted(active', p, t, active), time' \in [Timer -> Nat]
  PROVE  ListsOK'
<1>1. ~In(t, active) /\ active \in Seq(Timer) /\ Once(active)
  BY DEF ListsOK
<1>2. Once(active') /\ active' \in Seq(Timer) /\ \A u : In(u, active') <=> In(u, active) \/ u = t
  <2>1. active' \in Seq(Timer)
    BY DEF Inserted
  <2> QED
    BY <1>1, <2>1, InsertedHas
<1>3. state' \in [Timer -> State] /\ \A u \in Timer : u # t => state'[u] = state[u]
  BY DEF ListsOK, State
<1>4. state'[t] = "ACTIVE"
  BY DEF ListsOK
<1>5. ASSUME NEW u \in Timer
      PROVE  /\ state'[u] = "ACTIVE" <=> In(u, active')
             /\ state'[u] = "FIRED" <=> In(u, fired')
             /\ state'[u] = "CALLBACK" => u = last'
  <2>1. CASE u = t
    BY <1>2, <1>4, <2>1 DEF ListsOK
  <2>2. CASE u # t
    BY <1>2, <1>3, <2>2 DEF ListsOK
  <2> QED
    BY <2>1, <2>2
<1> QED
  BY <1>2, <1>3, <1>5 DEF ListsOK

\* A timer that is stopped leaves the lists in order.
LEMMA StoppedLists ==
  ASSUME ListsOK, NEW t \in Timer, Stopped(t), UNCHANGED <<fired, handler, last>>,
         NEW i \in 1..Len(active), active[i] = t, Without(active', i, active),
         time' \in [Timer -> Nat]
  PROVE  ListsOK'
<1>1. active \in Seq(Timer) /\ Once(active) /\ In(t, active)
  BY DEF ListsOK, In
<1>2. /\ Once(active') /\ active' \in Seq(Timer)
      /\ \A u : In(u, active') <=> In(u, active) /\ u # t
  <2>1. active' \in Seq(Timer)
    BY DEF Without
  <2> QED
    BY <1>1, <2>1, WithoutHas
<1>3. state' \in [Timer -> State] /\ \A u \in Timer : u # t => state'[u] = state[u]
  BY DEF ListsOK, State, Stopped
<1>4. state'[t] = "ALLOC"
  BY DEF ListsOK, Stopped
<1>5. ASSUME NEW u \in Timer
      PROVE  /\ state'[u] = "ACTIVE" <=> In(u, active')
             /\ state'[u] = "FIRED" <=> In(u, fired')
             /\ state'[u] = "CALLBACK" => u = last'
  <2>1. CASE u = t
    BY <1>1, <1>2, <1>4, <2>1 DEF ListsOK
  <2>2. CASE u # t
    BY <1>2, <1>3, <2>2 DEF ListsOK
  <2> QED
    BY <2>1, <2>2
<1>6. /\ handler' # "calling" => fired' = <<>> /\ \A u \in Timer : state'[u] # "CALLBACK"
      /\ handler' = "calling" => last' \in Timer
  BY <1>3, <1>4 DEF ListsOK
<1> QED
  BY <1>2, <1>3, <1>5, <1>6 DEF ListsOK

(***************************************************************************)
(* Where the timers are when those of a list go to their callbacks.        *)
(***************************************************************************)
Sorted(from, list, on) ==
  /\ from \in [Timer -> State]
  /\ list \in Seq(Timer) /\ Once(list)
  /\ \A u \in Timer : from[u] = "ACTIVE" <=> In(u, on)
  /\ \A u \in Timer : from[u] = "FIRED" <=> In(u, list)
  /\ \A u \in Timer : from[u] # "CALLBACK"

\* So does the call of the first due timer, or the end of the handler.
LEMMA CalledLists ==
  ASSUME active' \in Seq(Timer), Once(active'), time' \in [Timer -> Nat],
         NEW list, NEW from, Sorted(from, list, active'), CallFirst(list, from)
  PROVE  ListsOK'
<1>1. CASE list = <<>>
  <2>1. /\ fired' = <<>> /\ handler' = "idle" /\ last' = None /\ state' = from
    BY <1>1 DEF CallFirst
  <2>2. fired' \in Seq(Timer) /\ Once(fired')
    BY <2>1 DEF Once
  <2>3. fired' = list
    BY <1>1, <2>1
  <2> QED
    BY <2>1, <2>2, <2>3 DEF ListsOK, Sorted
<1>2. CASE list # <<>>
  <2>1. /\ fired' = Tail(list) /\ handler' = "calling" /\ last' = Head(list)
        /\ state' = [from EXCEPT ![Head(list)] = "CALLBACK"]
    BY <1>2 DEF CallFirst
  <2>2. /\ list \in Seq(Timer) /\ Once(list) /\ Head(list) = list[1] /\ list[1] \in Timer
        /\ 1 \in 1..Len(list)
    BY <1>2 DEF Sorted
  <2>3. /\ Once(fired') /\ fired' \in Seq(Timer)
        /\ \A u : In(u, fired') <=> In(u, list) /\ u # last'
    <3>1. Without(fired', 1, list)
      BY <1>2, <2>1, <2>2, TailIs
    <3>2. fired' \in Seq(Timer)
      BY <3>1 DEF Without
    <3> QED
      BY <2>1, <2>2, <3>1, <3>2, WithoutHas
  <2>4. state' \in [Timer -> State] /\ \A u \in Timer : u # last' => state'[u] = from[u]
    BY <2>1, <2>2 DEF Sorted, State
  <2>5. state'[last'] = "CALLBACK" /\ last' \in Timer /\ In(last', list)
    BY <2>1, <2>2 DEF Sorted, In
  <2>6. ASSUME NEW u \in Timer
        PROVE  /\ state'[u] = "ACTIVE" <=> In(u, active')
               /\ state'[u] = "FIRED" <=> In(u, fired')
               /\ state'[u] = "CALLBACK" => u = last'
    <3>1. CASE u = last'
      BY <2>3, <2>5, <3>1 DEF Sorted
    <3>2. CASE u # last'
      BY <2>3, <2>4, <3>2 DEF Sorted
    <3> QED
      BY <3>1, <3>2
  <2> QED
    BY <2>1, <2>3, <2>4, <2>5, <2>6 DEF ListsOK
<1> QED
  BY <1>1, <1>2

(***************************************************************************)
(* The hardware is loaded for the first of the list.                       *)
(***************************************************************************)
LEMMA Reloaded ==
  ASSUME ListsOK', active' # <<>>, en' = TRUE, irq' \in BOOLEAN, elapsed' = 0,
         value' = Load(Due(1)'),
         \A k \in 1..Len(active') : Due(k)' <= MaxTicks + 1 /\ Due(k)' - Due(1)' <= MaxTicks,
         \A u \in Timer : ~In(u, active') => time'[u] <= MaxTicks + 1
  PROVE  HardwareOK' /\ Counts' /\ Bounded' /\ Armed'
<1> DEFINE n == Len(active')
<1>1. /\ n \in Nat \ {0} /\ Head(active') = active'[1]
      /\ Due(1)' = time'[active'[1]] /\ \A k \in 0..n : Due(k)' \in Nat
      /\ MaxTicks \in Nat \ {0}
  BY ActiveNext, HwTimerAssumption
<1>2. \A k \in 1..n : /\ Due(k)' = Due(k - 1)' + time'[active'[k]] /\ time'[active'[k]] \in Nat
                      /\ Due(1)' <= Due(k)'
  BY ActiveNext
<1>3. Due(1)' \in Nat /\ Due(1)' <= MaxTicks + 1
  <2>1. 1 \in 0..n /\ 1 \in 1..n
    BY <1>1
  <2> QED
    BY <1>1, <2>1
<1>4. /\ value' \in Nat /\ value' >= 1 /\ value' <= MaxTicks /\ value' <= Due(1)' + 1
      /\ Due(1)' <= value' + 1
      /\ value' <= 1 \/ value' = Due(1)' - 1
  BY <1>1, <1>3 DEF Load, HAL_TIMER_LOAD_DELTA
<1>5. HardwareOK' /\ Counts'
  BY <1>1, <1>3, <1>4, SMTT(20) DEF HardwareOK, Counts
<1>6. Armed'
  BY <1>4 DEF Armed
<1>7. ASSUME NEW u \in Timer PROVE time'[u] <= MaxTicks + 1
  <2>1. CASE ~In(u, active')
    BY <2>1
  <2>2. CASE In(u, active')
    <3>1. PICK k \in 1..n : active'[k] = u
      BY <2>2 DEF In
    <3>2. k \in 0..n /\ k - 1 \in 0..n
      BY <1>1
    <3>3. Due(k)' \in Nat /\ Due(k - 1)' \in Nat
      BY <1>1, <3>2
    <3> QED
      BY <1>1, <1>2, <3>1, <3>3
  <2> QED
    BY <2>1, <2>2
<1>8. ASSUME NEW k \in 1..n
      PROVE  Behind(k)' <= MaxTicks /\ (value' <= 1 \/ value' + Behind(k)' <= MaxTicks)
  <2>1. k \in 0..n
    BY <1>1
  <2>2. Due(k)' \in Nat /\ Due(k)' <= MaxTicks + 1 /\ Due(k)' - Due(1)' <= MaxTicks
    BY <1>1, <2>1
  <2>3. Behind(k)' = Due(k)' - Due(1)'
    BY DEF Behind, Due
  <2> QED
    BY <1>1, <1>3, <1>4, <2>2, <2>3
<1>9. Bounded'
  BY <1>4, <1>7, <1>8 DEF Bounded
<1> QED
  BY <1>5, <1>6, <1>9

(***************************************************************************)
(* The hardware goes on for the first of the list, which stays.            *)
(***************************************************************************)
LEMMA Kept ==
  ASSUME TimerInv, ListsOK', active # <<>>, active' # <<>>, UNCHANGED <<hwVars, handler>>,
         Due(1)' = Due(1), \A u \in Timer : time'[u] <= MaxTicks + 1,
         \A k \in 1..Len(active') :
           LET behind == Due(k)' - Due(1)
           IN  behind <= MaxTicks /\ (value <= 1 \/ value + behind <= MaxTicks)
  PROVE  TimerInv'
<1>1. value' = value /\ elapsed' = elapsed /\ en' = en /\ irq' = irq
  BY DEF hwVars
<1>2. HardwareOK' /\ Armed'
  BY <1>1 DEF TimerInv, HardwareOK, Armed
<1>3. time'[Head(active')] = time[Head(active)]
  BY ActiveFacts, ActiveNext DEF TimerInv
<1>4. Counts'
  BY <1>1, <1>3 DEF TimerInv, Counts
<1>5. \A k \in 1..Len(active') : Behind(k)' = Due(k)' - Due(1)
  BY DEF Behind, Due
<1>6. Bounded'
  BY <1>1, <1>5 DEF TimerInv, Bounded
<1> QED
  BY <1>2, <1>4, <1>6 DEF TimerInv

-----------------------------------------------------------------------------
(***************************************************************************)
(* The starts.                                                             *)
(***************************************************************************)
Starting(t, ticks) ==
  /\ t \in Timer /\ ticks \in 1..MaxTicks
  /\ state[t] \in {"ALLOC", "CALLBACK"}
  /\ state' = [state EXCEPT ![t] = "ACTIVE"]
  /\ UNCHANGED <<fired, handler, last>>

\* A timer started when none is active.
LEMMA FirstStarted ==
  ASSUME TimerInv, NEW t, NEW ticks, Starting(t, ticks), StartFirst(t, ticks)
  PROVE  TimerInv' /\ active' = <<t>> /\ Due(1)' = ticks /\ elapsed' = 0
<1>1. t \in Timer /\ ticks \in Nat /\ 1 <= ticks /\ ticks <= MaxTicks /\ MaxTicks \in Nat
  BY HwTimerAssumption DEF Starting
<1>2. /\ active = <<>> /\ active' = <<t>> /\ time' = [time EXCEPT ![t] = ticks]
      /\ en' = TRUE /\ value' = Load(ticks) /\ elapsed' = 0 /\ irq' = irq
  BY DEF StartFirst, TimerStart
<1>3. Inserted(active', 0, t, active) /\ 0 \in 0..Len(active)
  BY <1>1, <1>2 DEF Inserted
<1>4. time' \in [Timer -> Nat] /\ \A u \in Timer : u # t => time'[u] = time[u]
  BY <1>1, <1>2 DEF TimerInv, ListsOK
<1>5. ListsOK'
  BY <1>1, <1>3, <1>4, StartedLists DEF TimerInv, Starting
<1>6. active' # <<>> /\ Len(active') = 1 /\ active'[1] = t
  BY <1>2
<1>7. Due(1)' = ticks
  <2>1. Due(1)' = time'[active'[1]]
    BY <1>5, <1>6, ActiveNext
  <2>2. time'[t] = ticks
    BY <1>1, <1>2 DEF TimerInv, ListsOK
  <2> QED
    BY <1>6, <2>1, <2>2
<1>8. \A k \in 1..Len(active') : Due(k)' <= MaxTicks + 1 /\ Due(k)' - Due(1)' <= MaxTicks
  <2>1. \A k \in 1..Len(active') : k = 1
    BY <1>6
  <2> QED
    BY <1>1, <1>7, <2>1
<1>9. \A u \in Timer : ~In(u, active') => time'[u] <= MaxTicks + 1
  <2>1. In(t, active')
    BY <1>6 DEF In
  <2> QED
    BY <1>4, <2>1 DEF TimerInv, Bounded
<1>10. irq' \in BOOLEAN
  BY <1>2 DEF TimerInv, HardwareOK
<1>11. HardwareOK' /\ Counts' /\ Bounded' /\ Armed'
  BY <1>2, <1>5, <1>6, <1>7, <1>8, <1>9, <1>10, Reloaded
<1> QED
  BY <1>2, <1>5, <1>7, <1>11 DEF TimerInv

\* A timer started in front of the others: they are due as far behind the first as before.
LEMMA InFrontStarted ==
  ASSUME TimerInv, NEW t, NEW ticks, Starting(t, ticks), StartInFront(t, ticks)
  PROVE  /\ TimerInv' /\ Inserted(active', 0, t, active)
         /\ elapsed' = 0 /\ Due(1)' = ticks /\ active # <<>> /\ value > ticks
         /\ \A k \in 1..Len(active) : Due(k + 1)' = value + (Due(k) - Due(1))
<1>1. t \in Timer /\ ticks \in Nat /\ 1 <= ticks /\ ticks <= MaxTicks /\ MaxTicks \in Nat
  BY HwTimerAssumption DEF Starting
<1>2. /\ active # <<>> /\ value > ticks /\ active' = <<t>> \o active
      /\ time' = [time EXCEPT ![t] = ticks, ![Head(active)] = value - ticks]
      /\ en' = TRUE /\ value' = Load(ticks) /\ elapsed' = 0 /\ irq' = FALSE
  BY DEF StartInFront, TimerStopStart
<1>3. /\ Len(active) \in Nat \ {0} /\ Head(active) = active[1] /\ active[1] \in Timer
      /\ \A k \in 1..Len(active) : Due(k) \in Nat
  <2>1. \A k \in 1..Len(active) : k \in 0..Len(active)
    OBVIOUS
  <2> QED
    BY <1>2, <2>1, ActiveFacts DEF TimerInv
<1>4. active \in Seq(Timer) /\ Once(active) /\ ~In(t, active) /\ time \in [Timer -> Nat]
  BY <1>1 DEF TimerInv, ListsOK, Starting
<1>5. active[1] # t
  BY <1>3, <1>4 DEF In
<1>6. value \in Nat /\ value >= 2 /\ value <= MaxTicks
  BY <1>1, <1>2 DEF TimerInv, HardwareOK, Bounded
<1>7. /\ time'[t] = ticks /\ time'[active[1]] = value - ticks
      /\ \A u \in Timer : u # t /\ u # active[1] => time'[u] = time[u]
  BY <1>1, <1>2, <1>3, <1>4, <1>5
<1>8. time' \in [Timer -> Nat]
  BY <1>1, <1>2, <1>3, <1>4, <1>6
<1>9. Inserted(active', 0, t, active) /\ 0 \in 0..Len(active)
  BY <1>1, <1>2, <1>3, <1>4, InFrontIs
<1>10. ListsOK'
  BY <1>1, <1>8, <1>9, StartedLists DEF TimerInv, Starting
<1>11. /\ Due(1)' = ticks
       /\ \A k \in 1..Len(active) : Due(k + 1)' = value + (Due(k) - Due(1))
  <2>1. time \in [Timer -> Int] /\ time' \in [Timer -> Int]
    BY <1>4, <1>8
  <2>2. /\ Dues(active', time')[1] = time'[t]
        /\ \A k \in 1..Len(active) :
             Dues(active', time')[k + 1]
               = time'[t] + time'[active[1]] + (Dues(active, time)[k] - Dues(active, time)[1])
    <3>1. InFrontTimes(active, time, active', time', t)
      BY <1>2, <1>4, <1>7, <1>9, <2>1 DEF InFrontTimes, Listed
    <3> QED
      BY <3>1, InFrontDues
  <2>3. ASSUME NEW k \in 1..Len(active) PROVE Due(k + 1)' = value + (Due(k) - Due(1))
    <3>1. Due(k) \in Nat /\ Due(1) \in Nat
      BY <1>3
    <3>2. Due(k + 1)' = ticks + (value - ticks) + (Due(k) - Due(1))
      BY <1>7, <2>2 DEF Due
    <3> QED
      BY <1>1, <1>6, <3>1, <3>2
  <2> QED
    BY <1>7, <2>2, <2>3 DEF Due
<1>12. active' # <<>> /\ Len(active') = Len(active) + 1
  BY <1>3, <1>9 DEF Inserted
<1>13. ASSUME NEW k \in 1..Len(active')
       PROVE  Due(k)' <= MaxTicks + 1 /\ Due(k)' - Due(1)' <= MaxTicks
  <2>1. CASE k = 1
    BY <1>1, <1>11, <2>1
  <2>2. CASE k # 1
    <3>1. k - 1 \in 1..Len(active) /\ (k - 1) + 1 = k
      BY <1>3, <1>12, <2>2
    <3>2. Due(k)' = value + (Due(k - 1) - Due(1))
      BY <1>11, <3>1
    <3>3. Behind(k - 1) = Due(k - 1) - Due(1) /\ Due(k - 1) \in Nat /\ Due(1) \in Nat
      BY <1>3, <3>1 DEF Behind, Due
    <3>4. value + Behind(k - 1) <= MaxTicks
      BY <1>6, <3>1 DEF TimerInv, Bounded
    <3> QED
      BY <1>1, <1>6, <1>11, <3>2, <3>3, <3>4
  <2> QED
    BY <2>1, <2>2
<1>14. \A u \in Timer : ~In(u, active') => time'[u] <= MaxTicks + 1
  <2>1. time'[t] <= MaxTicks + 1 /\ time'[active[1]] <= MaxTicks + 1
    BY <1>1, <1>6, <1>7
  <2> QED
    BY <1>7, <2>1 DEF TimerInv, Bounded
<1>15. HardwareOK' /\ Counts' /\ Bounded' /\ Armed'
  BY <1>2, <1>10, <1>11, <1>12, <1>13, <1>14, Reloaded
<1> QED
  BY <1>2, <1>9, <1>10, <1>11, <1>15 DEF TimerInv

\* A timer started behind the first: the others are due when they were.
LEMMA BehindStarted ==
  ASSUME TimerInv, NEW t, NEW ticks, Starting(t, ticks), StartBehind(t, ticks)
  PROVE  /\ TimerInv' /\ active # <<>> /\ value <= ticks /\ UNCHANGED hwVars
         /\ \E p \in 1..Len(active) :
              /\ Inserted(active', p, t, active)
              /\ \A k \in 1..p : Due(k)' = Due(k)
              /\ Due(p + 1)' = Due(1) + ticks - value
              /\ \A k \in (p + 1)..Len(active) : Due(k + 1)' = Due(k)
<1> DEFINE n == Len(active)
           m == Cardinality({i \in DOMAIN Tail(active) : Offset(Tail(active), i) < ticks - value})
           c == Due(1) + ticks - value
           rest == ticks - value - Offset(Tail(active), m)
<1>1. t \in Timer /\ ticks \in Nat /\ 1 <= ticks /\ ticks <= MaxTicks /\ MaxTicks \in Nat
  BY HwTimerAssumption DEF Starting
<1>2. active # <<>> /\ value <= ticks /\ active' = InsertAt(active, m + 2, t) /\ UNCHANGED hwVars
  BY DEF StartBehind
<1>3. time' = [u \in Timer |->
                 IF u = t THEN rest
                 ELSE IF m < Len(Tail(active)) /\ u = Tail(active)[m + 1] THEN time[u] - rest
                 ELSE time[u]]
  BY DEF StartBehind
<1>4. value \in Nat /\ value <= MaxTicks
  BY DEF TimerInv, HardwareOK, Bounded
<1>5. /\ n \in Nat \ {0} /\ \A k \in 0..n : Due(k) \in Nat
      /\ \A k \in 1..n : /\ active[k] \in Timer /\ time[active[k]] \in Nat
                         /\ Due(k) = Due(k - 1) + time[active[k]]
  BY <1>2, ActiveFacts DEF TimerInv
<1>6. /\ m \in 0..(n - 1)
      /\ \A k \in 1..(n - 1) : Due(k + 1) - Due(1) < ticks - value <=> k <= m
  <2>1. ticks - value \in Int /\ ListsOK
    BY <1>1, <1>4 DEF TimerInv
  <2> QED
    BY <1>2, <2>1, OthersBefore
<1>7. Len(Tail(active)) = n - 1 /\ (m < n - 1 => Tail(active)[m + 1] = active[m + 2])
  <2>1. /\ Len(Tail(active)) = Len(active) - 1
        /\ \A k \in 1..(Len(active) - 1) : Tail(active)[k] = active[k + 1]
    BY <1>2, OthersFacts DEF TimerInv
  <2>2. ASSUME m < n - 1 PROVE m + 1 \in 1..(n - 1) /\ (m + 1) + 1 = m + 2
    BY <1>5, <1>6, <2>2
  <2> QED
    BY <2>1, <2>2
<1>8. Offset(Tail(active), m) = Due(m + 1) - Due(1)
  <2>1. \A k \in 0..(Len(active) - 1) : Offset(Tail(active), k) = Due(k + 1) - Due(1)
    BY <1>2, OthersFacts DEF TimerInv
  <2> QED
    BY <1>6, <2>1
<1>9. active \in Seq(Timer) /\ Once(active) /\ ~In(t, active) /\ time \in [Timer -> Nat]
  BY <1>1 DEF TimerInv, ListsOK, Starting
<1> HIDE DEF m
<1>p. PICK p \in 1..n : p = m + 1
  BY <1>5, <1>6
<1>10. /\ p \in 1..n /\ p - 1 = m /\ Due(p) \in Nat /\ Due(1) \in Nat /\ c \in Int
       /\ rest = c - Due(p) /\ rest >= 0 /\ rest <= ticks
  <2>1. p \in 1..n /\ p \in 0..n /\ 1 \in 0..n /\ p - 1 = m
    BY <1>5, <1>6, <1>p
  <2>2. Due(p) \in Nat /\ Due(1) \in Nat /\ Due(1) <= Due(p)
    BY <1>2, <1>5, <2>1, ActiveFacts DEF TimerInv
  <2>3. Due(p) - Due(1) <= ticks - value
    <3>1. CASE m = 0
      BY <1>1, <1>2, <1>4, <1>p, <2>2, <3>1
    <3>2. CASE m # 0
      <4>1. m \in 1..(n - 1)
        BY <1>5, <1>6, <3>2
      <4> QED
        BY <1>1, <1>4, <1>6, <1>p, <2>2, <4>1
    <3> QED
      BY <3>1, <3>2
  <2> QED
    BY <1>1, <1>4, <1>8, <1>p, <2>1, <2>2, <2>3 DEF c
<1> HIDE DEF rest, c
<1>11. ASSUME p < n
       PROVE  /\ p + 1 \in 1..n /\ active[p + 1] \in Timer /\ Tail(active)[m + 1] = active[p + 1]
              /\ m < Len(Tail(active)) /\ time[active[p + 1]] \in Nat
              /\ time[active[p + 1]] >= rest /\ active[p + 1] # t
  <2>1. p + 1 \in 1..n /\ p + 1 \in 0..n /\ p \in 1..(n - 1) /\ (p + 1) - 1 = p /\ m < n - 1
        /\ p + 1 = m + 2
    BY <1>5, <1>10, <1>11
  <2>2. /\ Due(p + 1) = Due(p) + time[active[p + 1]]
        /\ Due(p + 1) \in Nat /\ time[active[p + 1]] \in Nat
        /\ active[p + 1] \in Timer
    BY <1>5, <2>1
  <2>3. ~(p <= m)
    BY <1>6, <1>10
  <2>4. ~(Due(p + 1) - Due(1) < ticks - value)
    BY <1>6, <2>1, <2>3
  <2>5. time[active[p + 1]] >= rest
    BY <1>1, <1>4, <1>10, <2>2, <2>4, SMTT(20) DEF c
  <2>6. active[p + 1] # t
    BY <1>9, <2>1 DEF In
  <2> QED
    BY <1>7, <2>1, <2>2, <2>5, <2>6
<1>12. /\ time'[t] = rest
       /\ p < n => time'[active[p + 1]] = time[active[p + 1]] - rest
       /\ \A u \in Timer : u # t /\ (p < n => u # active[p + 1]) => time'[u] = time[u]
  <2>1. m < Len(Tail(active)) <=> p < n
    BY <1>5, <1>6, <1>7, <1>10
  <2> QED
    BY <1>1, <1>3, <1>11, <2>1
<1>13. time' \in [Timer -> Nat] /\ \A u \in Timer : time'[u] <= MaxTicks + 1
  <2>1. ASSUME NEW u \in Timer PROVE time'[u] \in Nat /\ time'[u] <= MaxTicks + 1
    <3>1. time[u] \in Nat /\ time[u] <= MaxTicks + 1
      BY <1>9 DEF TimerInv, Bounded
    <3>2. CASE u = t
      BY <1>1, <1>10, <1>12, <3>2
    <3>3. CASE u # t /\ p < n /\ u = active[p + 1]
      <4>1. time'[u] = time[u] - rest /\ time[u] >= rest
        BY <1>11, <1>12, <3>3
      <4> QED
        BY <1>1, <1>10, <3>1, <4>1
    <3>4. CASE u # t /\ (p < n => u # active[p + 1])
      BY <1>12, <3>1, <3>4
    <3> QED
      BY <3>2, <3>3, <3>4
  <2>2. DOMAIN time' = Timer /\ time' = [u \in Timer |-> time'[u]]
    BY <1>3
  <2> QED
    BY <2>1, <2>2
<1>14. Inserted(active', p, t, active)
  <2>1. p \in 0..Len(active) /\ p + 1 = m + 2
    BY <1>5, <1>10
  <2> QED
    BY <1>1, <1>2, <1>9, <2>1, InsertAtIs
<1>15. ListsOK'
  <2>1. p \in 0..Len(active)
    BY <1>10
  <2> QED
    BY <1>1, <1>13, <1>14, <2>1, StartedLists DEF TimerInv, Starting
<1>16. /\ \A k \in 1..p : Due(k)' = Due(k)
       /\ Due(p + 1)' = c
       /\ \A k \in (p + 1)..n : Due(k + 1)' = Due(k)
  <2>1. time \in [Timer -> Int] /\ time' \in [Timer -> Int]
    BY <1>9, <1>13
  <2>2. time'[t] = c - Dues(active, time)[p]
    BY <1>10, <1>12 DEF Due
  <2>3. InsertedTimes(active, time, active', time', t, p, c)
    BY <1>9, <1>10, <1>12, <1>14, <2>1, <2>2 DEF InsertedTimes, Listed
  <2>4. /\ \A k \in 1..p : Dues(active', time')[k] = Dues(active, time)[k]
        /\ Dues(active', time')[p + 1] = c
        /\ \A k \in (p + 1)..Len(active) : Dues(active', time')[k + 1] = Dues(active, time)[k]
    BY <2>3, InsertedDues
  <2> QED
    BY <2>4 DEF Due
<1>17. active' # <<>> /\ Len(active') = n + 1
  BY <1>5, <1>14 DEF Inserted
<1>18. ASSUME NEW k \in 1..Len(active')
       PROVE  LET behind == Due(k)' - Due(1)
              IN  behind <= MaxTicks /\ (value <= 1 \/ value + behind <= MaxTicks)
  <2>1. \A j \in 1..n : Due(j) - Due(1) <= MaxTicks
                        /\ (value <= 1 \/ value + (Due(j) - Due(1)) <= MaxTicks)
    BY DEF TimerInv, Bounded, Behind, Due
  <2>2. CASE k <= p
    <3>1. k \in 1..p /\ k \in 1..n
      BY <1>5, <1>10, <2>2
    <3> QED
      BY <1>16, <2>1, <3>1
  <2>3. CASE k = p + 1
    <3>1. Due(k)' - Due(1) = ticks - value
      <4>1. Due(k)' = c
        BY <1>16, <2>3
      <4> QED
        BY <1>1, <1>4, <1>10, <4>1 DEF c
    <3> QED
      BY <1>1, <1>4, <3>1
  <2>4. CASE k > p + 1
    <3>1. k - 1 \in (p + 1)..n /\ k - 1 \in 1..n /\ (k - 1) + 1 = k
      BY <1>5, <1>10, <1>17, <2>4
    <3>2. Due(k)' = Due(k - 1)
      BY <1>16, <3>1
    <3> QED
      BY <2>1, <3>1, <3>2
  <2> QED
    BY <1>10, <1>17, <2>2, <2>3, <2>4
<1>19. Due(1)' = Due(1)
  <2>1. 1 \in 1..p
    BY <1>10
  <2> QED
    BY <1>16, <2>1
<1>20. TimerInv'
  <2>1. UNCHANGED <<hwVars, handler>>
    BY <1>2 DEF Starting
  <2> QED
    BY <1>2, <1>13, <1>15, <1>17, <1>18, <1>19, <2>1, Kept
<1> QED
  <2>1. Due(p + 1)' = Due(1) + ticks - value
    BY <1>16 DEF c
  <2> QED
    BY <1>2, <1>10, <1>14, <1>16, <1>20, <2>1

-----------------------------------------------------------------------------
(***************************************************************************)
(* The stops.                                                              *)
(***************************************************************************)
LEMMA SwitchedOff ==
  ASSUME TimerInv, ListsOK', active' = <<>>, TimerStop, \A u \in Timer : time'[u] <= MaxTicks + 1
  PROVE  TimerInv'
<1>1. en' = FALSE /\ irq' = FALSE /\ elapsed' = 0 /\ value' = value
  BY DEF TimerStop
<1>2. Len(active') = 0
  OBVIOUS
<1>3. HardwareOK' /\ Counts' /\ Armed'
  BY <1>1 DEF TimerInv, HardwareOK, Counts, Armed
<1>4. \A k \in 1..Len(active') : FALSE
  BY <1>2
<1>5. Bounded'
  BY <1>1, <1>4 DEF TimerInv, Bounded
<1> QED
  BY <1>3, <1>5 DEF TimerInv

\* The first timer is stopped before it expired: the others keep their time.
LEMMA FirstStopped ==
  ASSUME TimerInv, NEW t \in Timer, StopFirst(t), Stopped(t), UNCHANGED <<handler, last>>
  PROVE  /\ TimerInv' /\ active # <<>> /\ value > 0
         /\ t = active[1] /\ Cut(active', 1, active)
         /\ active' # <<>> =>
              /\ elapsed' = 0
              /\ \A k \in 1..(Len(active) - 1) : Due(k)' = Due(k + 1) - (Due(1) - value)
<1> DEFINE n == Len(active)
<1>1. /\ active # <<>> /\ t = Head(active) /\ value > 0 /\ active' = Tail(active)
      /\ UNCHANGED <<fired, handler, last>>
  BY DEF StopFirst
<1>2. active' = <<>> => time' = [time EXCEPT ![t] = 0] /\ TimerStop
  BY DEF StopFirst
<1>3. active' # <<>> =>
        /\ time' = [time EXCEPT ![t] = 0, ![Head(active')] = @ + value]
        /\ TimerStopStart(time'[Head(active')])
  BY DEF StopFirst
<1>4. /\ n \in Nat \ {0} /\ t = active[1] /\ \A k \in 0..n : Due(k) \in Nat
      /\ \A k \in 1..n : /\ active[k] \in Timer /\ time[active[k]] \in Nat
                         /\ Due(k) = Due(k - 1) + time[active[k]] /\ Due(1) <= Due(k)
  BY <1>1, ActiveFacts DEF TimerInv
<1>5. /\ active \in Seq(Timer) /\ Once(active) /\ time \in [Timer -> Nat]
      /\ value \in Nat /\ value <= MaxTicks /\ MaxTicks \in Nat \ {0}
      /\ \A u \in Timer : time[u] <= MaxTicks + 1
  BY HwTimerAssumption DEF TimerInv, ListsOK, HardwareOK, Bounded
<1>6. Cut(active', 1, active) /\ Without(active', 1, active)
  BY <1>1, <1>5, TailIs
<1>7. ASSUME time' \in [Timer -> Nat] PROVE ListsOK'
  <2>1. 1 \in 1..Len(active) /\ active[1] = t
    BY <1>4
  <2> QED
    BY <1>1, <1>6, <1>7, <2>1, StoppedLists DEF TimerInv
<1>8. CASE active' = <<>>
  <2>1. time' \in [Timer -> Nat] /\ \A u \in Timer : time'[u] <= MaxTicks + 1
    BY <1>2, <1>5, <1>8
  <2> QED
    BY <1>1, <1>2, <1>4, <1>6, <1>7, <1>8, <2>1, SwitchedOff
<1>9. CASE active' # <<>>
  <2>1. Len(active') = n - 1 /\ n \in Nat /\ 2 <= n
    <3>1. Len(active') = n - 1 /\ active' \in Seq(Timer)
      BY <1>6 DEF Cut
    <3> QED
      BY <1>4, <1>9, <3>1, EmptyIs
  <2>2. Head(active') = active[2] /\ active[2] \in Timer /\ active[2] # t
    <3>1. active' \in Seq(Timer) /\ active'[1] = active[2]
      BY <1>6, <2>1 DEF Cut
    <3>2. Head(active') = active'[1]
      BY <1>9, <3>1
    <3>3. 2 \in 1..n /\ 1 \in 1..n
      BY <2>1
    <3> QED
      BY <1>4, <1>5, <3>1, <3>2, <3>3 DEF Once
  <2>3. /\ time'[t] = 0 /\ time'[active[2]] = time[active[2]] + value
        /\ \A u \in Timer : u # t /\ u # active[2] => time'[u] = time[u]
    BY <1>3, <1>5, <1>9, <2>2
  <2>4. time' \in [Timer -> Nat]
    BY <1>3, <1>5, <1>9, <2>2, SMTT(20)
  <2>5. ListsOK'
    BY <1>7, <2>4
  <2>6. \A k \in 1..(n - 1) : Due(k)' = Due(k + 1) - (Due(1) - value)
    <3> DEFINE x == Due(1) - value
    <3>1. 1 \in 0..n /\ 2 \in 1..n /\ 2 - 1 = 1 /\ 1 + 1 = 2
      BY <2>1
    <3>2. Due(1) \in Nat /\ Due(2) = Due(1) + time[active[2]] /\ time[active[2]] \in Nat
      BY <1>4, <3>1
    <3>3. x \in Int /\ time'[active[1 + 1]] = Due(2) - x
      BY <1>5, <2>3, <3>1, <3>2
    <3> HIDE DEF x
    <3>4. ASSUME NEW k \in (1 + 2)..n PROVE time'[active[k]] = time[active[k]]
      <4>1. k \in 1..n /\ k # 1 /\ k # 2 /\ 1 \in 1..n /\ 2 \in 1..n
        BY <2>1
      <4>2. active[k] # t /\ active[k] # active[2]
        BY <1>4, <1>5, <4>1 DEF Once
      <4> QED
        BY <1>4, <2>3, <4>1, <4>2
    <3>5. CutTimes(active, time, active', time', 1, x)
      <4>1. 1 \in 1..(n - 1) /\ time \in [Timer -> Int] /\ time' \in [Timer -> Int]
        BY <1>5, <2>1, <2>4
      <4>2. time'[active[1 + 1]] = Dues(active, time)[1 + 1] - x
        BY <3>1, <3>3 DEF Due
      <4> QED
        BY <1>5, <1>6, <3>3, <3>4, <4>1, <4>2 DEF CutTimes, Listed
    <3>6. \A k \in 1..(n - 1) : Dues(active', time')[k] = Dues(active, time)[1 + k] - x
      BY <3>5, CutDues
    <3>7. \A k \in 1..(n - 1) : 1 + k = k + 1
      OBVIOUS
    <3> QED
      BY <3>6, <3>7 DEF Due, x
  <2>7. /\ en' = TRUE /\ irq' = FALSE /\ elapsed' = 0 /\ value' = Load(time'[Head(active')])
    BY <1>3, <1>9 DEF TimerStopStart
  <2>8. Due(1)' = time'[Head(active')]
    BY <1>9, <2>5, ActiveNext
  <2>9. ASSUME NEW k \in 1..Len(active')
        PROVE  Due(k)' <= MaxTicks + 1 /\ Due(k)' - Due(1)' <= MaxTicks
    <3>1. k \in 1..(n - 1) /\ 1 \in 1..(n - 1) /\ k + 1 \in 1..n /\ 1 \in 0..n /\ 1 + 1 \in 0..n
          /\ k + 1 \in 0..n /\ 1 + 1 \in 1..n
      BY <2>1
    <3>2. Due(k)' = Due(k + 1) - (Due(1) - value) /\ Due(1)' = Due(1 + 1) - (Due(1) - value)
      BY <2>6, <3>1
    <3>3. Due(1) \in Nat /\ Due(1 + 1) \in Nat /\ Due(k + 1) \in Nat /\ Due(1) <= Due(1 + 1)
      BY <1>4, <3>1
    <3>4. Due(k + 1) - Due(1) <= MaxTicks
          /\ (value <= 1 \/ value + (Due(k + 1) - Due(1)) <= MaxTicks)
      BY <3>1 DEF TimerInv, Bounded, Behind, Due
    <3>5. value \in Nat /\ MaxTicks \in Nat
      BY <1>5
    <3> QED
      BY <3>2, <3>3, <3>4, <3>5, SMTT(20)
  <2>10. \A u \in Timer : ~In(u, active') => time'[u] <= MaxTicks + 1
    <3>1. In(active[2], active')
      <4>1. 1 \in 1..Len(active') /\ active'[1] = active[2]
        BY <1>6, <2>1 DEF Cut
      <4> QED
        BY <4>1 DEF In
    <3> QED
      BY <1>5, <2>3, <3>1
  <2>11. HardwareOK' /\ Counts' /\ Bounded' /\ Armed'
    BY <1>9, <2>5, <2>7, <2>8, <2>9, <2>10, Reloaded
  <2> QED
    BY <1>1, <1>4, <1>6, <2>5, <2>6, <2>7, <2>11 DEF TimerInv
<1> QED
  BY <1>8, <1>9

\* A timer behind the first is stopped: the others are due when they were.
LEMMA BehindStopped ==
  ASSUME TimerInv, NEW t \in Timer, StopBehind(t), Stopped(t), UNCHANGED <<handler, last>>
  PROVE  /\ TimerInv' /\ active # <<>> /\ UNCHANGED hwVars
         /\ \E i \in 2..Len(active) :
              /\ active[i] = t /\ Without(active', i, active)
              /\ \A k \in 1..(i - 1) : Due(k)' = Due(k)
              /\ \A k \in (i + 1)..Len(active) : Due(k - 1)' = Due(k)
<1> DEFINE n == Len(active)
<1>1. /\ active # <<>> /\ t # Head(active) /\ Contains(active, t)
      /\ UNCHANGED <<fired, hwVars, handler, last>>
  BY DEF StopBehind
<1>2. /\ n \in Nat \ {0} /\ Head(active) = active[1] /\ \A k \in 0..n : Due(k) \in Nat
      /\ \A k \in 1..n : /\ active[k] \in Timer /\ time[active[k]] \in Nat
                         /\ Due(k) = Due(k - 1) + time[active[k]] /\ Due(1) <= Due(k)
  BY <1>1, ActiveFacts DEF TimerInv
<1>3. /\ active \in Seq(Timer) /\ Once(active) /\ time \in [Timer -> Nat]
      /\ MaxTicks \in Nat \ {0} /\ \A u \in Timer : time[u] <= MaxTicks + 1
  BY HwTimerAssumption DEF TimerInv, ListsOK, Bounded
<1>4. PICK i \in 2..n : active[i] = t
  <2>1. PICK i \in 1..n : active[i] = t
    BY <1>1 DEF Contains
  <2>2. i # 1
    BY <1>1, <1>2, <2>1
  <2> QED
    BY <1>2, <2>1, <2>2
<1>5. i \in 1..n /\ Places(active, t) # {} /\ Min(Places(active, t)) = i
  <2>1. i \in 1..n
    BY <1>2
  <2> QED
    BY <1>3, <1>4, <2>1, Found
<1>6. /\ active' = RemoveAt(active, i)
      /\ time' = [u \in Timer |->
                    IF u = t THEN 0
                    ELSE IF i < n /\ u = active[i + 1] THEN time[u] + time[t]
                    ELSE time[u]]
  BY <1>5 DEF StopBehind, SelectInSeq, Places
<1>7. Without(active', i, active)
  BY <1>3, <1>5, <1>6, RemoveAtIs
<1>8. ASSUME i < n PROVE i + 1 \in 1..n /\ active[i + 1] \in Timer /\ active[i + 1] # t
  <2>1. i + 1 \in 1..n
    BY <1>2, <1>8
  <2> QED
    BY <1>2, <1>3, <1>4, <1>5, <2>1, SMTT(20) DEF Once
<1>9. /\ time'[t] = 0 /\ (i < n => time'[active[i + 1]] = time[active[i + 1]] + time[t])
      /\ \A u \in Timer : u # t /\ (i < n => u # active[i + 1]) => time'[u] = time[u]
  BY <1>6, <1>8
<1>10. time' \in [Timer -> Nat]
  BY <1>3, <1>6
<1>11. ListsOK'
  BY <1>1, <1>4, <1>5, <1>7, <1>10, StoppedLists DEF TimerInv
<1>12. /\ \A k \in 1..(i - 1) : Due(k)' = Due(k)
       /\ \A k \in (i + 1)..n : Due(k - 1)' = Due(k)
  <2>1. time \in [Timer -> Int] /\ time' \in [Timer -> Int]
    BY <1>3, <1>10
  <2>2. RemovedTimes(active, time, active', time', i)
    BY <1>3, <1>4, <1>7, <1>9, <2>1 DEF RemovedTimes, Listed
  <2>3. /\ \A k \in 1..(i - 1) : Dues(active', time')[k] = Dues(active, time)[k]
        /\ \A k \in (i + 1)..Len(active) : Dues(active', time')[k - 1] = Dues(active, time)[k]
    BY <2>2, RemovedDues
  <2> QED
    BY <2>3 DEF Due
<1>13. Len(active') = n - 1 /\ active' # <<>> /\ active' \in Seq(Timer)
  <2>1. Len(active') = n - 1 /\ active' \in Seq(Timer) /\ n - 1 # 0
    BY <1>2, <1>7, SMTT(20) DEF Without
  <2> QED
    BY <2>1, EmptyIs
<1>14. \A k \in 1..n : Due(k) - Due(1) <= MaxTicks
                       /\ (value <= 1 \/ value + (Due(k) - Due(1)) <= MaxTicks)
  BY DEF TimerInv, Bounded, Behind, Due
<1>15. \A u \in Timer : time'[u] <= MaxTicks + 1
  <2>1. ASSUME i < n PROVE time[active[i + 1]] + time[t] <= MaxTicks + 1
    <3>1. i + 1 \in 1..n /\ i \in 1..n /\ i - 1 \in 1..n /\ (i + 1) - 1 = i /\ i - 1 \in 0..n
          /\ i + 1 \in 0..n /\ 1 \in 0..n
      BY <1>2, <2>1
    <3>2. /\ Due(i + 1) = Due(i) + time[active[i + 1]] /\ Due(i) = Due(i - 1) + time[t]
          /\ time[t] \in Nat /\ time[active[i + 1]] \in Nat
          /\ Due(1) \in Nat /\ Due(i - 1) \in Nat /\ Due(1) <= Due(i - 1)
          /\ Due(i + 1) - Due(1) <= MaxTicks
      BY <1>2, <1>4, <1>14, <3>1
    <3>3. MaxTicks \in Nat
      BY <1>3
    <3> QED
      BY <3>2, <3>3, SMTT(20)
  <2> QED
    BY <1>3, <1>9, <2>1
<1>16. Due(1)' = Due(1)
  <2>1. 1 \in 1..(i - 1)
    BY <1>2
  <2> QED
    BY <1>12, <2>1
<1>17. ASSUME NEW k \in 1..Len(active')
       PROVE  LET behind == Due(k)' - Due(1)
              IN  behind <= MaxTicks /\ (value <= 1 \/ value + behind <= MaxTicks)
  <2>1. CASE k < i
    <3>1. k \in 1..(i - 1) /\ k \in 1..n
      BY <1>2, <2>1
    <3> QED
      BY <1>12, <1>14, <3>1
  <2>2. CASE k >= i
    <3>1. k + 1 \in (i + 1)..n /\ k + 1 \in 1..n /\ (k + 1) - 1 = k
      BY <1>2, <1>13, <2>2
    <3>2. Due(k)' = Due(k + 1)
      BY <1>12, <3>1
    <3> QED
      BY <1>14, <3>1, <3>2
  <2> QED
    BY <1>2, <1>13, <2>1, <2>2
<1>18. TimerInv'
  BY <1>1, <1>11, <1>13, <1>15, <1>16, <1>17, Kept
<1> QED
  BY <1>1, <1>4, <1>7, <1>12, <1>18

\* An expired timer is stopped: what is over is due at once, the rest when it was.
LEMMA ExpiredStopped ==
  ASSUME TimerInv, NEW t \in Timer, StopExpired(t), Stopped(t), UNCHANGED <<handler, last>>
  PROVE  /\ TimerInv' /\ active # <<>> /\ value = 0
         /\ t = active[1] /\ Cut(active', 1, active)
         /\ active' # <<>> =>
              /\ elapsed' = 0
              /\ \A k \in 1..(Len(active) - 1) :
                   IF Due(k + 1) <= Due(1) + Overrun THEN Due(k)' = 0
                   ELSE Due(k)' = Due(k + 1) - (Due(1) + Overrun)
<1> DEFINE n == Len(active)
           x == Due(1) + Overrun
           late(m) == Overrun - (Due(m + 1) - Due(1))
<1>1. /\ active # <<>> /\ t = Head(active) /\ value = 0 /\ active' = Tail(active)
      /\ UNCHANGED <<fired, handler, last>>
  BY DEF StopExpired
<1>2. /\ n \in Nat \ {0} /\ t = active[1] /\ \A k \in 0..n : Due(k) \in Nat
      /\ \A k \in 1..n : /\ active[k] \in Timer /\ time[active[k]] \in Nat
                         /\ Due(k) = Due(k - 1) + time[active[k]] /\ Due(1) <= Due(k)
  BY <1>1, ActiveFacts DEF TimerInv
<1>3. /\ active \in Seq(Timer) /\ Once(active) /\ time \in [Timer -> Nat] /\ elapsed \in Nat
      /\ MaxTicks \in Nat \ {0}
      /\ \A u \in Timer : time[u] <= MaxTicks + 1
  BY HwTimerAssumption DEF TimerInv, ListsOK, HardwareOK, Bounded
<1>4. Overrun \in Nat
  BY <1>1, <1>2, <1>3 DEF Overrun, Larger
<1>5. /\ Lapsed(Tail(active), Overrun) \in 0..(n - 1)
      /\ \A k \in 1..(n - 1) : Due(k + 1) - Due(1) <= Overrun <=> k <= Lapsed(Tail(active), Overrun)
  BY <1>1, <1>4, OthersLapsed, SMTT(20) DEF TimerInv
<1>6. PICK m \in 0..(n - 1) : m = Lapsed(Tail(active), Overrun)
  BY <1>5
<1>7. /\ Tail(active) \in Seq(Timer) /\ Len(Tail(active)) = n - 1
      /\ (Tail(active) = <<>> <=> n = 1)
      /\ \A k \in 1..(n - 1) : Tail(active)[k] = active[k + 1]
      /\ Offset(Tail(active), m) = Due(m + 1) - Due(1)
  BY <1>1, OthersFacts DEF TimerInv
<1>8. time' = [u \in Timer |->
                 IF u = t \/ \E i \in 1..m : u = Tail(active)[i] THEN 0
                 ELSE IF m < Len(Tail(active)) /\ u = Tail(active)[m + 1]
                 THEN time[u] - (Overrun - Offset(Tail(active), m))
                 ELSE time[u]]
  BY <1>6 DEF StopExpired
<1>9. Cut(active', 1, active) /\ Without(active', 1, active)
  BY <1>1, <1>3, TailIs
<1>10. ASSUME NEW j \in 1..n, NEW k \in 1..n, active[j] = active[k] PROVE j = k
  BY <1>3, <1>10 DEF Once
<1>11. time'[t] = 0
  BY <1>8
<1>12. ASSUME NEW k \in 1..m PROVE time'[active[k + 1]] = 0
  <2>1. k \in 1..(n - 1) /\ k + 1 \in 1..n
    BY <1>2
  <2>2. active[k + 1] = Tail(active)[k] /\ active[k + 1] \in Timer
    BY <1>2, <1>7, <2>1
  <2> QED
    BY <1>8, <2>2
<1>13. ASSUME NEW k \in (m + 2)..n
       PROVE  active[k] \in Timer /\ active[k] # t /\ \A i \in 1..m : active[k] # Tail(active)[i]
  <2>1. k \in 1..n /\ 1 \in 1..n /\ k # 1
    BY <1>2
  <2>2. \A i \in 1..m : i \in 1..(n - 1) /\ i + 1 \in 1..n /\ k # i + 1
    BY <1>2
  <2> QED
    BY <1>2, <1>7, <1>10, <2>1, <2>2
<1>14. ASSUME m < n - 1
       PROVE  /\ time'[active[m + 2]] = time[active[m + 2]] - (Overrun - (Due(m + 1) - Due(1)))
              /\ time'[active[m + 2]] = Due(m + 2) - x /\ Due(m + 2) > x
              /\ time'[active[m + 2]] <= time[active[m + 2]]
  <2>0. n \in Nat /\ m \in Nat /\ m < n - 1
    BY <1>2, <1>14
  <2>1. /\ m + 2 \in (m + 2)..n /\ m + 1 \in 1..(n - 1) /\ (m + 1) + 1 = m + 2 /\ m + 2 \in 1..n
        /\ (m + 2) - 1 = m + 1 /\ m + 1 \in 0..n /\ m + 2 \in 0..n /\ 1 \in 0..n /\ ~(m + 1 <= m)
    BY <2>0
  <2>2. Tail(active)[m + 1] = active[m + 2] /\ m < Len(Tail(active))
    BY <1>7, <1>14, <2>1
  <2>3. time'[active[m + 2]] = time[active[m + 2]] - (Overrun - (Due(m + 1) - Due(1)))
    BY <1>7, <1>8, <1>13, <2>1, <2>2
  <2>4. /\ Due(m + 2) = Due(m + 1) + time[active[m + 2]] /\ time[active[m + 2]] \in Nat
        /\ Due(m + 1) \in Nat /\ Due(1) \in Nat /\ Due(m + 2) \in Nat
    BY <1>2, <2>1
  <2>5. Due(m + 2) - Due(1) > Overrun
    BY <1>4, <1>5, <1>6, <2>1, <2>4, SMTT(20)
  <2>6. Due(m + 1) - Due(1) <= Overrun
    <3>1. CASE m = 0
      BY <1>4, <2>4, <3>1
    <3>2. CASE m # 0
      <4>1. m \in 1..(n - 1) /\ m <= m
        BY <1>2, <3>2
      <4> QED
        BY <1>5, <1>6, <4>1
    <3> QED
      BY <3>1, <3>2
  <2> QED
    BY <1>4, <2>3, <2>4, <2>5, <2>6, SMTT(20)
<1>15. ASSUME NEW k \in (m + 3)..n PROVE time'[active[k]] = time[active[k]]
  <2>1. k \in (m + 2)..n /\ k \in 1..n /\ (m < n - 1 => m + 1 \in 1..(n - 1) /\ m + 2 \in 1..n)
        /\ k # m + 2 /\ (m + 1) + 1 = m + 2
    BY <1>2, SMTT(20)
  <2>2. m < Len(Tail(active)) => active[k] # Tail(active)[m + 1]
    BY <1>7, <1>10, <2>1
  <2> QED
    BY <1>8, <1>13, <2>1, <2>2
<1>16. ASSUME NEW u \in Timer PROVE time'[u] \in Nat /\ time'[u] <= MaxTicks + 1
  <2>1. time[u] \in Nat /\ time[u] <= MaxTicks + 1
    BY <1>3
  <2>2. CASE u = t \/ \E i \in 1..m : u = Tail(active)[i]
    BY <1>3, <1>8, <2>2
  <2>3. CASE m < n - 1 /\ u = active[m + 2]
    <3>1. Due(m + 2) \in Nat /\ Due(1) \in Nat
      <4>1. m + 2 \in 0..n /\ 1 \in 0..n
        BY <1>2, <2>3
      <4> QED
        BY <1>2, <4>1
    <3>2. time'[u] = Due(m + 2) - x /\ Due(m + 2) > x /\ time'[u] <= time[u]
      BY <1>14, <2>3
    <3> QED
      BY <1>3, <1>4, <2>1, <3>1, <3>2
  <2>4. CASE ~(u = t \/ \E i \in 1..m : u = Tail(active)[i]) /\ ~(m < n - 1 /\ u = active[m + 2])
    <3>1. m < n - 1 => m + 1 \in 1..(n - 1) /\ (m + 1) + 1 = m + 2
      BY <1>2
    <3>2. ~(m < Len(Tail(active)) /\ u = Tail(active)[m + 1])
      BY <1>7, <2>4, <3>1
    <3> QED
      BY <1>8, <2>1, <2>4, <3>2
  <2> QED
    BY <2>2, <2>3, <2>4
<1>17. time' \in [Timer -> Nat]
  <2>1. time' = [u \in Timer |-> time'[u]]
    BY <1>8
  <2> QED
    BY <1>16, <2>1
<1>18. ListsOK'
  <2>1. 1 \in 1..Len(active) /\ active[1] = t
    BY <1>2
  <2> QED
    BY <1>1, <1>9, <1>17, <2>1, StoppedLists DEF TimerInv
<1>19. CASE active' = <<>>
  <2>1. TimerStop
    BY <1>1, <1>19 DEF StopExpired
  <2> QED
    BY <1>1, <1>2, <1>9, <1>16, <1>18, <1>19, <2>1, SwitchedOff
<1>20. CASE active' # <<>>
  <2>1. /\ en' = TRUE /\ irq' = FALSE /\ elapsed' = 0 /\ value' = Load(time'[Head(active')])
    BY <1>1, <1>20 DEF StopExpired, TimerStopStart
  <2>2. /\ \A k \in 1..m : Due(k)' = 0
        /\ \A k \in (m + 2)..n : Due(k - 1)' = Due(k) - x
    <3>1. time \in [Timer -> Int] /\ time' \in [Timer -> Int] /\ x \in Int
      <4>1. 1 \in 0..n
        BY <1>2
      <4>2. Due(1) \in Nat
        BY <1>2, <4>1
      <4> QED
        BY <1>3, <1>4, <1>17, <4>2
    <3>2. m < n - 1 => time'[active[m + 2]] = Dues(active, time)[m + 2] - x
      BY <1>14 DEF Due
    <3> HIDE DEF x
    <3>3. ClearedTimes(active, time, active', time', m, x)
      BY <1>3, <1>9, <1>12, <1>15, <3>1, <3>2 DEF ClearedTimes, Listed
    <3>4. /\ \A k \in 1..m : Dues(active', time')[k] = 0
          /\ \A k \in (m + 2)..Len(active) : Dues(active', time')[k - 1] = Dues(active, time)[k] - x
      BY <3>3, ClearedDues
    <3> QED
      BY <3>4 DEF Due
  <2>3. ASSUME NEW k \in 1..(n - 1)
        PROVE  IF Due(k + 1) <= x THEN Due(k)' = 0 ELSE Due(k)' = Due(k + 1) - x
    <3>1. Due(k + 1) \in Nat /\ Due(1) \in Nat
      <4>1. k + 1 \in 0..n /\ 1 \in 0..n
        BY <1>2
      <4> QED
        BY <1>2, <4>1
    <3>2. Due(k + 1) <= x <=> k <= m
      BY <1>4, <1>5, <1>6, <3>1
    <3>3. CASE k <= m
      <4>1. k \in 1..m
        BY <3>3
      <4> QED
        BY <2>2, <3>2, <3>3, <4>1
    <3>4. CASE ~(k <= m)
      <4>1. k + 1 \in (m + 2)..n /\ (k + 1) - 1 = k
        BY <1>2, <3>4
      <4> QED
        BY <2>2, <3>2, <3>4, <4>1
    <3> QED
      BY <3>3, <3>4
  <2>4. Due(1)' = time'[Head(active')]
    BY <1>18, <1>20, ActiveNext
  <2>5. Len(active') = n - 1 /\ 1 \in 1..(n - 1)
    <3>1. Len(active') = n - 1 /\ active' \in Seq(Timer)
      BY <1>9 DEF Cut
    <3> QED
      BY <1>2, <1>20, <3>1, EmptyIs
  <2>6. ASSUME NEW k \in 1..Len(active')
        PROVE  Due(k)' <= MaxTicks + 1 /\ Due(k)' - Due(1)' <= MaxTicks
    <3>1. k \in 1..(n - 1) /\ k + 1 \in 1..n /\ k + 1 \in 0..n /\ 1 \in 0..n
      BY <1>2, <2>5
    <3>2. Due(k + 1) - Due(1) <= MaxTicks /\ Due(k + 1) \in Nat /\ Due(1) \in Nat
      BY <1>2, <3>1 DEF TimerInv, Bounded, Behind, Due
    <3>3. Due(k)' = 0 \/ Due(k)' = Due(k + 1) - (Due(1) + Overrun)
      BY <2>3, <3>1
    <3>4. Due(1)' \in Nat
      <4>1. 1 \in 0..Len(active')
        BY <2>5
      <4> QED
        BY <1>18, <1>20, <4>1, ActiveNext
    <3>5. MaxTicks \in Nat
      BY <1>3
    <3> QED
      BY <1>4, <3>2, <3>3, <3>4, <3>5
  <2>7. HardwareOK' /\ Counts' /\ Bounded' /\ Armed'
    BY <1>16, <1>18, <1>20, <2>1, <2>4, <2>6, Reloaded
  <2> QED
    BY <1>1, <1>2, <1>9, <1>18, <2>1, <2>3, <2>7 DEF TimerInv
<1> QED
  BY <1>19, <1>20

\* A timer that waits for its callback is stopped.
LEMMA FiredStopped ==
  ASSUME TimerInv, NEW t \in Timer, StopFired(t), Stopped(t), UNCHANGED <<handler, last>>
  PROVE  TimerInv'
<1>1. /\ state[t] = "FIRED" /\ fired' = RemoveFirst(fired, t)
      /\ state' = [state EXCEPT ![t] = "ALLOC"]
      /\ UNCHANGED <<time, active, hwVars, handler, last>>
  BY DEF StopFired, Stopped
<1>2. fired \in Seq(Timer) /\ Once(fired) /\ In(t, fired)
  BY <1>1 DEF TimerInv, ListsOK
<1>3. PICK k \in 1..Len(fired) : fired[k] = t
  BY <1>2 DEF In
<1>4. Places(fired, t) # {} /\ Min(Places(fired, t)) = k
  BY <1>2, <1>3, Found
<1>5. fired' = RemoveAt(fired, k)
  BY <1>1, <1>3, <1>4 DEF RemoveFirst, SelectInSeq, Places
<1>6. Without(fired', k, fired)
  BY <1>2, <1>5, RemoveAtIs
<1>7. /\ fired' \in Seq(Timer) /\ Once(fired')
      /\ \A u : In(u, fired') <=> In(u, fired) /\ u # t
  <2>1. fired' \in Seq(Timer)
    BY <1>6 DEF Without
  <2> QED
    BY <1>2, <1>3, <1>6, <2>1, WithoutHas
<1>8. /\ state' \in [Timer -> State] /\ state'[t] = "ALLOC"
      /\ \A u \in Timer : u # t => state'[u] = state[u]
  BY <1>1 DEF TimerInv, ListsOK, State
<1>9. handler = "calling"
  <2>1. fired # <<>>
    BY <1>2 DEF In
  <2> QED
    BY <2>1 DEF TimerInv, ListsOK
<1>10. ASSUME NEW u \in Timer
       PROVE  /\ state'[u] = "ACTIVE" <=> In(u, active')
              /\ state'[u] = "FIRED" <=> In(u, fired')
              /\ state'[u] = "CALLBACK" => u = last'
  <2>1. CASE u = t
    BY <1>1, <1>7, <1>8, <2>1 DEF TimerInv, ListsOK
  <2>2. CASE u # t
    BY <1>1, <1>7, <1>8, <2>2 DEF TimerInv, ListsOK
  <2> QED
    BY <2>1, <2>2
<1>11. ListsOK'
  BY <1>1, <1>7, <1>8, <1>9, <1>10 DEF TimerInv, ListsOK
<1>12. HardwareOK' /\ Counts' /\ Bounded' /\ Armed'
  BY <1>1 DEF TimerInv, HardwareOK, Counts, Bounded, Behind, Armed, hwVars
<1> QED
  BY <1>11, <1>12 DEF TimerInv

-----------------------------------------------------------------------------
(***************************************************************************)
(* The handler and the passing of time.                                    *)
(***************************************************************************)
LEMMA Fired ==
  ASSUME TimerInv, Fire
  PROVE  /\ TimerInv' /\ active # <<>> /\ ~Early
         /\ active' # <<>> => elapsed' = 0
         /\ \E p \in 1..Len(active) :
              /\ Cut(active', p, active)
              /\ \A k \in 1..(Len(active) - 1) : Due(k + 1) - Due(1) <= Overrun <=> k <= p - 1
              /\ \A k \in 1..(Len(active) - p) : Due(k)' = Due(p + k) - (Due(1) + Overrun)
<1> DEFINE n == Len(active)
           x == Due(1) + Overrun
<1>1. handler = "entered" /\ active # <<>> /\ ~Early
  BY DEF Fire
<1>2. /\ n \in Nat \ {0} /\ Head(active) = active[1] /\ \A k \in 0..n : Due(k) \in Nat
      /\ \A k \in 1..n : /\ active[k] \in Timer /\ time[active[k]] \in Nat
                         /\ Due(k) = Due(k - 1) + time[active[k]] /\ Due(1) <= Due(k)
  BY <1>1, ActiveFacts DEF TimerInv
<1>3. /\ active \in Seq(Timer) /\ Once(active) /\ time \in [Timer -> Nat] /\ elapsed \in Nat
      /\ MaxTicks \in Nat \ {0} /\ \A u \in Timer : time[u] <= MaxTicks + 1
  BY HwTimerAssumption DEF TimerInv, ListsOK, HardwareOK, Bounded
<1>4. Overrun \in Nat
  BY <1>1, <1>2, <1>3 DEF Overrun, Larger
<1>5. /\ Lapsed(Tail(active), Overrun) \in 0..(n - 1)
      /\ \A k \in 1..(n - 1) : Due(k + 1) - Due(1) <= Overrun <=> k <= Lapsed(Tail(active), Overrun)
  BY <1>1, <1>4, OthersLapsed, SMTT(20) DEF TimerInv
<1>6. PICK p \in 1..n : p = 1 + Lapsed(Tail(active), Overrun)
  BY <1>2, <1>5
<1>7. Offset(Tail(active), p - 1) = Due(p) - Due(1)
  <2>1. p - 1 \in 0..(Len(active) - 1) /\ (p - 1) + 1 = p
    BY <1>2
  <2> QED
    BY <1>1, <2>1, OthersFacts DEF TimerInv
<1> DEFINE due == SubSeq(active, 1, p)
           rest == SubSeq(active, p + 1, n)
<1>8. /\ active' = rest
      /\ time' = [u \in Timer |->
                    IF Contains(due, u) THEN 0
                    ELSE IF rest # <<>> /\ u = Head(rest)
                    THEN time[u] - (Overrun - Offset(Tail(active), p - 1))
                    ELSE time[u]]
      /\ rest = <<>> => TimerStop
      /\ rest # <<>> => TimerStart(time'[Head(rest)])
      /\ CallFirst(due, [u \in Timer |-> IF Contains(due, u) THEN "FIRED" ELSE state[u]])
  BY <1>6 DEF Fire
<1>9. /\ due \in Seq(Timer) /\ Len(due) = p /\ \A k \in 1..p : due[k] = active[k]
  BY <1>2, <1>3
<1>10. Cut(active', p, active)
  <2>1. p \in 0..Len(active)
    BY <1>2
  <2> QED
    BY <1>3, <1>8, <2>1, CutIs
<1> HIDE DEF due
<1>11. ASSUME NEW j \in 1..n, NEW k \in 1..n, active[j] = active[k] PROVE j = k
  BY <1>3, <1>11 DEF Once
<1>12. \A u : Contains(due, u) <=> \E k \in 1..p : active[k] = u
  BY <1>9 DEF Contains
<1>13. /\ active' \in Seq(Timer) /\ Len(active') = n - p /\ Once(active')
       /\ \A u : In(u, active') <=> \E k \in (p + 1)..n : active[k] = u
  <2>1. p \in 0..Len(active)
    BY <1>2
  <2> QED
    BY <1>3, <1>10, <2>1, CutHas DEF Cut
<1>14. active' # <<>> =>
         p < n /\ p + 1 \in 1..n /\ Head(active') = active[p + 1] /\ active[p + 1] \in Timer
  <2> SUFFICES ASSUME active' # <<>> PROVE p < n /\ Head(active') = active[p + 1]
    BY <1>2
  <2>1. n - p # 0
    BY <1>13, EmptyIs
  <2>2. p < n /\ 1 \in 1..(n - p)
    BY <1>2, <2>1
  <2>3. Head(active') = active'[1]
    BY <1>13
  <2> QED
    BY <1>10, <2>2, <2>3 DEF Cut
<1> HIDE DEF rest
<1>15. ASSUME NEW k \in (p + 1)..n PROVE active[k] \in Timer /\ ~Contains(due, active[k])
  <2>1. k \in 1..n /\ \A j \in 1..p : j \in 1..n /\ j # k
    BY <1>2
  <2>2. ASSUME NEW j \in 1..p, active[j] = active[k] PROVE FALSE
    BY <1>11, <2>1, <2>2
  <2> QED
    BY <1>2, <1>12, <2>1, <2>2
<1>16. ASSUME active' # <<>>
       PROVE  time'[active[p + 1]] = Due(p + 1) - x /\ Due(p + 1) > x
              /\ time'[active[p + 1]] <= time[active[p + 1]]
  <2>0. n \in Nat /\ p \in Nat /\ 1 <= p /\ p < n
    BY <1>2, <1>14, <1>16
  <2>1. /\ p + 1 \in (p + 1)..n /\ p + 1 \in 1..n /\ (p + 1) - 1 = p /\ p \in 0..n /\ p + 1 \in 0..n
        /\ 1 \in 0..n /\ p \in 1..(n - 1) /\ ~(p <= p - 1)
    BY <2>0
  <2>2. time'[active[p + 1]] = time[active[p + 1]] - (Overrun - (Due(p) - Due(1)))
    BY <1>7, <1>8, <1>14, <1>15, <1>16, <2>1
  <2>3. /\ Due(p + 1) = Due(p) + time[active[p + 1]] /\ time[active[p + 1]] \in Nat
        /\ Due(p) \in Nat /\ Due(1) \in Nat /\ Due(p + 1) \in Nat
    BY <1>2, <2>1
  <2>4. Due(p + 1) - Due(1) > Overrun
    <3>1. ~(p <= Lapsed(Tail(active), Overrun))
      BY <1>5, <1>6, <2>1
    <3> QED
      BY <1>4, <1>5, <2>1, <2>3, <3>1
  <2>5. Due(p) - Due(1) <= Overrun
    <3>1. CASE p = 1
      BY <1>4, <2>3, <3>1
    <3>2. CASE p # 1
      <4>1. p - 1 \in 1..(n - 1) /\ (p - 1) + 1 = p /\ p - 1 <= Lapsed(Tail(active), Overrun)
        BY <1>5, <1>6, <2>0, <3>2
      <4> QED
        BY <1>5, <4>1
    <3> QED
      BY <3>1, <3>2
  <2> QED
    BY <1>4, <2>2, <2>3, <2>4, <2>5, SMTT(20)
<1>17. ASSUME NEW k \in (p + 2)..n PROVE time'[active[k]] = time[active[k]]
  <2>1. k \in (p + 1)..n /\ k \in 1..n /\ k # p + 1 /\ p + 1 \in 1..n
    BY <1>2
  <2>2. rest # <<>> => active[k] # Head(rest)
    BY <1>8, <1>11, <1>14, <2>1
  <2> QED
    BY <1>8, <1>15, <2>1, <2>2
<1>18. ASSUME NEW u \in Timer PROVE time'[u] \in Nat /\ time'[u] <= MaxTicks + 1
  <2>1. time[u] \in Nat /\ time[u] <= MaxTicks + 1
    BY <1>3
  <2>2. CASE Contains(due, u)
    BY <1>3, <1>8, <2>2
  <2>3. CASE active' # <<>> /\ u = active[p + 1]
    <3>1. Due(p + 1) \in Nat /\ Due(1) \in Nat
      <4>1. p + 1 \in 0..n /\ 1 \in 0..n
        BY <1>2, <1>14, <2>3
      <4> QED
        BY <1>2, <4>1
    <3> QED
      BY <1>3, <1>4, <1>16, <2>1, <2>3, <3>1
  <2>4. CASE ~Contains(due, u) /\ ~(active' # <<>> /\ u = active[p + 1])
    BY <1>8, <1>14, <2>1, <2>4
  <2> QED
    BY <2>2, <2>3, <2>4
<1>19. time' \in [Timer -> Nat]
  <2>1. time' = [u \in Timer |-> time'[u]]
    BY <1>8
  <2> QED
    BY <1>18, <2>1
<1>20. ListsOK'
  <2> DEFINE from == [u \in Timer |-> IF Contains(due, u) THEN "FIRED" ELSE state[u]]
  <2>1. /\ state \in [Timer -> State]
        /\ \A u \in Timer : state[u] # "CALLBACK" /\ state[u] # "FIRED"
        /\ \A u \in Timer : state[u] = "ACTIVE" <=> In(u, active)
    <3>1. fired = <<>>
      BY <1>1 DEF TimerInv, ListsOK
    <3>2. \A u : ~In(u, fired)
      BY <3>1 DEF In
    <3> QED
      BY <1>1, <3>2 DEF TimerInv, ListsOK
  <2>2. from \in [Timer -> State]
    BY <2>1 DEF State
  <2>3. \A u : In(u, due) <=> Contains(due, u)
    BY DEF In, Contains
  <2>4. Once(due)
    <3>1. \A k \in 1..p : k \in 1..n
      BY <1>2
    <3> QED
      BY <1>9, <1>11, <3>1 DEF Once
  <2>5. ASSUME NEW u \in Timer PROVE In(u, active) <=> Contains(due, u) \/ In(u, active')
    <3>1. \A k \in 1..n : k \in 1..p \/ k \in (p + 1)..n
      BY <1>2
    <3>2. (\A k \in 1..p : k \in 1..n) /\ (\A k \in (p + 1)..n : k \in 1..n)
      BY <1>2
    <3> QED
      BY <1>12, <1>13, <3>1, <3>2 DEF In
  <2>6. ASSUME NEW u \in Timer PROVE ~(Contains(due, u) /\ In(u, active'))
    BY <1>13, <1>15
  <2>7. Sorted(from, due, active')
    BY <1>9, <2>1, <2>2, <2>3, <2>4, <2>5, <2>6 DEF Sorted
  <2>8. CallFirst(due, from)
    BY <1>8
  <2> HIDE DEF from
  <2> QED
    BY <1>13, <1>19, <2>7, <2>8, CalledLists
<1>21. \A k \in 1..(n - p) : Due(k)' = Due(p + k) - x
  <2>1. CASE active' = <<>>
    <3>1. n - p = 0
      BY <1>13, <2>1
    <3> QED
      BY <3>1
  <2>2. CASE active' # <<>>
    <3>1. time \in [Timer -> Int] /\ time' \in [Timer -> Int] /\ x \in Int
      <4>1. 1 \in 0..n
        BY <1>2
      <4>2. Due(1) \in Nat
        BY <1>2, <4>1
      <4> QED
        BY <1>3, <1>4, <1>19, <4>2
    <3>2. time'[active[p + 1]] = Dues(active, time)[p + 1] - x
      BY <1>16, <2>2 DEF Due
    <3> HIDE DEF x
    <3>3. p \in 1..(n - 1)
      BY <1>2, <1>14, <2>2
    <3>4. CutTimes(active, time, active', time', p, x)
      BY <1>3, <1>10, <1>17, <3>1, <3>2, <3>3 DEF CutTimes, Listed
    <3>5. \A k \in 1..(Len(active) - p) : Dues(active', time')[k] = Dues(active, time)[p + k] - x
      BY <3>4, CutDues
    <3> QED
      BY <3>5 DEF Due
  <2> QED
    BY <2>1, <2>2
<1>22. \A k \in 1..(n - 1) : Due(k + 1) - Due(1) <= Overrun <=> k <= p - 1
  <2>1. p - 1 = Lapsed(Tail(active), Overrun)
    BY <1>5, <1>6
  <2> QED
    BY <1>5, <2>1
<1>23. CASE active' = <<>>
  <2>1. TimerInv'
    BY <1>8, <1>18, <1>20, <1>23, SwitchedOff
  <2> QED
    BY <1>1, <1>10, <1>21, <1>23, <1>22, <2>1
<1>24. CASE active' # <<>>
  <2>1. /\ en' = TRUE /\ irq' = irq /\ elapsed' = 0 /\ value' = Load(time'[Head(active')])
    BY <1>8, <1>24 DEF TimerStart
  <2>2. Due(1)' = time'[Head(active')]
    BY <1>20, <1>24, ActiveNext
  <2>3. ASSUME NEW k \in 1..Len(active')
        PROVE  Due(k)' <= MaxTicks + 1 /\ Due(k)' - Due(1)' <= MaxTicks
    <3>1. /\ k \in 1..(n - p) /\ p + k \in 1..n /\ p + k \in 0..n
          /\ 1 \in 0..n /\ 1 \in 0..Len(active')
      BY <1>2, <1>13
    <3>2. Due(p + k) - Due(1) <= MaxTicks /\ Due(p + k) \in Nat /\ Due(1) \in Nat
      BY <1>2, <3>1 DEF TimerInv, Bounded, Behind, Due
    <3>3. Due(k)' = Due(p + k) - (Due(1) + Overrun)
      BY <1>21, <3>1
    <3>4. Due(1)' \in Nat
      BY <1>20, <1>24, <3>1, ActiveNext
    <3>5. MaxTicks \in Nat
      BY <1>3
    <3> QED
      BY <1>4, <3>2, <3>3, <3>4, <3>5
  <2>4. irq' \in BOOLEAN
    BY <2>1 DEF TimerInv, HardwareOK
  <2>5. HardwareOK' /\ Counts' /\ Bounded' /\ Armed'
    BY <1>18, <1>20, <1>24, <2>1, <2>2, <2>3, <2>4, Reloaded
  <2>6. TimerInv'
    BY <1>20, <2>5 DEF TimerInv
  <2> QED
    BY <1>1, <1>10, <1>21, <1>22, <2>1, <2>6
<1> QED
  BY <1>23, <1>24

\* A callback returns and the next is called, or the handler ends.
LEMMA Returned ==
  ASSUME TimerInv, CallbackReturns
  PROVE  TimerInv'
<1> DEFINE from == IF state[last] = "CALLBACK" THEN [state EXCEPT ![last] = "ALLOC"] ELSE state
<1>1. /\ handler = "calling" /\ CallFirst(fired, from) /\ UNCHANGED <<time, active, hwVars>>
  BY DEF CallbackReturns
<1>2. last \in Timer /\ state \in [Timer -> State]
  BY <1>1 DEF TimerInv, ListsOK
<1>3. /\ from \in [Timer -> State]
      /\ from[last] = IF state[last] = "CALLBACK" THEN "ALLOC" ELSE state[last]
      /\ \A u \in Timer : u # last => from[u] = state[u]
  BY <1>2 DEF State
<1> HIDE DEF from
<1>4. ASSUME NEW u \in Timer
      PROVE  /\ from[u] = "ACTIVE" <=> In(u, active)
             /\ from[u] = "FIRED" <=> In(u, fired)
             /\ from[u] # "CALLBACK"
  <2>1. CASE u = last
    BY <1>3, <2>1 DEF TimerInv, ListsOK
  <2>2. CASE u # last
    BY <1>3, <2>2 DEF TimerInv, ListsOK
  <2> QED
    BY <2>1, <2>2
<1>5. Sorted(from, fired, active')
  BY <1>1, <1>3, <1>4 DEF Sorted, TimerInv, ListsOK
<1>6. ListsOK'
  <2>1. active' \in Seq(Timer) /\ Once(active') /\ time' \in [Timer -> Nat]
    BY <1>1 DEF TimerInv, ListsOK
  <2> QED
    BY <1>1, <1>5, <2>1, CalledLists
<1>7. HardwareOK' /\ Counts' /\ Bounded'
  BY <1>1 DEF TimerInv, HardwareOK, Counts, Bounded, Behind, hwVars
<1>8. Armed'
  BY <1>1 DEF TimerInv, Armed, hwVars
<1> QED
  BY <1>6, <1>7, <1>8 DEF TimerInv

\* A tick of the clock.
LEMMA Ticked ==
  ASSUME TimerInv, Tick
  PROVE  TimerInv'
<1>1. /\ value' = IF en /\ value > 0 THEN value - 1 ELSE value
      /\ irq' = (irq \/ (en /\ value = 1))
      /\ elapsed' = IF en THEN elapsed + 1 ELSE elapsed
      /\ en' = en /\ UNCHANGED listVars
  BY DEF Tick, TimerTick
<1>2. ListsOK'
  BY <1>1 DEF listVars, TimerInv, ListsOK
<1>3. HardwareOK' /\ value' <= value
  BY <1>1 DEF TimerInv, HardwareOK
<1>4. CASE active = <<>>
  <2>1. ~en /\ ~irq
    BY <1>4 DEF TimerInv, Armed
  <2> QED
    BY <1>1, <1>2, <1>3, <1>4, <2>1
    DEF listVars, TimerInv, HardwareOK, Counts, Bounded, Behind, Armed
<1>5. CASE active # <<>>
  <2>1. en /\ (value > 0 \/ irq \/ handler = "entered")
    BY <1>5 DEF TimerInv, Armed
  <2>2. value \in Nat /\ elapsed \in Nat /\ time[Head(active)] \in Nat /\ MaxTicks \in Nat
    BY <1>5, HwTimerAssumption, ActiveFacts DEF TimerInv, HardwareOK
  <2>3. Counts'
    BY <1>1, <1>5, <2>1, <2>2 DEF listVars, TimerInv, Counts
  <2>4. Armed'
    <3>1. active' # <<>> /\ en' /\ handler' = handler
      BY <1>1, <1>5, <2>1 DEF listVars
    <3>2. CASE value > 1
      <4>1. value' > 0
        BY <1>1, <2>1, <2>2, <3>2
      <4> QED
        BY <3>1, <4>1 DEF Armed
    <3>3. CASE value = 1
      BY <1>1, <2>1, <3>1, <3>3 DEF Armed
    <3>4. CASE value = 0
      <4>1. irq \/ handler = "entered"
        BY <2>1, <3>4
      <4> QED
        BY <1>1, <3>1, <4>1 DEF Armed
    <3> QED
      BY <2>2, <3>2, <3>3, <3>4
  <2>5. Bounded'
    <3>1. \A k \in 1..Len(active) : Behind(k) \in Int
      <4>1. ASSUME NEW k \in 1..Len(active) PROVE Due(k) \in Int /\ Due(1) \in Int
        <5>1. k \in 0..Len(active) /\ 1 \in 0..Len(active)
          BY <1>5, ActiveFacts DEF TimerInv
        <5> QED
          BY <1>5, <5>1, ActiveFacts DEF TimerInv
      <4> QED
        BY <4>1 DEF Behind, Due
    <3>2. ASSUME NEW k \in 1..Len(active')
          PROVE  Behind(k)' <= MaxTicks /\ (value' <= 1 \/ value' + Behind(k)' <= MaxTicks)
      <4>1. Behind(k)' = Behind(k) /\ k \in 1..Len(active)
        BY <1>1 DEF listVars, Behind
      <4>2. Behind(k) <= MaxTicks /\ (value <= 1 \/ value + Behind(k) <= MaxTicks)
        BY <4>1 DEF TimerInv, Bounded
      <4> QED
        BY <1>3, <2>2, <3>1, <4>1, <4>2 DEF HardwareOK
    <3>3. value <= MaxTicks /\ \A u \in Timer : time'[u] <= MaxTicks + 1
      BY <1>1 DEF listVars, TimerInv, Bounded
    <3>4. value' <= MaxTicks
      BY <1>3, <2>2, <3>3 DEF HardwareOK
    <3> QED
      BY <3>2, <3>3, <3>4 DEF Bounded
  <2> QED
    BY <1>2, <1>3, <2>3, <2>4, <2>5 DEF TimerInv
<1> QED
  BY <1>4, <1>5

-----------------------------------------------------------------------------
\* hwtimer_start, with the ticks it makes of a start in 0 ticks.
LEMMA Starts ==
  ASSUME NEW t \in Timer, NEW requested \in 0..MaxTicks, Start(t, requested)
  PROVE  LET ticks == Larger(requested, HAL_TIMER_LOAD_DELTA)
         IN  /\ Starting(t, ticks)
             /\ StartFirst(t, ticks) \/ StartInFront(t, ticks) \/ StartBehind(t, ticks)
             /\ requested \in 1..MaxTicks => ticks = requested
<1>1. MaxTicks \in Nat \ {0}
  BY HwTimerAssumption
<1>2. /\ Larger(requested, HAL_TIMER_LOAD_DELTA) \in 1..MaxTicks
      /\ requested \in 1..MaxTicks => Larger(requested, HAL_TIMER_LOAD_DELTA) = requested
  BY <1>1 DEF Larger, HAL_TIMER_LOAD_DELTA
<1> QED
  BY <1>2 DEF Start, Starting

\* TimerInv holds at the start.
LEMMA FirstLists == Init => TimerInv
<1> SUFFICES ASSUME Init PROVE TimerInv
  OBVIOUS
<1>1. /\ en = FALSE /\ value = 0 /\ irq = FALSE /\ elapsed = 0
      /\ state = [t \in Timer |-> "FREE"] /\ time = [t \in Timer |-> 0]
      /\ active = <<>> /\ fired = <<>> /\ handler = "idle" /\ last = None
  BY DEF Init, TimerInit
<1>2. Len(active) = 0 /\ Len(fired) = 0 /\ active \in Seq(Timer) /\ fired \in Seq(Timer)
  BY <1>1
<1>3. (\A u : ~In(u, active)) /\ (\A u : ~In(u, fired)) /\ Once(active) /\ Once(fired)
  BY <1>2 DEF In, Once
<1>4. state \in [Timer -> State] /\ \A t \in Timer : state[t] = "FREE"
  BY <1>1 DEF State
<1>5. time \in [Timer -> Nat] /\ \A t \in Timer : time[t] = 0
  BY <1>1
<1>6. ListsOK
  BY <1>1, <1>2, <1>3, <1>4, <1>5 DEF ListsOK
<1>7. HardwareOK /\ Counts /\ Armed
  BY <1>1 DEF HardwareOK, Counts, Armed
<1>8. Bounded
  <2>1. MaxTicks \in Nat
    BY HwTimerAssumption
  <2>2. \A k \in 1..Len(active) : FALSE
    BY <1>2
  <2> QED
    BY <1>1, <1>5, <2>1, <2>2 DEF Bounded
<1> QED
  BY <1>6, <1>7, <1>8 DEF TimerInv

\* Every step keeps TimerInv.
LEMMA TimerNext ==
  ASSUME TimerInv, [Next]_vars
  PROVE  TimerInv'
<1>1. ASSUME NEW t \in Timer, Alloc(t) \/ Free(t) PROVE TimerInv'
  <2>1. /\ state[t] \in {"FREE", "ALLOC"}
        /\ \E s \in {"FREE", "ALLOC"} : state' = [state EXCEPT ![t] = s]
        /\ UNCHANGED <<time, active, fired, handler, last, hwVars>>
    BY <1>1 DEF Alloc, Free
  <2>2. PICK s \in {"FREE", "ALLOC"} : state' = [state EXCEPT ![t] = s]
    BY <2>1
  <2>3. /\ state' \in [Timer -> State] /\ state'[t] = s
        /\ \A u \in Timer : u # t => state'[u] = state[u]
    BY <2>2 DEF TimerInv, ListsOK, State
  <2>4. ASSUME NEW u \in Timer
        PROVE  /\ state'[u] = "ACTIVE" <=> state[u] = "ACTIVE"
               /\ state'[u] = "FIRED" <=> state[u] = "FIRED"
               /\ state'[u] = "CALLBACK" <=> state[u] = "CALLBACK"
    BY <2>1, <2>3
  <2>5. ListsOK'
    BY <2>1, <2>3, <2>4 DEF TimerInv, ListsOK
  <2> QED
    BY <2>1, <2>5 DEF TimerInv, HardwareOK, Counts, Bounded, Behind, Armed, hwVars
<1>2. ASSUME NEW t \in Timer, NEW ticks \in 0..MaxTicks, Start(t, ticks) PROVE TimerInv'
  BY <1>2, Starts, FirstStarted, InFrontStarted, BehindStarted
<1>3. ASSUME NEW t \in Timer, Stop(t) PROVE TimerInv'
  <2>1. Stopped(t) /\ UNCHANGED <<handler, last>>
    BY <1>3 DEF Stop
  <2>2. StopFirst(t) \/ StopExpired(t) \/ StopBehind(t) \/ StopFired(t)
    BY <1>3 DEF Stop
  <2> QED
    BY <2>1, <2>2, FirstStopped, ExpiredStopped, BehindStopped, FiredStopped
<1>4. CASE IrqEnter
  <2>1. /\ handler = "idle" /\ irq /\ irq' = FALSE /\ handler' = "entered"
        /\ UNCHANGED <<en, value, elapsed, state, time, active, fired, last>>
    BY <1>4 DEF IrqEnter, TimerIrqTaken
  <2>2. ListsOK'
    BY <2>1 DEF TimerInv, ListsOK
  <2>3. HardwareOK' /\ Counts' /\ Bounded'
    BY <2>1 DEF TimerInv, HardwareOK, Counts, Bounded, Behind
  <2>4. Armed'
    BY <2>1 DEF TimerInv, Armed
  <2> QED
    BY <2>2, <2>3, <2>4 DEF TimerInv
<1>5. CASE HandleNothing
  <2>1. /\ handler = "entered" /\ (active # <<>> => Early) /\ handler' = "idle"
        /\ UNCHANGED <<state, time, active, fired, last, hwVars>>
    BY <1>5 DEF HandleNothing
  <2>2. ListsOK'
    BY <2>1 DEF TimerInv, ListsOK
  <2>3. HardwareOK' /\ Counts' /\ Bounded'
    BY <2>1 DEF TimerInv, HardwareOK, Counts, Bounded, Behind, hwVars
  <2>4. active # <<>> => value > 0
    <3> SUFFICES ASSUME active # <<>> PROVE value > 0
      OBVIOUS
    <3>1. time[Head(active)] \in Nat /\ value \in Nat /\ elapsed \in Nat
      BY ActiveFacts DEF TimerInv, HardwareOK
    <3>2. time[Head(active)] > elapsed + 1 /\ time[Head(active)] <= value + elapsed + 1
      BY <2>1 DEF Early, HAL_TIMER_LOAD_DELTA, TimerInv, Counts
    <3> QED
      BY <3>1, <3>2
  <2>5. Armed'
    BY <2>1, <2>4 DEF TimerInv, Armed, hwVars
  <2> QED
    BY <2>2, <2>3, <2>5 DEF TimerInv
<1>6. CASE UNCHANGED vars
  BY <1>6 DEF vars, listVars, hwVars, TimerInv, ListsOK, HardwareOK, Counts, Bounded, Behind, Armed
<1> QED
  BY <1>1, <1>2, <1>3, <1>4, <1>5, <1>6, Fired, Returned, Ticked DEF Next, Client, Handler

(***************************************************************************)
(* TimerInv holds of every reachable state, for any number of timers and   *)
(* any bound on their times.                                               *)
(***************************************************************************)
THEOREM TimerInvariant == Spec => []TimerInv
<1>1. Init => TimerInv
  BY FirstLists
<1>2. TimerInv /\ [Next]_vars => TimerInv'
  BY TimerNext
<1> QED
  BY <1>1, <1>2, PTL DEF Spec

\* In is membership of ToSet.
LEMMA SetIs ==
  ASSUME NEW list \in Seq(Timer)
  PROVE  \A t : t \in ToSet(list) <=> In(t, list)
BY DEF ToSet, In

\* TimerInv implies what HardwareFollows says.
LEMMA InvGivesHardware == TimerInv => HardwareFollows
<1> SUFFICES ASSUME TimerInv PROVE HardwareFollows
  OBVIOUS
<1>1. /\ MaxTicks \in Nat \ {0} /\ None \notin Timer
      /\ value \in Nat /\ value <= MaxTicks /\ elapsed \in Nat
      /\ time \in [Timer -> Nat] /\ \A t \in Timer : time[t] <= MaxTicks + 1
  BY HwTimerAssumption DEF TimerInv, ListsOK, HardwareOK, Bounded
<1>2. time \in [Timer -> 0..(MaxTicks + 1)] /\ value \in 0..MaxTicks
  <2>1. \A t \in Timer : time[t] \in 0..(MaxTicks + 1)
    BY <1>1
  <2> QED
    BY <1>1, <2>1
<1>3. IsInjective(active) /\ IsInjective(fired)
  <2>1. DOMAIN active = 1..Len(active) /\ DOMAIN fired = 1..Len(fired)
    BY DEF TimerInv, ListsOK
  <2> QED
    BY <2>1 DEF TimerInv, ListsOK, Once, IsInjective
<1>4. /\ ToSet(active) = {t \in Timer : state[t] = "ACTIVE"}
      /\ ToSet(fired) = {t \in Timer : state[t] = "FIRED"}
  <2>1. active \in Seq(Timer) /\ fired \in Seq(Timer)
    BY DEF TimerInv, ListsOK
  <2>2. \A t : (In(t, active) => t \in Timer) /\ (In(t, fired) => t \in Timer)
    BY <2>1 DEF In
  <2> QED
    BY <2>1, <2>2, SetIs DEF TimerInv, ListsOK
<1>5. {t \in Timer : state[t] = "CALLBACK"} \subseteq {last} \ {None}
  BY <1>1 DEF TimerInv, ListsOK
<1>6. TimersTypeOK
  BY <1>2, <1>3, <1>4, <1>5 DEF TimersTypeOK, TimerInv, ListsOK, HardwareOK
<1>7. AssertsHold
  <2>1. active # <<>> =>
          /\ value <= time[Head(active)] \/ value <= HAL_TIMER_LOAD_DELTA
          /\ value = 0 => elapsed + HAL_TIMER_LOAD_DELTA >= time[Head(active)]
    <3> SUFFICES ASSUME active # <<>>
                 PROVE  /\ value <= time[Head(active)] \/ value <= 1
                        /\ value = 0 => elapsed + 1 >= time[Head(active)]
      BY DEF HAL_TIMER_LOAD_DELTA
    <3>1. time[Head(active)] \in Nat
      BY ActiveFacts DEF TimerInv
    <3> QED
      BY <1>1, <3>1 DEF TimerInv, Counts
  <2>2. handler = "entered" => IF active = <<>> THEN ~en ELSE Early => en
    BY DEF TimerInv, Armed
  <2> QED
    BY <2>1, <2>2 DEF AssertsHold
<1> QED
  BY <1>6, <1>7 DEF HardwareFollows, TimerInv

(***************************************************************************)
(* The list and the hardware agree, and no ASSERT of hwtimer_list.c can    *)
(* fail, whatever is started, stopped or fired in between.                 *)
(***************************************************************************)
THEOREM HardwareTheorem == Spec => []HardwareFollows
<1>1. TimerInv => HardwareFollows
  BY InvGivesHardware
<1> QED
  BY <1>1, TimerInvariant, PTL

-----------------------------------------------------------------------------
(***************************************************************************)
(* The deadline of a started timer, from its place in the list.            *)
(***************************************************************************)
LEMMA DeadlineIs ==
  ASSUME ListsOK, NEW k \in 1..Len(active), NEW t, active[k] = t
  PROVE  Deadline(t) = Due(k) - elapsed
<1>1. Places(active, t) # {} /\ Min(Places(active, t)) = k
  BY Found DEF ListsOK
<1>2. Deadline(t) = Offset(active, k) - elapsed
  BY <1>1 DEF Deadline, SelectInSeq, Places
<1> QED
  BY <1>2, OffsetIs DEF Due

\* The same after a step.
LEMMA DeadlineNext ==
  ASSUME ListsOK', NEW k \in 1..Len(active'), NEW t, active'[k] = t
  PROVE  Deadline(t)' = Due(k)' - elapsed'
<1>1. Places(active', t) # {} /\ Min(Places(active', t)) = k
  BY Found DEF ListsOK
<1>2. Deadline(t)' = Sums([i \in DOMAIN active' |-> time'[active'[i]]])[k] - elapsed'
  BY <1>1 DEF Deadline, SelectInSeq, Places, Offset, Times
<1> QED
  BY <1>2 DEF Due, Dues

(***************************************************************************)
(* How far a deadline may move.                                            *)
(***************************************************************************)
Near(before, after) == after - before \in -1..1 \/ (before <= 0 /\ after <= 0)

\* What the counter says of the first timer, within the tick of the load.
LEMMA HeadFacts ==
  ASSUME TimerInv, active # <<>>
  PROVE  /\ Due(1) \in Nat /\ value \in Nat /\ elapsed \in Nat
         /\ Due(1) <= value + elapsed + 1
         /\ value > 0 => value + elapsed <= Due(1) + 1
         /\ Overrun = IF elapsed > Due(1) THEN elapsed - Due(1) ELSE 0
         /\ \A k \in 1..Len(active) : Due(k) \in Nat
<1>1. /\ Len(active) \in Nat \ {0} /\ Due(1) = time[Head(active)]
      /\ \A k \in 0..Len(active) : Due(k) \in Nat
  BY ActiveFacts DEF TimerInv
<1>2. (\A k \in 1..Len(active) : k \in 0..Len(active)) /\ 1 \in 1..Len(active)
  BY <1>1
<1>3. Due(1) \in Nat /\ value \in Nat /\ elapsed \in Nat
  BY <1>1, <1>2 DEF TimerInv, HardwareOK
<1>4. Overrun = IF elapsed > Due(1) THEN elapsed - Due(1) ELSE 0
  BY <1>1, <1>3 DEF Overrun, Larger
<1> QED
  BY <1>1, <1>2, <1>3, <1>4 DEF TimerInv, Counts

\* A start moves no other deadline by more than a tick.
LEMMA StartMoves ==
  ASSUME TimerInv, NEW u \in Timer, NEW requested \in 0..MaxTicks, Start(u, requested),
         NEW t, In(t, active), In(t, active')
  PROVE  Near(Deadline(t), Deadline(t)')
<1> DEFINE ticks == Larger(requested, HAL_TIMER_LOAD_DELTA)
<1>1. /\ Starting(u, ticks)
      /\ StartFirst(u, ticks) \/ StartInFront(u, ticks) \/ StartBehind(u, ticks)
  BY Starts
<1> HIDE DEF ticks
<1>2. PICK k \in 1..Len(active) : active[k] = t
  BY DEF In
<1>3. active # <<>>
  BY <1>2
<1>4. Deadline(t) = Due(k) - elapsed /\ Due(k) \in Nat /\ elapsed \in Nat
  BY <1>2, <1>3, DeadlineIs, HeadFacts DEF TimerInv
<1>5. CASE StartInFront(u, ticks)
  <2>0. /\ TimerInv' /\ Inserted(active', 0, u, active) /\ elapsed' = 0 /\ value > ticks
        /\ \A i \in 1..Len(active) : Due(i + 1)' = value + (Due(i) - Due(1))
    BY <1>1, <1>5, InFrontStarted
  <2>1. /\ TimerInv' /\ Inserted(active', 0, u, active) /\ elapsed' = 0 /\ value > ticks
        /\ Due(k + 1)' = value + (Due(k) - Due(1)) /\ ticks \in Nat
    <3>1. ticks \in Nat
      BY <1>1, HwTimerAssumption DEF Starting
    <3> QED
      BY <1>2, <2>0, <3>1
  <2>2. k + 1 \in 1..Len(active') /\ active'[k + 1] = t
    BY <1>2, <2>1 DEF Inserted
  <2>3. Deadline(t)' = value + (Due(k) - Due(1))
    <3>1. Deadline(t)' = Due(k + 1)' - elapsed'
      BY <2>1, <2>2, DeadlineNext DEF TimerInv
    <3> QED
      BY <1>3, <1>4, <2>1, <3>1, HeadFacts
  <2> QED
    BY <1>3, <1>4, <2>1, <2>3, HeadFacts, SMTT(20) DEF Near
<1>6. CASE StartBehind(u, ticks)
  <2>1. TimerInv' /\ elapsed' = elapsed
    BY <1>1, <1>6, BehindStarted DEF hwVars
  <2>2. PICK p \in 1..Len(active) :
          /\ Inserted(active', p, u, active)
          /\ \A j \in 1..p : Due(j)' = Due(j)
          /\ \A j \in (p + 1)..Len(active) : Due(j + 1)' = Due(j)
    BY <1>1, <1>6, BehindStarted
  <2>3. Deadline(t)' = Due(k) - elapsed
    <3>1. CASE k <= p
      <4>1. k \in 1..p /\ k \in 1..Len(active')
        BY <1>2, <2>2, <3>1 DEF Inserted
      <4>2. active'[k] = t /\ Due(k)' = Due(k)
        BY <1>2, <2>2, <4>1 DEF Inserted
      <4> QED
        BY <2>1, <4>1, <4>2, DeadlineNext DEF TimerInv
    <3>2. CASE ~(k <= p)
      <4>1. k \in (p + 1)..Len(active) /\ k + 1 \in 1..Len(active')
        BY <1>2, <2>2, <3>2 DEF Inserted
      <4>2. active'[k + 1] = t /\ Due(k + 1)' = Due(k)
        BY <1>2, <2>2, <4>1 DEF Inserted
      <4>3. Deadline(t)' = Due(k + 1)' - elapsed'
        BY <2>1, <4>1, <4>2, DeadlineNext DEF TimerInv
      <4> QED
        BY <2>1, <4>2, <4>3
    <3> QED
      BY <3>1, <3>2
  <2> QED
    BY <1>4, <2>3 DEF Near
<1>7. ~StartFirst(u, ticks)
  BY <1>3 DEF StartFirst
<1> QED
  BY <1>1, <1>5, <1>6, <1>7

\* Nor does a stop, but for timers that are over: those stay over.
LEMMA StopMoves ==
  ASSUME TimerInv, NEW u \in Timer, Stop(u), NEW t, In(t, active), In(t, active')
  PROVE  Near(Deadline(t), Deadline(t)')
<1>1. Stopped(u) /\ UNCHANGED <<handler, last>>
  BY DEF Stop
<1>2. PICK k \in 1..Len(active) : active[k] = t
  BY DEF In
<1>3. active # <<>>
  BY <1>2
<1>4. Deadline(t) = Due(k) - elapsed /\ Due(k) \in Nat /\ elapsed \in Nat
  BY <1>2, <1>3, DeadlineIs, HeadFacts DEF TimerInv
<1>5. PICK j \in 1..Len(active') : active'[j] = t
  BY DEF In
<1>6. Once(active) /\ Len(active) \in Nat
  BY DEF TimerInv, ListsOK
<1>7. active' # <<>>
  BY <1>5
<1>8. CASE StopFirst(u)
  <2>1. /\ TimerInv' /\ Cut(active', 1, active) /\ elapsed' = 0 /\ value > 0
        /\ \A i \in 1..(Len(active) - 1) : Due(i)' = Due(i + 1) - (Due(1) - value)
    BY <1>1, <1>7, <1>8, FirstStopped
  <2>2. j \in 1..(Len(active) - 1) /\ active[1 + j] = t /\ 1 + j \in 1..Len(active)
    BY <1>5, <1>6, <2>1 DEF Cut
  <2>3. 1 + j = k
    BY <1>2, <1>6, <2>2 DEF Once
  <2>4. Deadline(t)' = Due(k) - (Due(1) - value)
    <3>1. Deadline(t)' = Due(j)' - elapsed'
      BY <1>5, <2>1, DeadlineNext DEF TimerInv
    <3>2. Due(j)' = Due(j + 1) - (Due(1) - value) /\ j + 1 = k
      BY <2>1, <2>2, <2>3
    <3> QED
      BY <1>3, <1>4, <2>1, <3>1, <3>2, HeadFacts
  <2> QED
    BY <1>3, <1>4, <2>1, <2>4, HeadFacts, SMTT(20) DEF Near
<1>9. CASE StopExpired(u)
  <2>1. /\ TimerInv' /\ Cut(active', 1, active) /\ elapsed' = 0 /\ value = 0
        /\ \A i \in 1..(Len(active) - 1) :
             IF Due(i + 1) <= Due(1) + Overrun THEN Due(i)' = 0
             ELSE Due(i)' = Due(i + 1) - (Due(1) + Overrun)
    BY <1>1, <1>7, <1>9, ExpiredStopped
  <2>2. j \in 1..(Len(active) - 1) /\ active[1 + j] = t /\ 1 + j \in 1..Len(active)
    BY <1>5, <1>6, <2>1 DEF Cut
  <2>3. 1 + j = k
    BY <1>2, <1>6, <2>2 DEF Once
  <2>4. Deadline(t)' = IF Due(k) <= Due(1) + Overrun THEN 0 ELSE Due(k) - (Due(1) + Overrun)
    <3>1. Deadline(t)' = Due(j)' - elapsed'
      BY <1>5, <2>1, DeadlineNext DEF TimerInv
    <3>2. j + 1 = k
      BY <2>2, <2>3
    <3>3. Overrun \in Nat /\ Due(1) \in Nat
      BY <1>3, HeadFacts
    <3>4. Due(j)' = IF Due(k) <= Due(1) + Overrun THEN 0 ELSE Due(k) - (Due(1) + Overrun)
      BY <2>1, <2>2, <3>2
    <3> QED
      BY <1>4, <2>1, <3>1, <3>3, <3>4
  <2> QED
    BY <1>3, <1>4, <2>1, <2>4, HeadFacts DEF Near
<1>10. CASE StopBehind(u)
  <2>1. TimerInv' /\ elapsed' = elapsed
    BY <1>1, <1>10, BehindStopped DEF hwVars
  <2>2. PICK i \in 2..Len(active) :
          /\ Without(active', i, active)
          /\ \A l \in 1..(i - 1) : Due(l)' = Due(l)
          /\ \A l \in (i + 1)..Len(active) : Due(l - 1)' = Due(l)
    BY <1>1, <1>10, BehindStopped
  <2>3. Deadline(t)' = Due(j)' - elapsed
    BY <1>5, <2>1, DeadlineNext DEF TimerInv
  <2>4. Due(j)' = Due(k)
    <3>1. CASE j < i
      <4>1. j \in 1..(i - 1) /\ j \in 1..Len(active)
        BY <1>5, <1>6, <3>1
      <4>2. active[j] = t
        BY <1>5, <2>2, <4>1 DEF Without
      <4>3. j = k
        BY <1>2, <1>6, <4>1, <4>2 DEF Once
      <4> QED
        BY <2>2, <4>1, <4>3
    <3>2. CASE ~(j < i)
      <4>1. j + 1 \in (i + 1)..Len(active) /\ j + 1 \in 1..Len(active) /\ (j + 1) - 1 = j
        BY <1>5, <1>6, <2>2, <3>2 DEF Without
      <4>2. active[j + 1] = t
        BY <1>5, <2>2, <4>1 DEF Without
      <4>3. j + 1 = k
        BY <1>2, <1>6, <4>1, <4>2 DEF Once
      <4>4. Due((j + 1) - 1)' = Due(j + 1)
        BY <2>2, <4>1
      <4> QED
        BY <4>1, <4>3, <4>4
    <3> QED
      BY <3>1, <3>2
  <2> QED
    BY <1>4, <2>3, <2>4 DEF Near
<1>11. CASE StopFired(u)
  <2>1. TimerInv' /\ active' = active /\ time' = time /\ elapsed' = elapsed
    BY <1>1, <1>11, FiredStopped DEF StopFired, hwVars
  <2>2. Deadline(t)' = Due(k)' - elapsed
    BY <1>2, <2>1, DeadlineNext DEF TimerInv
  <2>3. Due(k)' = Due(k)
    BY <2>1 DEF Due
  <2> QED
    BY <1>4, <2>2, <2>3 DEF Near
<1> QED
  BY <1>8, <1>9, <1>10, <1>11 DEF Stop

\* The handler takes the timers that are over and moves the rest by a tick at most.
LEMMA FireMoves ==
  ASSUME TimerInv, Fire, NEW t, In(t, active)
  PROVE  /\ In(t, active') => Near(Deadline(t), Deadline(t)') /\ Deadline(t) > 0
         /\ ~In(t, active') => Deadline(t) <= 1
<1>1. /\ TimerInv' /\ active # <<>> /\ ~Early /\ (active' # <<>> => elapsed' = 0)
  BY Fired
<1>2. PICK p \in 1..Len(active) :
        /\ Cut(active', p, active)
        /\ \A k \in 1..(Len(active) - 1) : Due(k + 1) - Due(1) <= Overrun <=> k <= p - 1
        /\ \A k \in 1..(Len(active) - p) : Due(k)' = Due(p + k) - (Due(1) + Overrun)
  BY Fired
<1>3. PICK k \in 1..Len(active) : active[k] = t
  BY DEF In
<1>4. Deadline(t) = Due(k) - elapsed /\ Due(k) \in Nat /\ elapsed \in Nat
  BY <1>1, <1>3, DeadlineIs, HeadFacts DEF TimerInv
<1>5. Once(active) /\ Len(active) \in Nat
  BY DEF TimerInv, ListsOK
<1>6. Due(1) <= elapsed + 1
  <2>1. Due(1) = time[Head(active)]
    BY <1>1, ActiveFacts DEF TimerInv
  <2> QED
    BY <1>1, <1>4, <2>1, HeadFacts DEF Early, HAL_TIMER_LOAD_DELTA
<1>7. /\ Overrun \in Nat /\ Due(1) \in Nat
      /\ Due(1) + Overrun >= elapsed /\ Due(1) + Overrun <= elapsed + 1
  BY <1>1, <1>4, <1>6, HeadFacts, SMTT(20)
<1>8. Due(k) - Due(1) <= Overrun <=> k <= p
  <2>1. CASE k = 1
    BY <1>7, <2>1
  <2>2. CASE k # 1
    <3>1. k - 1 \in 1..(Len(active) - 1) /\ (k - 1) + 1 = k
      BY <1>5, <2>2
    <3>2. Due((k - 1) + 1) - Due(1) <= Overrun <=> k - 1 <= p - 1
      BY <1>2, <3>1
    <3> QED
      BY <3>1, <3>2
  <2> QED
    BY <2>1, <2>2
<1>9. ASSUME In(t, active') PROVE Near(Deadline(t), Deadline(t)') /\ Deadline(t) > 0
  <2>1. PICK j \in 1..Len(active') : active'[j] = t
    BY <1>9 DEF In
  <2>2. j \in 1..(Len(active) - p) /\ active[p + j] = t /\ p + j \in 1..Len(active)
    BY <1>2, <1>5, <2>1 DEF Cut
  <2>3. p + j = k
    BY <1>3, <1>5, <2>2 DEF Once
  <2>4. Deadline(t)' = Due(k) - (Due(1) + Overrun)
    <3>1. Deadline(t)' = Due(j)' - elapsed' /\ elapsed' = 0
      BY <1>1, <2>1, DeadlineNext DEF TimerInv
    <3>2. Due(j)' = Due(k) - (Due(1) + Overrun)
      BY <1>2, <2>2, <2>3
    <3> QED
      BY <1>4, <1>7, <3>1, <3>2
  <2>5. Due(k) - Due(1) > Overrun
    BY <1>4, <1>7, <1>8, <2>2, <2>3
  <2>6. Deadline(t) > 0
    BY <1>4, <1>7, <2>5
  <2>7. Deadline(t)' - Deadline(t) \in -1..1
    BY <1>4, <1>7, <2>4, SMTT(20)
  <2> QED
    BY <2>6, <2>7 DEF Near
<1>10. ASSUME ~In(t, active') PROVE Deadline(t) <= 1
  <2>1. k <= p
    <3> SUFFICES ASSUME ~(k <= p) PROVE FALSE
      OBVIOUS
    <3>1. k - p \in 1..(Len(active) - p) /\ p + (k - p) = k
      BY <1>5
    <3>2. k - p \in 1..Len(active') /\ active'[k - p] = t
      BY <1>2, <1>3, <3>1 DEF Cut
    <3> QED
      BY <1>10, <3>2 DEF In
  <2> QED
    BY <1>4, <1>7, <1>8, <2>1
<1> QED
  BY <1>9, <1>10

-----------------------------------------------------------------------------
(***************************************************************************)
(* What a new timer is due in.                                             *)
(***************************************************************************)
Waited == IF active # <<>> /\ value = 0 THEN Overrun ELSE 0

\* A new timer is due when asked, less what an expired one has waited.
LEMMA StartDue ==
  ASSUME TimerInv, NEW t \in Timer, NEW ticks \in 1..MaxTicks, Start(t, ticks)
  PROVE  Deadline(t)' - (ticks - Waited) \in -1..1
<1>1. /\ Starting(t, ticks) /\ ticks \in Nat
      /\ StartFirst(t, ticks) \/ StartInFront(t, ticks) \/ StartBehind(t, ticks)
  <2>1. ticks \in 0..MaxTicks /\ ticks \in Nat
    BY HwTimerAssumption
  <2> QED
    BY <2>1, Starts
<1>2. CASE StartFirst(t, ticks)
  <2>1. TimerInv' /\ active' = <<t>> /\ Due(1)' = ticks /\ elapsed' = 0 /\ active = <<>>
    BY <1>1, <1>2, FirstStarted DEF StartFirst
  <2>2. 1 \in 1..Len(active') /\ active'[1] = t
    BY <2>1
  <2>3. Deadline(t)' = Due(1)' - elapsed'
    BY <2>1, <2>2, DeadlineNext DEF TimerInv
  <2>4. Waited = 0
    BY <2>1 DEF Waited
  <2> QED
    BY <1>1, <2>1, <2>3, <2>4
<1>3. CASE StartInFront(t, ticks)
  <2>1. /\ TimerInv' /\ Inserted(active', 0, t, active) /\ elapsed' = 0 /\ Due(1)' = ticks
        /\ active # <<>> /\ value > ticks
    BY <1>1, <1>3, InFrontStarted
  <2>2. 1 \in 1..Len(active') /\ active'[1] = t
    <3>1. Len(active) \in Nat
      BY DEF TimerInv, ListsOK
    <3> QED
      BY <2>1, <3>1 DEF Inserted
  <2>3. Deadline(t)' = Due(1)' - elapsed'
    BY <2>1, <2>2, DeadlineNext DEF TimerInv
  <2>4. Waited = 0
    BY <1>1, <2>1 DEF Waited
  <2> QED
    BY <1>1, <2>1, <2>3, <2>4
<1>4. CASE StartBehind(t, ticks)
  <2>1. TimerInv' /\ active # <<>> /\ value <= ticks /\ elapsed' = elapsed
    BY <1>1, <1>4, BehindStarted DEF hwVars
  <2>2. PICK p \in 1..Len(active) :
          Inserted(active', p, t, active) /\ Due(p + 1)' = Due(1) + ticks - value
    BY <1>1, <1>4, BehindStarted
  <2>3. p + 1 \in 1..Len(active') /\ active'[p + 1] = t
    <3>1. Len(active) \in Nat
      BY DEF TimerInv, ListsOK
    <3> QED
      BY <2>2, <3>1 DEF Inserted
  <2>4. Deadline(t)' = Due(p + 1)' - elapsed
    BY <2>1, <2>3, DeadlineNext DEF TimerInv
  <2>5. /\ Due(1) \in Nat /\ value \in Nat /\ elapsed \in Nat
        /\ Due(1) <= value + elapsed + 1
        /\ value > 0 => value + elapsed <= Due(1) + 1
        /\ Overrun = IF elapsed > Due(1) THEN elapsed - Due(1) ELSE 0
    BY <2>1, HeadFacts
  <2>6. Deadline(t)' - ticks = Due(1) - value - elapsed /\ Deadline(t)' \in Int
    BY <1>1, <2>2, <2>4, <2>5
  <2>7. CASE value = 0
    <3>1. Waited = Overrun
      BY <2>1, <2>7 DEF Waited
    <3>2. Overrun \in Nat /\ Due(1) - elapsed + Overrun \in -1..1
      BY <2>5, <2>7
    <3> QED
      BY <1>1, <2>5, <2>6, <2>7, <3>1, <3>2, SMTT(20)
  <2>8. CASE value > 0
    <3>1. Waited = 0
      BY <2>5, <2>8 DEF Waited
    <3> QED
      BY <1>1, <2>5, <2>6, <2>8, <3>1, SMTT(20)
  <2> QED
    BY <2>5, <2>7, <2>8
<1> QED
  BY <1>1, <1>2, <1>3, <1>4

(***************************************************************************)
(* With the lists and the times as they are, a deadline only moves with    *)
(* the clock.                                                              *)
(***************************************************************************)
LEMMA DeadlineStays ==
  ASSUME TimerInv, UNCHANGED <<active, time>>, NEW t, In(t, active)
  PROVE  /\ Deadline(t) \in Int
         /\ elapsed' = elapsed => Deadline(t)' = Deadline(t)
         /\ elapsed' = elapsed + 1 => Deadline(t)' = Deadline(t) - 1
<1>1. PICK k \in 1..Len(active) : active[k] = t
  BY DEF In
<1>2. active # <<>>
  BY <1>1
<1>3. Deadline(t) = Due(k) - elapsed /\ Due(k) \in Nat /\ elapsed \in Nat
  BY <1>1, <1>2, DeadlineIs, HeadFacts DEF TimerInv
<1>4. Places(active', t) # {} /\ Min(Places(active', t)) = k
  BY <1>1, Found DEF TimerInv, ListsOK
<1>5. Deadline(t)' = Sums([i \in DOMAIN active' |-> time'[active'[i]]])[k] - elapsed'
  BY <1>4 DEF Deadline, SelectInSeq, Places, Offset, Times
<1>6. Deadline(t)' = Due(k) - elapsed'
  BY <1>5 DEF Due, Dues
<1> QED
  BY <1>3, <1>6

\* A tick brings every deadline a tick nearer.
LEMMA TickMoves ==
  ASSUME TimerInv, Tick, NEW t, In(t, active)
  PROVE  Near(Deadline(t) - 1, Deadline(t)')
<1>1. UNCHANGED <<active, time>> /\ elapsed' = IF en THEN elapsed + 1 ELSE elapsed
  BY DEF Tick, TimerTick, listVars
<1>2. active # <<>>
  BY DEF In
<1>3. en
  BY <1>2 DEF TimerInv, Armed
<1> QED
  BY <1>1, <1>3, DeadlineStays DEF Near

(***************************************************************************)
(* Every other step: a deadline stays where it is, or moves by a tick.     *)
(***************************************************************************)
LEMMA StepMoves ==
  ASSUME TimerInv, Next, ~Tick, NEW t, In(t, active), In(t, active')
  PROVE  Near(Deadline(t), Deadline(t)')
<1>1. ASSUME UNCHANGED <<active, time, elapsed>> PROVE Near(Deadline(t), Deadline(t)')
  BY <1>1, DeadlineStays DEF Near
<1>2. ASSUME NEW u \in Timer, Alloc(u) \/ Free(u) PROVE UNCHANGED <<active, time, elapsed>>
  BY <1>2 DEF Alloc, Free, hwVars
<1>3. CASE IrqEnter
  BY <1>1, <1>3 DEF IrqEnter, TimerIrqTaken
<1>4. CASE HandleNothing
  BY <1>1, <1>4 DEF HandleNothing, hwVars
<1>5. CASE CallbackReturns
  BY <1>1, <1>5 DEF CallbackReturns, hwVars
<1> QED
  BY <1>1, <1>2, <1>3, <1>4, <1>5, StartMoves, StopMoves, FireMoves DEF Next, Client, Handler

(***************************************************************************)
(* DeadlineKept: whatever is done to other timers, a started timer stays   *)
(* due when it was, give or take a tick of the hardware's load.            *)
(***************************************************************************)
THEOREM DeadlineTheorem == Spec => DeadlineKept
<1> DEFINE Step ==
      /\ \A t \in ToSet(active) \cap ToSet(active') :
           LET before == IF Tick THEN Deadline(t) - 1 ELSE Deadline(t)
           IN  \/ Deadline(t)' - before \in -1..1
               \/ before <= 0 /\ Deadline(t)' <= 0
      /\ \A t \in Timer, ticks \in 1..MaxTicks :
           Start(t, ticks) =>
             LET waited == IF active # <<>> /\ value = 0 THEN Overrun ELSE 0
             IN  Deadline(t)' - (ticks - waited) \in -1..1
<1>1. TimerInv /\ [Next]_vars => [Step]_vars
  <2> SUFFICES ASSUME TimerInv, Next PROVE Step
    OBVIOUS
  <2>1. TimerInv'
    BY TimerNext
  <2>2. ASSUME NEW t \in ToSet(active) \cap ToSet(active')
        PROVE  LET before == IF Tick THEN Deadline(t) - 1 ELSE Deadline(t)
               IN  Near(before, Deadline(t)')
    <3>1. In(t, active) /\ In(t, active')
      BY <2>1, <2>2, SetIs DEF TimerInv, ListsOK
    <3>2. CASE Tick
      BY <3>1, <3>2, TickMoves
    <3>3. CASE ~Tick
      BY <3>1, <3>3, StepMoves
    <3> QED
      BY <3>2, <3>3
  <2>3. ASSUME NEW t \in Timer, NEW ticks \in 1..MaxTicks, Start(t, ticks)
        PROVE  Deadline(t)' - (ticks - Waited) \in -1..1
    BY <2>3, StartDue
  <2> QED
    BY <2>2, <2>3 DEF Near, Waited
<1> QED
  BY <1>1, TimerInvariant, PTL DEF Spec, DeadlineKept

(***************************************************************************)
(* FiresWhenDue: the handler fires the timers that are over, but for the   *)
(* tick of the load, and no other.                                         *)
(***************************************************************************)
THEOREM FiresTheorem == Spec => FiresWhenDue
<1> DEFINE Step ==
      Fire => \A t \in ToSet(active) :
        IF t \in ToSet(active') THEN Deadline(t) > 0
        ELSE Deadline(t) <= HAL_TIMER_LOAD_DELTA
<1>1. TimerInv /\ [Next]_vars => [Step]_vars
  <2> SUFFICES ASSUME TimerInv, Next, Fire, NEW t \in ToSet(active)
               PROVE  IF t \in ToSet(active') THEN Deadline(t) > 0
                      ELSE Deadline(t) <= HAL_TIMER_LOAD_DELTA
    OBVIOUS
  <2>1. TimerInv'
    BY TimerNext
  <2>2. In(t, active) /\ (t \in ToSet(active') <=> In(t, active'))
    BY <2>1, SetIs DEF TimerInv, ListsOK
  <2> QED
    BY <2>2, FireMoves DEF HAL_TIMER_LOAD_DELTA
<1> QED
  BY <1>1, TimerInvariant, PTL DEF Spec, FiresWhenDue

=============================================================================
