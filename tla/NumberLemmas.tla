----------------------------- MODULE NumberLemmas -----------------------------
(***************************************************************************)
(* Facts about numbers that the proofs about several components rest on:   *)
(* least and greatest elements, and millis(), a counter that wraps.        *)
(***************************************************************************)
EXTENDS Integers, FiniteSetTheorems, WellFoundedInduction, TLAPS

\* A set of numbers has a least one.
LEMMA LeastNumber ==
  ASSUME NEW T, T \subseteq Nat, T # {}
  PROVE  \E k \in T : \A j \in T : k <= j
<1>1. PICK m \in T : TRUE
  OBVIOUS
<1> DEFINE Below == {k \in T : k <= m}
           U == {0..k : k \in Below}
<1>2. IsFiniteSet(0..m) /\ m \in Nat
  BY <1>1, FS_Interval
<1>3. IsWellFoundedOn(StrictSubsetOrdering(0..m), SUBSET (0..m))
  BY <1>2, FS_StrictSubsetOrderingWellFounded, FS_FiniteSubsetsOfFinite
<1>4. U \subseteq SUBSET (0..m) /\ U # {}
  <2>1. \A k \in Below : 0..k \subseteq 0..m
    BY <1>2
  <2>2. m \in Below
    BY <1>2
  <2>3. QED
    BY <2>1, <2>2
<1>5. PICK X \in U : \A Y \in U : ~ (<<Y, X>> \in StrictSubsetOrdering(0..m))
  <2> HIDE DEF U
  <2>1. QED
    BY <1>3, <1>4, WFMin
<1>6. PICK k \in Below : X = 0..k
  OBVIOUS
<1>7. ASSUME NEW j \in T, j < k PROVE FALSE
  <2>1. j \in Below /\ k \in Nat /\ j \in Nat
    <3>1. k \in T /\ k <= m
      OBVIOUS
    <3>2. k \in Nat /\ j \in Nat
      BY <3>1
    <3>3. j <= m
      BY <1>2, <1>7, <3>1, <3>2
    <3>4. QED
      BY <3>2, <3>3
  <2>2. 0..j \in U /\ 0..j \subseteq 0..m /\ X \subseteq 0..m
    BY <1>4, <2>1
  <2>3. 0..j \subseteq X /\ 0..j # X
    <3>1. k \in 0..k /\ k \notin 0..j
      BY <1>7, <2>1
    <3>2. QED
      BY <1>6, <1>7, <2>1, <3>1
  <2>4. <<0..j, X>> \in StrictSubsetOrdering(0..m)
    BY <2>2, <2>3 DEF StrictSubsetOrdering
  <2>5. QED
    BY <1>5, <2>2, <2>4
<1>8. k \in T /\ \A j \in T : k <= j
  BY <1>6, <1>7
<1>9. QED
  BY <1>8

\* A set of numbers with a bound has a greatest one.
LEMMA GreatestNumber ==
  ASSUME NEW n \in Nat, NEW T, T \subseteq 0..n, T # {}
  PROVE  \E k \in T : \A j \in T : j <= k
<1> DEFINE U == {n - k : k \in T}
<1>1. U \subseteq Nat /\ U # {}
  <2>1. \A k \in T : n - k \in Nat
    OBVIOUS
  <2>2. QED
    BY <2>1
<1>2. PICK u \in U : \A v \in U : u <= v
  <2> HIDE DEF U
  <2>1. QED
    BY <1>1, LeastNumber
<1>3. PICK k \in T : u = n - k
  OBVIOUS
<1>4. ASSUME NEW j \in T PROVE j <= k
  <2>1. n - j \in U /\ j \in Nat /\ k \in Nat
    BY <1>4
  <2>2. n - k <= n - j
    BY <1>2, <1>3, <2>1
  <2>3. QED
    BY <2>1, <2>2
<1>5. QED
  BY <1>4

\* A time planned less than a turn ahead lies that far ahead.
LEMMA PlannedAhead ==
  ASSUME NEW w \in Nat \ {0}, NEW t \in 0..w - 1, NEW n \in 0..w - 1
  PROVE  (((t + n) % w) - t) % w = n
<1>1. CASE t + n < w
  <2>1. (t + n) % w = t + n
    BY <1>1
  <2>2. t + n - t = n /\ n % w = n
    OBVIOUS
  <2>3. QED
    BY <2>1, <2>2
<1>2. CASE t + n >= w
  <2>1. (t + n) % w = t + n - w
    BY <1>2
  <2>2. (n - w) % w = n - w + w
    OBVIOUS
  <2>3. t + n - w - t = n - w
    OBVIOUS
  <2>4. QED
    BY <2>1, <2>2, <2>3
<1>3. QED
  BY <1>1, <1>2

\* As time passes, a planned time comes nearer.
LEMMA PlannedNearer ==
  ASSUME NEW w \in Nat \ {0}, NEW t \in 0..w - 1, NEW target \in 0..w - 1,
         NEW d \in Nat, d <= (target - t) % w
  PROVE  (target - ((t + d) % w)) % w = ((target - t) % w) - d
<1> DEFINE k == (target - t) % w
<1>1. k \in 0..w - 1 /\ d < w
  OBVIOUS
<1>2. CASE target >= t
  <2>1. k = target - t
    BY <1>2
  <2>2. t + d <= target /\ t + d < w
    BY <2>1
  <2>3. (t + d) % w = t + d
    BY <2>2
  <2>4. (target - (t + d)) % w = target - (t + d)
    BY <2>2
  <2>5. QED
    BY <2>1, <2>3, <2>4
<1>3. CASE target < t
  <2>1. k = target - t + w
    BY <1>3
  <2>2. t + d <= target + w
    BY <2>1
  <2>3. CASE t + d < w
    <3>1. (t + d) % w = t + d
      BY <2>3
    <3>2. (target - (t + d)) % w = target - (t + d) + w
      BY <1>3, <2>3
    <3>3. QED
      BY <2>1, <3>1, <3>2
  <2>4. CASE t + d >= w
    <3>1. (t + d) % w = t + d - w
      BY <1>1, <2>4
    <3>2. (target - (t + d - w)) % w = target - (t + d - w)
      BY <1>1, <2>2, <2>4
    <3>3. QED
      BY <2>1, <3>1, <3>2
  <2>5. QED
    BY <2>3, <2>4
<1>4. QED
  BY <1>2, <1>3

\* The way back is the rest of the turn.
LEMMA WayBack ==
  ASSUME NEW w \in Nat \ {0}, NEW t \in 0..w - 1, NEW target \in 0..w - 1,
         (target - t) % w # 0
  PROVE  (t - target) % w = w - ((target - t) % w)
<1>1. CASE target > t
  <2>1. (target - t) % w = target - t /\ (t - target) % w = t - target + w
    BY <1>1
  <2>2. QED
    BY <2>1
<1>2. CASE target < t
  <2>1. (target - t) % w = target - t + w /\ (t - target) % w = t - target
    BY <1>2
  <2>2. QED
    BY <2>1
<1>3. CASE target = t
  <2>1. (target - t) % w = 0
    BY <1>3
  <2>2. QED
    BY <2>1
<1>4. QED
  BY <1>1, <1>2, <1>3

\* Once it is past, the time since then is what has passed beyond the way to it.
LEMMA PlannedPast ==
  ASSUME NEW w \in Nat \ {0}, NEW t \in 0..w - 1, NEW target \in 0..w - 1,
         NEW d \in 0..w - 1, (target - t) % w <= d
  PROVE  (((t + d) % w) - target) % w = d - ((target - t) % w)
<1> DEFINE k == (target - t) % w
<1>1. k \in 0..w - 1
  OBVIOUS
<1>2. CASE target >= t
  <2>1. k = target - t /\ t + d >= target
    BY <1>2
  <2>2. CASE t + d < w
    <3>1. (t + d) % w = t + d /\ (t + d - target) % w = t + d - target
      BY <2>1, <2>2
    <3>2. QED
      BY <2>1, <3>1
  <2>3. CASE t + d >= w
    <3>1. (t + d) % w = t + d - w /\ t + d - w < target
      BY <1>2, <2>3
    <3>2. (t + d - w - target) % w = t + d - w - target + w
      BY <2>1, <2>3, <3>1
    <3>3. QED
      BY <2>1, <3>1, <3>2
  <2>4. QED
    BY <2>2, <2>3
<1>3. CASE target < t
  <2>1. k = target - t + w /\ t + d >= target + w
    BY <1>3
  <2>2. (t + d) % w = t + d - w
    BY <2>1
  <2>3. (t + d - w - target) % w = t + d - w - target
    BY <2>1
  <2>4. QED
    BY <2>1, <2>2, <2>3
<1>4. QED
  BY <1>2, <1>3

\* Two stretches of time one after the other are one of their sum.
LEMMA TimeAdds ==
  ASSUME NEW w \in Nat \ {0}, NEW t \in 0..w - 1, NEW u \in 0..w - 1, NEW d \in Nat,
         ((u - t) % w) + d < w
  PROVE  (u + d) % w = (t + (((u - t) % w) + d)) % w
<1>1. CASE u >= t
  BY <1>1
<1>2. CASE u < t
  <2>1. (u - t) % w = u - t + w
    BY <1>2
  <2>2. t + (u - t + w + d) = u + d + w
    OBVIOUS
  <2>3. u + d < w
    BY <1>2, <2>1
  <2>4. (u + d) % w = u + d
    BY <2>3
  <2>5. (u + d + w) % w = u + d
    BY <2>3
  <2>6. QED
    BY <2>1, <2>2, <2>4, <2>5
<1>3. QED
  BY <1>1, <1>2

\* Durations add up, if they do not go once round together.
LEMMA DurationsAdd ==
  ASSUME NEW w \in Nat \ {0}, NEW t \in 0..w - 1, NEW a \in Nat, NEW b \in Nat, a + b < w
  PROVE  (((t + a) % w) + b) % w = (t + (a + b)) % w
<1>1. CASE t + a < w
  <2>1. (t + a) % w = t + a /\ t + a + b = t + (a + b)
    BY <1>1
  <2>2. QED
    BY <2>1
<1>2. CASE t + a >= w
  <2>1. (t + a) % w = t + a - w /\ t + a - w + b \in 0..w - 1
    BY <1>2
  <2>2. t + (a + b) = (t + a - w + b) + w
    OBVIOUS
  <2>3. (t + (a + b)) % w = t + a - w + b /\ (t + a - w + b) % w = t + a - w + b
    BY <2>1, <2>2
  <2>4. QED
    BY <2>1, <2>3
<1>3. QED
  BY <1>1, <1>2

\* A moment k away is k - d away when d has passed.
LEMMA OffsetMoves ==
  ASSUME NEW w \in Nat \ {0}, NEW t \in 0..w - 1, NEW d \in Nat, 2 * d <= w,
         NEW k \in Int, -w < 2 * k, k < w
  PROVE  (((t + d) % w) + (k - d)) % w = (t + k) % w
<1>1. CASE t + d < w
  <2>1. (t + d) % w = t + d /\ t + d + (k - d) = t + k
    BY <1>1
  <2>2. QED
    BY <2>1
<1>2. CASE t + d >= w
  <2>1. (t + d) % w = t + d - w /\ t + d - w + (k - d) = t + k - w
    BY <1>2
  <2>2. t + k > 0 /\ t + k < 2 * w
    BY <1>2
  <2>3. CASE t + k < w
    <3>1. (t + k) % w = t + k /\ (t + k - w) % w = t + k - w + w
      BY <2>2, <2>3
    <3>2. QED
      BY <2>1, <3>1
  <2>4. CASE t + k >= w
    <3>1. (t + k) % w = t + k - w /\ (t + k - w) % w = t + k - w
      BY <2>2, <2>4
    <3>2. QED
      BY <2>1, <3>1
  <2>5. QED
    BY <2>2, <2>3, <2>4
<1>3. QED
  BY <1>1, <1>2

\* A moment less than a turn ago is that long ago.
LEMMA OffsetPast ==
  ASSUME NEW w \in Nat \ {0}, NEW t \in 0..w - 1, NEW k \in Nat, k < w
  PROVE  (t - ((t - k) % w)) % w = k
<1>1. CASE t >= k
  <2>1. (t - k) % w = t - k /\ t - (t - k) = k
    BY <1>1
  <2>2. k % w = k
    OBVIOUS
  <2>3. QED
    BY <2>1, <2>2
<1>2. CASE t < k
  <2>1. (t - k) % w = t - k + w /\ t - (t - k + w) = k - w
    BY <1>2
  <2>2. (k - w) % w = k - w + w
    OBVIOUS
  <2>3. QED
    BY <2>1, <2>2
<1>3. QED
  BY <1>1, <1>2
=============================================================================
