--------------------------- MODULE PsnArithProofs ---------------------------
(***************************************************************************)
(* The arithmetic of PsnArith is exact as long as the cursors are less     *)
(* than one round of the ring apart, for every size of the ring and every  *)
(* width of the PSNs.                                                      *)
(***************************************************************************)
EXTENDS PsnArith, TLAPS

\* A remainder is known by the multiple it is added to.
LEMMA ModUnique ==
    ASSUME NEW m \in Nat \ {0}, NEW q \in Int, NEW s \in 0 .. m - 1
    PROVE  (q * m + s) % m = s
OBVIOUS

\* Every number is a multiple and a remainder.
LEMMA ModSplit ==
    ASSUME NEW m \in Nat \ {0}, NEW x \in Nat
    PROVE  /\ x \div m \in Nat
           /\ x % m \in 0 .. m - 1
           /\ x = (x \div m) * m + (x % m)
OBVIOUS

\* The remainder of a sum that is at most one round further.
LEMMA ModStep ==
    ASSUME NEW m \in Nat \ {0}, NEW x \in Nat, NEW i \in 0 .. m
    PROVE  (x + i) % m = IF (x % m) + i < m THEN (x % m) + i ELSE (x % m) + i - m
<1> DEFINE q == x \div m
           s == x % m
<1>1. q \in Nat /\ s \in 0 .. m - 1 /\ x = q * m + s
  BY ModSplit
<1> HIDE DEF q, s
<1>2. CASE s + i < m
  <2>1. s + i \in 0 .. m - 1
    BY <1>1, <1>2
  <2>2. x + i = q * m + (s + i)
    BY <1>1
  <2>3. q \in Int
    BY <1>1
  <2>4. (q * m + (s + i)) % m = s + i
    BY <2>1, <2>3, ModUnique
  <2> QED
    BY <2>2, <2>4, <1>2 DEF s
<1>3. CASE s + i >= m
  <2>1. s + i - m \in 0 .. m - 1
    BY <1>1, <1>3
  <2>2. x + i = (q + 1) * m + (s + i - m)
    BY <1>1
  <2>3. q + 1 \in Int
    BY <1>1
  <2>4. ((q + 1) * m + (s + i - m)) % m = s + i - m
    BY <2>1, <2>3, ModUnique
  <2> QED
    BY <2>2, <2>4, <1>3 DEF s
<1> QED
  BY <1>1, <1>2, <1>3

\* The slot address is in the low bits of the register.
LEMMA LowOfWrapped ==
    ASSUME NEW n \in Nat \ {0}, NEW k \in Nat \ {0}, NEW x \in Nat
    PROVE  Wrapped(n, k, x) % n = x % n
<1> DEFINE H == n * k
           q == x \div H
           s == x % H
           b == s \div n
           t == s % n
<1>1. H \in Nat \ {0}
  OBVIOUS
<1>2. q \in Nat /\ s \in 0 .. H - 1 /\ x = q * H + s
  BY <1>1, ModSplit
<1>3. s \in Nat
  BY <1>2, <1>1
<1>4. b \in Nat /\ t \in 0 .. n - 1 /\ s = b * n + t
  BY <1>3, ModSplit
<1> HIDE DEF q, s, b, t
<1>5. x = (q * k + b) * n + t
  BY <1>2, <1>4
<1>6. q * k + b \in Int
  BY <1>2, <1>4
<1>7. ((q * k + b) * n + t) % n = t
  BY <1>4, <1>6, ModUnique
<1> QED
  BY <1>5, <1>7 DEF Wrapped, s, t

\* Where the PSNs wrap the slot addresses wrap, too.
LEMMA WrapsTogether ==
    ASSUME NEW n \in Nat \ {0}, NEW k \in Nat \ {0}, NEW x \in Nat,
           NEW d \in 0 .. n - 1,
           Wrapped(n, k, x) + d >= n * k
    PROVE  (x % n) + d >= n
<1> DEFINE s == Wrapped(n, k, x)
           b == s \div n
           t == s % n
<1>1. n * k \in Nat \ {0}
  OBVIOUS
<1>2. s \in 0 .. n * k - 1
  BY <1>1, ModSplit DEF Wrapped
<1>3. s \in Nat
  BY <1>1, <1>2
<1>4. b \in Nat /\ t \in 0 .. n - 1 /\ s = b * n + t
  BY <1>3, ModSplit
<1>5. t = x % n
  BY LowOfWrapped
<1>6. s + d >= n * k
  OBVIOUS
<1> HIDE DEF s, b, t
<1>7. b < k
  <2>1. b * n < k * n
    BY <1>2, <1>4
  <2> QED
    BY <2>1, <1>4
<1>8. (b + 1) * n <= n * k
  BY <1>7, <1>4
<1>9. b * n + t + d >= (b + 1) * n
  BY <1>8, <1>6, <1>4
<1>10. t + d >= n
  BY <1>9, <1>4
<1> QED
  BY <1>10, <1>5
-----------------------------------------------------------------------------
\* The cursors' registers are as far apart as the cursors.
THEOREM DistanceExact ==
    ASSUME NEW n \in Nat \ {0}, NEW k \in Nat \ {0}, NEW r \in Nat,
           NEW d \in 0 .. n - 1
    PROVE  Distance(n, Wrapped(n, k, r + d), Wrapped(n, k, r)) = d
<1> DEFINE W == Wrapped(n, k, r + d)
           R == Wrapped(n, k, r)
<1>1. n * k \in Nat \ {0} /\ n <= n * k
  OBVIOUS
<1>2. d \in 0 .. n * k /\ d \in 0 .. n /\ r + d \in Nat
  BY <1>1
<1>3. R \in 0 .. n * k - 1
  BY <1>1, ModSplit DEF Wrapped
<1>4. W = IF R + d < n * k THEN R + d ELSE R + d - n * k
  BY <1>1, <1>2, ModStep DEF Wrapped
<1>5. W % n = (r + d) % n /\ R % n = r % n
  BY <1>2, LowOfWrapped
<1>6. (r + d) % n = IF (r % n) + d < n THEN (r % n) + d ELSE (r % n) + d - n
  BY <1>2, ModStep
<1>7. r % n \in 0 .. n - 1
  BY ModSplit
<1>8. R + d >= n * k => (r % n) + d >= n
  BY WrapsTogether
<1> HIDE DEF W, R
<1> DEFINE t == r % n
<1>9. Distance(n, W, R) = d
  <2>1. t \in 0 .. n - 1 /\ R % n = t
    BY <1>5, <1>7
  <2> HIDE DEF t
  <2>2. CASE t + d < n
    <3>1. W % n = t + d
      BY <2>2, <1>5, <1>6 DEF t
    <3>2. W = R + d
      <4>1. ~ (R + d >= n * k)
        BY <2>1, <2>2, <1>8 DEF t
      <4> QED
        BY <4>1, <1>1, <1>3, <1>4
    <3> QED
      BY <3>1, <3>2, <2>1, <1>1, <1>3 DEF Distance
  <2>3. CASE t + d >= n
    <3>1. W % n = t + d - n
      BY <2>1, <2>3, <1>5, <1>6 DEF t
    <3> QED
      BY <3>1, <2>1 DEF Distance
  <2> QED
    BY <2>1, <2>2, <2>3
<1> QED
  BY <1>9 DEF W, R

\* The comparisons of tx_checkResponce take exactly the answers to the PSNs
\* from r up to w, and an answer to r itself.
THEOREM WindowExact ==
    ASSUME NEW n \in Nat \ {0}, NEW k \in Nat \ {0}, NEW r \in Nat,
           NEW w \in Nat, r <= w, w - r < n, NEW p \in 0 .. n * k - 1
    PROVE  InWindow(n, p, Wrapped(n, k, w), Wrapped(n, k, r))
             <=> \E psn \in {r} \cup (r .. w - 1) : p = Wrapped(n, k, psn)
<1> DEFINE d == w - r
           W == Wrapped(n, k, w)
           R == Wrapped(n, k, r)
           H == n * k
           At(i) == IF R + i < H THEN R + i ELSE R + i - H
<1>0. d \in 0 .. n - 1 /\ w = r + d
  OBVIOUS
<1> HIDE DEF d
<1>1. H \in Nat \ {0} /\ n <= H
  OBVIOUS
<1>2. R \in 0 .. H - 1
  BY <1>1, ModSplit DEF Wrapped
<1>3. \A i \in 0 .. n : Wrapped(n, k, r + i) = At(i)
  <2> TAKE i \in 0 .. n
  <2>1. i \in 0 .. n * k
    BY <1>1
  <2> QED
    BY <1>1, <2>1, ModStep DEF Wrapped
<1>4. Distance(n, W, R) = d
  BY <1>0, DistanceExact
<1>5. W = At(d)
  BY <1>0, <1>3
<1>6. InWindow(n, p, W, R) <=>
        \/ p = R
        \/ /\ R # W
           /\ \/ R <= p /\ p <= (R - 1) + d
              \/ W - d <= p /\ p <= W - 1
  BY <1>4 DEF InWindow
<1>7. (\E psn \in {r} \cup (r .. w - 1) : p = Wrapped(n, k, psn))
        <=> (\E i \in {0} \cup (0 .. d - 1) : p = At(i))
  <2>1. ASSUME NEW psn \in {r} \cup (r .. w - 1), p = Wrapped(n, k, psn)
        PROVE  \E i \in {0} \cup (0 .. d - 1) : p = At(i)
    <3>1. psn - r \in {0} \cup (0 .. d - 1) /\ r + (psn - r) = psn
      BY <1>0
    <3>2. psn - r \in 0 .. n
      BY <1>0, <3>1
    <3> QED
      BY <2>1, <3>1, <3>2, <1>3
  <2>2. ASSUME NEW i \in {0} \cup (0 .. d - 1), p = At(i)
        PROVE  \E psn \in {r} \cup (r .. w - 1) : p = Wrapped(n, k, psn)
    <3>1. i \in 0 .. n /\ r + i \in {r} \cup (r .. w - 1)
      BY <1>0
    <3> QED
      BY <2>2, <3>1, <1>3
  <2> QED
    BY <2>1, <2>2
<1>8. p \in 0 .. H - 1 /\ d \in Nat /\ d <= H - 1
  BY <1>0, <1>1
<1> HIDE DEF W, R, H
<1>9. InWindow(n, p, W, R) <=> \E i \in {0} \cup (0 .. d - 1) : p = At(i)
  <2>1. CASE d = 0
    <3>1. W = R /\ At(0) = R
      BY <2>1, <1>1, <1>2, <1>5
    <3> QED
      BY <3>1, <2>1, <1>6
  <2>2. CASE d > 0 /\ R + d < H
    <3>1. W = R + d /\ R # W
      BY <2>2, <1>1, <1>2, <1>5, <1>8
    <3>2. InWindow(n, p, W, R) <=> R <= p /\ p <= (R - 1) + d
      BY <3>1, <2>2, <1>6, <1>1, <1>2, <1>8
    <3>3. \A i \in 0 .. d - 1 : At(i) = R + i
      BY <2>2, <1>1, <1>2, <1>8
    <3>4. ASSUME R <= p, p <= (R - 1) + d
          PROVE  \E i \in 0 .. d - 1 : p = At(i)
      <4>1. p - R \in 0 .. d - 1 /\ p = R + (p - R)
        BY <3>4, <1>1, <1>2, <1>8
      <4> QED
        BY <4>1, <3>3
    <3>5. ASSUME NEW i \in 0 .. d - 1, p = At(i)
          PROVE  R <= p /\ p <= (R - 1) + d
      <4>1. p = R + i
        BY <3>5, <3>3
      <4> QED
        BY <4>1, <1>1, <1>2, <1>8
    <3>6. {0} \cup (0 .. d - 1) = 0 .. d - 1
      BY <2>2, <1>8
    <3> QED
      BY <3>2, <3>4, <3>5, <3>6
  <2>3. CASE d > 0 /\ R + d >= H
    <3>1. W = R + d - H /\ R # W
      BY <2>3, <1>1, <1>2, <1>5, <1>8
    <3>2. InWindow(n, p, W, R) <=> R <= p \/ p < W
      BY <3>1, <2>3, <1>6, <1>1, <1>2, <1>8
    <3>3. ASSUME R <= p
          PROVE  \E i \in 0 .. d - 1 : p = At(i)
      <4>1. p - R \in 0 .. d - 1 /\ R + (p - R) < H /\ R + (p - R) = p
        BY <3>3, <2>3, <1>1, <1>2, <1>8
      <4> QED
        BY <4>1
    <3>4. ASSUME p < W
          PROVE  \E i \in 0 .. d - 1 : p = At(i)
      <4>1. p + H - R \in 0 .. d - 1 /\ ~ (R + (p + H - R) < H)
                /\ R + (p + H - R) - H = p
        BY <3>1, <3>4, <2>3, <1>1, <1>2, <1>8
      <4> QED
        BY <4>1
    <3>5. ASSUME NEW i \in 0 .. d - 1, p = At(i)
          PROVE  R <= p \/ p < W
      <4>1. CASE R + i < H
        BY <4>1, <3>5, <1>1, <1>2, <1>8
      <4>2. CASE ~ (R + i < H)
        BY <4>2, <3>1, <3>5, <1>1, <1>2, <1>8
      <4> QED
        BY <4>1, <4>2
    <3>6. {0} \cup (0 .. d - 1) = 0 .. d - 1
      BY <2>3, <1>8
    <3> QED
      BY <3>2, <3>3, <3>4, <3>5, <3>6
  <2> QED
    BY <2>1, <2>2, <2>3, <1>1, <1>2, <1>8
<1> QED
  BY <1>7, <1>9 DEF W, R
=============================================================================
