--------------------------- MODULE PoplParseProofs ---------------------------
(***************************************************************************)
(* For every catalogue of options, command line and ini file: every parse  *)
(* is the reference, word by word and line by line, also when it throws;   *)
(* of a command line, up to the first "--".                                *)
(* The invariants, on top of those of PoplProofs: a parse of a command     *)
(* line stands at a word that is not the argument of the one before, and   *)
(* the lists are those the reference says of the words so far              *)
(* (CommandInv); the unknown and the non-option words are sequences        *)
(* (ListsGiven); a parse of a file stands in the section of its line, and  *)
(* the values are those of the lines so far (FileInv).  The argument: the  *)
(* effect of a word is what the reference says of it, whatever its form    *)
(* (EffectIs), and the reference of a line up to a word, followed by what  *)
(* it says of that word, is the reference up to the next one.              *)
(***************************************************************************)
EXTENDS PoplProofs

-----------------------------------------------------------------------------
(* Places in order.                                                        *)

\* A place <<n, m>>: token m of word n.
Place == Nat \X Nat

\* How many places of S are before p.
Rank(S, p) == Cardinality({q \in S : Before(q, p)})

\* The places stand in one order.
LEMMA BeforeIsOrder ==
    ASSUME NEW p \in Place, NEW q \in Place
    PROVE  /\ ~Before(p, p)
           /\ ~(Before(p, q) /\ Before(q, p))
           /\ p = q \/ Before(p, q) \/ Before(q, p)
           /\ \A r \in Place : Before(p, q) /\ Before(q, r) => Before(p, r)
<1>1. p[1] \in Nat /\ p[2] \in Nat /\ q[1] \in Nat /\ q[2] \in Nat
  BY DEF Place
<1>2. p = <<p[1], p[2]>> /\ q = <<q[1], q[2]>>
  BY DEF Place
<1>3. ~Before(p, p) /\ ~(Before(p, q) /\ Before(q, p))
  BY <1>1 DEF Before
<1>4. p = q \/ Before(p, q) \/ Before(q, p)
  <2>1. CASE p[1] # q[1]
    BY <1>1, <2>1 DEF Before
  <2>2. CASE p[1] = q[1] /\ p[2] # q[2]
    BY <1>1, <2>2 DEF Before
  <2>3. CASE p[1] = q[1] /\ p[2] = q[2]
    BY <1>2, <2>3
  <2>. QED
    BY <2>1, <2>2, <2>3
<1>5. ASSUME NEW r \in Place, Before(p, q), Before(q, r) PROVE Before(p, r)
  <2>1. r[1] \in Nat /\ r[2] \in Nat
    BY DEF Place
  <2>. QED
    BY <1>1, <1>5, <2>1 DEF Before
<1>. QED
  BY <1>3, <1>4, <1>5

\* The rank of a place of S is below the number of places.
LEMMA RankBelow ==
    ASSUME NEW S \in SUBSET Place, IsFiniteSet(S), NEW p \in S
    PROVE  Rank(S, p) \in 0..(Cardinality(S) - 1)
<1>. DEFINE L == {q \in S : Before(q, p)}
<1>1. L \in SUBSET (S \ {p})
  BY BeforeIsOrder
<1>. HIDE DEF L
<1>2. IsFiniteSet(S \ {p}) /\ Cardinality(S \ {p}) = Cardinality(S) - 1
  BY FS_RemoveElement
<1>3. IsFiniteSet(L) /\ Cardinality(L) <= Cardinality(S) - 1
  BY <1>1, <1>2, FS_Subset
<1>4. Cardinality(L) \in Nat /\ Cardinality(S) \in Nat
  BY <1>3, FS_CardinalityType
<1>5. Cardinality(L) \in 0..(Cardinality(S) - 1)
  BY <1>3, <1>4
<1>. QED
  BY <1>5 DEF Rank, L

\* A place before another one has a smaller rank.
LEMMA RankGrows ==
    ASSUME NEW S \in SUBSET Place, IsFiniteSet(S), NEW p \in S, NEW q \in S, Before(p, q)
    PROVE  Rank(S, p) < Rank(S, q)
<1>. DEFINE L == {r \in S : Before(r, p)}
            M == {r \in S : Before(r, q)}
<1>1. L \cup {p} \in SUBSET M
  <2>1. ASSUME NEW r \in S, Before(r, p) PROVE Before(r, q)
    <3>1. r \in Place /\ p \in Place /\ q \in Place
      OBVIOUS
    <3>. QED
      BY <2>1, <3>1, BeforeIsOrder
  <2>. QED
    BY <2>1
<1>2. p \notin L
  BY BeforeIsOrder
<1>3. L \in SUBSET S /\ M \in SUBSET S
  OBVIOUS
<1>. HIDE DEF L, M
<1>4. IsFiniteSet(L) /\ IsFiniteSet(M)
  BY <1>3, FS_Subset
<1>5. Cardinality(L \cup {p}) = Cardinality(L) + 1
  BY <1>2, <1>4, FS_AddElement
<1>6. Cardinality(L \cup {p}) <= Cardinality(M)
  BY <1>1, <1>4, FS_Subset
<1>7. Cardinality(L) \in Nat /\ Cardinality(M) \in Nat
  BY <1>4, FS_CardinalityType
<1>8. Cardinality(L) < Cardinality(M)
  BY <1>5, <1>6, <1>7
<1>. QED
  BY <1>8 DEF Rank, L, M

\* The k-th place is one of the set, and has rank k - 1.
LEMMA InOrderIn ==
    ASSUME NEW S \in SUBSET Place, IsFiniteSet(S), NEW k \in 1..Cardinality(S)
    PROVE  InOrder(S)[k] \in S /\ Rank(S, InOrder(S)[k]) = k - 1
<1>. DEFINE c == Cardinality(S)
            T == 0..(c - 1)
            f == [p \in S |-> Rank(S, p)]
<1>1. c \in Nat
  BY FS_CardinalityType
<1>2. f \in Injection(S, T)
  <2>1. f \in [S -> T]
    BY RankBelow
  <2>2. ASSUME NEW p \in S, NEW q \in S, f[p] = f[q] PROVE p = q
    <3>1. p \in Place /\ q \in Place
      OBVIOUS
    <3>2. f[p] \in Nat /\ f[q] \in Nat
      BY <2>1
    <3>3. ~Before(p, q)
      BY <2>2, <3>2, RankGrows
    <3>4. ~Before(q, p)
      BY <2>2, <3>2, RankGrows
    <3>. QED
      BY <3>1, <3>3, <3>4, BeforeIsOrder
  <2>. HIDE DEF f, T
  <2>. QED
    BY <2>1, <2>2 DEF Injection, IsInjective
<1>3. IsFiniteSet(T) /\ Cardinality(T) = c
  <2>1. 0 \in Int /\ c - 1 \in Int
    BY <1>1
  <2>2. IsFiniteSet(T) /\ Cardinality(T) = IF 0 > c - 1 THEN 0 ELSE (c - 1) - 0 + 1
    BY <2>1, FS_Interval
  <2>. HIDE DEF T, c
  <2>. QED
    BY <1>1, <2>2
<1>. HIDE DEF T
<1>4. f \in Surjection(S, T)
  <2>. HIDE DEF f
  <2>1. Cardinality(S) = Cardinality(T)
    BY <1>3
  <2>. QED
    BY <1>2, <1>3, <2>1, FS_Injection
<1>5. \A t \in T : \E p \in S : f[p] = t
  <2>. HIDE DEF f
  <2>. QED
    BY <1>4 DEF Surjection
<1>6. k - 1 \in T
  BY <1>1 DEF T
<1>7. \E p \in S : Rank(S, p) = k - 1
  <2>1. PICK p \in S : f[p] = k - 1
    BY <1>5, <1>6
  <2>2. f[p] = Rank(S, p)
    OBVIOUS
  <2>. QED
    BY <2>1, <2>2
<1>8. InOrder(S)[k] = CHOOSE p \in S : Rank(S, p) = k - 1
  BY DEF InOrder, Rank
<1>. QED
  BY <1>7, <1>8

\* The places of a set, then those of a later one.
LEMMA InOrderUnion ==
    ASSUME NEW S \in SUBSET Place, IsFiniteSet(S), NEW T \in SUBSET Place, IsFiniteSet(T),
           \A p \in S : \A q \in T : Before(p, q)
    PROVE  /\ IsFiniteSet(S \cup T)
           /\ Cardinality(S \cup T) = Cardinality(S) + Cardinality(T)
           /\ \A k \in 1..Cardinality(S) : InOrder(S \cup T)[k] = InOrder(S)[k]
           /\ \A k \in 1..Cardinality(T) :
                 InOrder(S \cup T)[Cardinality(S) + k] = InOrder(T)[k]
<1>. DEFINE U == S \cup T
            s == Cardinality(S)
            t == Cardinality(T)
<1>1. s \in Nat /\ t \in Nat
  BY FS_CardinalityType
<1>2. S \cap T = {}
  BY BeforeIsOrder
<1>3. IsFiniteSet(U) /\ Cardinality(U) = s + t
  BY <1>1, <1>2, FS_Union, FS_EmptySet
<1>4. ASSUME NEW p \in S PROVE Rank(U, p) = Rank(S, p) /\ Rank(U, p) \in 0..(s - 1)
  <2>1. {q \in U : Before(q, p)} = {q \in S : Before(q, p)}
    <3>1. ASSUME NEW q \in T PROVE ~Before(q, p)
      <4>1. p \in Place /\ q \in Place /\ Before(p, q)
        OBVIOUS
      <4>. QED
        BY <4>1, BeforeIsOrder
    <3>. QED
      BY <3>1
  <2>2. Rank(U, p) = Rank(S, p)
    BY <2>1 DEF Rank
  <2>. QED
    BY <2>2, RankBelow
<1>5. ASSUME NEW p \in T PROVE Rank(U, p) = s + Rank(T, p) /\ Rank(T, p) \in 0..(t - 1)
  <2>. DEFINE L == {q \in T : Before(q, p)}
  <2>1. {q \in U : Before(q, p)} = S \cup L
    OBVIOUS
  <2>2. S \cap L = {} /\ L \in SUBSET T
    BY <1>2
  <2>. HIDE DEF L
  <2>3. IsFiniteSet(L)
    BY <2>2, FS_Subset
  <2>4. Cardinality(L) \in Nat
    BY <2>3, FS_CardinalityType
  <2>5. Cardinality(S \cup L) = s + Cardinality(L)
    <3>1. Cardinality(S \cup L) = s + Cardinality(L) - Cardinality(S \cap L)
      BY <2>3, FS_Union
    <3>2. Cardinality(S \cap L) = 0
      BY <2>2, FS_EmptySet
    <3>. QED
      BY ONLY <1>1, <2>4, <3>1, <3>2
  <2>. QED
    BY <2>1, <2>5, RankBelow DEF Rank, L
<1>6. \A k \in 1..(s + t) : InOrder(U)[k] = CHOOSE p \in U : Rank(U, p) = k - 1
  BY <1>3 DEF InOrder, Rank
<1>7. \A k \in 1..s : InOrder(S)[k] = CHOOSE p \in S : Rank(S, p) = k - 1
  BY DEF InOrder, Rank
<1>8. \A k \in 1..t : InOrder(T)[k] = CHOOSE p \in T : Rank(T, p) = k - 1
  BY DEF InOrder, Rank
<1>9. ASSUME NEW k \in 1..s PROVE InOrder(U)[k] = InOrder(S)[k]
  <2>1. \A p : (p \in U /\ Rank(U, p) = k - 1) <=> (p \in S /\ Rank(S, p) = k - 1)
    <3>1. ASSUME NEW p \in S PROVE Rank(U, p) = k - 1 <=> Rank(S, p) = k - 1
      BY <1>4
    <3>2. ASSUME NEW p \in T PROVE Rank(U, p) # k - 1
      BY <1>1, <1>5
    <3>. QED
      BY <3>1, <3>2
  <2>2. (CHOOSE p \in U : Rank(U, p) = k - 1) = (CHOOSE p \in S : Rank(S, p) = k - 1)
    BY ONLY <2>1
  <2>3. k \in 1..(s + t)
    BY <1>1
  <2>. HIDE DEF U
  <2>. QED
    BY <1>6, <1>7, <2>2, <2>3
<1>10. ASSUME NEW k \in 1..t PROVE InOrder(U)[s + k] = InOrder(T)[k]
  <2>1. \A p : (p \in U /\ Rank(U, p) = (s + k) - 1) <=> (p \in T /\ Rank(T, p) = k - 1)
    <3>1. ASSUME NEW p \in T PROVE Rank(U, p) = (s + k) - 1 <=> Rank(T, p) = k - 1
      <4>1. Rank(U, p) = s + Rank(T, p)
        BY <1>5
      <4>2. Rank(T, p) \in 0..(t - 1)
        BY <1>5
      <4>3. Rank(T, p) \in Int
        BY <4>2
      <4>4. s \in Int /\ k \in Int
        BY <1>1
      <4>. QED
        BY ONLY <4>1, <4>3, <4>4
    <3>2. ASSUME NEW p \in S PROVE Rank(U, p) # (s + k) - 1
      BY <1>1, <1>4
    <3>3. S \cap T = {}
      BY <1>2
    <3>. QED
      BY <3>1, <3>2
  <2>2. (CHOOSE p \in U : Rank(U, p) = (s + k) - 1) = (CHOOSE p \in T : Rank(T, p) = k - 1)
    BY ONLY <2>1
  <2>3. s + k \in 1..(s + t)
    BY <1>1
  <2>. HIDE DEF U
  <2>. QED
    BY <1>6, <1>8, <2>2, <2>3
<1>. QED
  BY <1>3, <1>9, <1>10

-----------------------------------------------------------------------------
(* Lists of what is at places, in order.                                   *)

\* What f has at the places of S, in the order of the places.
Listing(S, f) == [k \in 1..Cardinality(S) |-> f[InOrder(S)[k]]]

\* Nothing is listed at no place.
LEMMA EmptyListing == ASSUME NEW f PROVE Listing({}, f) = <<>>
<1>1. Cardinality({}) = 0
  BY FS_EmptySet
<1>2. Listing({}, f) = [k \in 1..0 |-> f[InOrder({})[k]]]
  BY <1>1 DEF Listing
<1>3. 1..0 = {}
  OBVIOUS
<1>. QED
  BY <1>2, <1>3

\* A listing is a sequence of what it lists.
LEMMA ListingIsSequence ==
    ASSUME NEW S \in SUBSET Place, IsFiniteSet(S), NEW f
    PROVE  /\ Listing(S, f) \in Seq({f[p] : p \in S})
           /\ Len(Listing(S, f)) = Cardinality(S)
           /\ Cardinality(S) \in Nat
<1>. DEFINE c == Cardinality(S)
            V == {f[p] : p \in S}
            g == Listing(S, f)
<1>1. c \in Nat
  BY FS_CardinalityType
<1>2. g = [k \in 1..c |-> g[k]]
  BY DEF Listing
<1>3. \A k \in 1..c : g[k] \in V
  BY InOrderIn DEF Listing
<1>. HIDE DEF c, V, g
<1>4. g \in Seq(V) /\ Len(g) = c
  BY <1>1, <1>2, <1>3
<1>. QED
  BY <1>1, <1>4 DEF c, V, g

\* A listing depends on what is at its places only.
LEMMA SameListing ==
    ASSUME NEW S \in SUBSET Place, IsFiniteSet(S), NEW f, NEW g,
           \A p \in S : f[p] = g[p]
    PROVE  Listing(S, f) = Listing(S, g)
BY InOrderIn DEF Listing

\* What is listed at later places is appended.
LEMMA ListingAppends ==
    ASSUME NEW S \in SUBSET Place, IsFiniteSet(S), NEW T \in SUBSET Place, IsFiniteSet(T),
           \A p \in S : \A q \in T : Before(p, q), NEW f
    PROVE  Listing(S \cup T, f) = Listing(S, f) \o Listing(T, f)
<1>. DEFINE U == S \cup T
            s == Cardinality(S)
            t == Cardinality(T)
            V == {f[p] : p \in U}
            a == Listing(S, f)
            b == Listing(T, f)
            c == Listing(U, f)
<1>1. /\ IsFiniteSet(U) /\ Cardinality(U) = s + t
      /\ \A k \in 1..s : InOrder(U)[k] = InOrder(S)[k]
      /\ \A k \in 1..t : InOrder(U)[s + k] = InOrder(T)[k]
  BY InOrderUnion
<1>2. a \in Seq(V) /\ Len(a) = s /\ s \in Nat
  <2>1. {f[p] : p \in S} \subseteq V
    OBVIOUS
  <2>2. a \in Seq({f[p] : p \in S}) /\ Len(a) = s /\ s \in Nat
    BY ListingIsSequence
  <2>. HIDE DEF V, a, s
  <2>. QED
    BY <2>1, <2>2
<1>3. b \in Seq(V) /\ Len(b) = t /\ t \in Nat
  <2>1. {f[p] : p \in T} \subseteq V
    OBVIOUS
  <2>2. b \in Seq({f[p] : p \in T}) /\ Len(b) = t /\ t \in Nat
    BY ListingIsSequence
  <2>. HIDE DEF V, b, t
  <2>. QED
    BY <2>1, <2>2
<1>4. c \in Seq(V) /\ Len(c) = s + t
  <2>1. U \in SUBSET Place
    OBVIOUS
  <2>. HIDE DEF U
  <2>. QED
    BY <1>1, <2>1, ListingIsSequence
<1>5. \A k \in 1..s : c[k] = a[k]
  <2>1. \A k \in 1..s : c[k] = f[InOrder(U)[k]] /\ a[k] = f[InOrder(S)[k]]
    BY <1>1, <1>2, <1>3 DEF Listing
  <2>. QED
    BY <1>1, <2>1
<1>6. \A k \in 1..t : c[s + k] = b[k]
  <2>1. \A k \in 1..t : s + k \in 1..(s + t)
    BY <1>2, <1>3
  <2>2. \A k \in 1..t : c[s + k] = f[InOrder(U)[s + k]] /\ b[k] = f[InOrder(T)[k]]
    BY <1>1, <2>1 DEF Listing
  <2>. QED
    BY <1>1, <2>2
<1>. HIDE DEF a, b, c, s, t, V
<1>7. a \o b \in Seq(V) /\ Len(a \o b) = s + t
      /\ \A k \in 1..(s + t) : (a \o b)[k] = IF k <= s THEN a[k] ELSE b[k - s]
  BY <1>2, <1>3, ConcatProperties
<1>8. ASSUME NEW k \in 1..(s + t) PROVE c[k] = (a \o b)[k]
  <2>1. CASE k <= s
    <3>1. k \in 1..s
      BY <1>2, <2>1
    <3>. QED
      BY <1>5, <1>7, <2>1, <3>1
  <2>2. CASE ~(k <= s)
    <3>1. k - s \in 1..t /\ s + (k - s) = k
      BY <1>2, <1>3, <2>2
    <3>2. c[s + (k - s)] = b[k - s]
      BY <1>6, <3>1
    <3>. QED
      BY <1>7, <2>2, <3>1, <3>2
  <2>. QED
    BY <2>1, <2>2
<1>9. c = a \o b
  BY <1>4, <1>7, <1>8, SeqEqual
<1>. QED
  BY <1>9 DEF a, b, c

\* One after the other, in any grouping; nothing behind a sequence changes it.
LEMMA ConcatGroups ==
    ASSUME NEW f, NEW g, NEW h, IsSequence(f), IsSequence(g), IsSequence(h)
    PROVE  (f \o g) \o h = f \o (g \o h) /\ f \o <<>> = f
<1>1. PICK k \in Nat : f = [i \in 1..k |-> f[i]]
  BY DEF IsSequence
<1>2. PICK m \in Nat : g = [i \in 1..m |-> g[i]]
  BY DEF IsSequence
<1>3. PICK n \in Nat : h = [i \in 1..n |-> h[i]]
  BY DEF IsSequence
<1>. DEFINE S == {f[i] : i \in 1..k} \cup {g[i] : i \in 1..m} \cup {h[i] : i \in 1..n}
<1>4. /\ \A i \in 1..k : f[i] \in S
      /\ \A i \in 1..m : g[i] \in S
      /\ \A i \in 1..n : h[i] \in S
  OBVIOUS
<1>. HIDE DEF S
<1>5. f \in Seq(S)
  BY <1>1, <1>4
<1>6. g \in Seq(S)
  BY <1>2, <1>4
<1>7. h \in Seq(S)
  BY <1>3, <1>4
<1>8. (f \o g) \o h = f \o (g \o h)
  BY <1>5, <1>6, <1>7, ConcatAssociative
<1>9. f \o <<>> = f
  BY <1>5, ConcatEmptySeq
<1>. QED
  BY <1>8, <1>9

\* A row of places: the k-th is the one of its k-th token.
Row(n, a, b) == {<<n, j>> : j \in a..b}

\* The tokens of a row come in the order of the word.
LEMMA InOrderRow ==
    ASSUME NEW n \in Nat, NEW a \in Nat, NEW b \in Nat, a <= b + 1
    PROVE  /\ Row(n, a, b) \in SUBSET Place /\ IsFiniteSet(Row(n, a, b))
           /\ Cardinality(Row(n, a, b)) = b + 1 - a
           /\ \A k \in 1..(b + 1 - a) : InOrder(Row(n, a, b))[k] = <<n, a + k - 1>>
<1>. DEFINE S == Row(n, a, b)
            Until(c) == {<<n, j>> : j \in a..(c - 1)}
<1>1. ASSUME NEW c \in Int, a <= c PROVE IsFiniteSet(Until(c)) /\ Cardinality(Until(c)) = c - a
  <2>. DEFINE T == a..(c - 1)
              f == [j \in T |-> <<n, j>>]
              R == Until(c)
  <2>1. f \in Bijection(T, R)
    <3>1. f \in [T -> R]
      OBVIOUS
    <3>2. \A i, j \in T : f[i] = f[j] => i = j
      OBVIOUS
    <3>3. \A r \in R : \E j \in T : f[j] = r
      OBVIOUS
    <3>. HIDE DEF f, T, R
    <3>. QED
      BY <3>1, <3>2, <3>3 DEF Bijection, Injection, Surjection, IsInjective
  <2>2. IsFiniteSet(T) /\ Cardinality(T) = c - a
    <3>1. a \in Int /\ c - 1 \in Int
      BY <1>1
    <3>2. IsFiniteSet(T) /\ Cardinality(T) = IF a > c - 1 THEN 0 ELSE (c - 1) - a + 1
      BY <3>1, FS_Interval
    <3>. HIDE DEF T
    <3>. QED
      BY <1>1, <3>2
  <2>. HIDE DEF f, T, R
  <2>3. ExistsBijection(T, R)
    BY <2>1 DEF ExistsBijection
  <2>4. IsFiniteSet(R) /\ Cardinality(R) = Cardinality(T)
    BY <2>2, <2>3, FS_Bijection
  <2>. QED
    BY <2>2, <2>4 DEF R
<1>5. S = {<<n, j>> : j \in a..b}
  BY DEF Row
<1>. HIDE DEF S
<1>2. S \in SUBSET Place
  BY <1>5 DEF Place
<1>3. IsFiniteSet(S) /\ Cardinality(S) = b + 1 - a
  <2>. DEFINE c == b + 1
  <2>1. c \in Int /\ a <= c /\ c - 1 = b
    OBVIOUS
  <2>2. S = Until(c)
    BY <1>5, <2>1
  <2>. HIDE DEF c
  <2>3. IsFiniteSet(S) /\ Cardinality(S) = c - a
    BY <1>1, <2>1, <2>2
  <2>. QED
    BY <2>3 DEF c
<1>4. ASSUME NEW k \in 1..(b + 1 - a) PROVE InOrder(S)[k] = <<n, a + k - 1>>
  <2>1. InOrder(S)[k] \in S /\ Rank(S, InOrder(S)[k]) = k - 1
    BY <1>2, <1>3, <1>4, InOrderIn
  <2>2. PICK c \in a..b : InOrder(S)[k] = <<n, c>>
    BY <1>5, <2>1
  <2>3. {q \in S : Before(q, <<n, c>>)} = Until(c)
    BY <1>5 DEF Before
  <2>4. Rank(S, <<n, c>>) = c - a
    <3>1. c \in Int /\ a <= c
      OBVIOUS
    <3>2. Cardinality(Until(c)) = c - a
      BY <1>1, <3>1
    <3>. QED
      BY <2>3, <3>2 DEF Rank
  <2>5. c - a = k - 1
    BY <2>1, <2>2, <2>4
  <2>6. c = a + k - 1
    BY <2>5
  <2>. QED
    BY <2>2, <2>6
<1>. QED
  BY <1>2, <1>3, <1>4 DEF S

-----------------------------------------------------------------------------
(* The forms of a word.                                                    *)

\* A set of numbers up to some n has a greatest one.
LEMMA MaxProperties ==
    ASSUME NEW n \in Nat, NEW I \in SUBSET (0..n), I # {}
    PROVE  Max(I) \in I /\ \A y \in I : y <= Max(I)
<1>. DEFINE J == {n - x : x \in I}
<1>1. J \in SUBSET Nat /\ J # {}
  <2>1. \A x \in I : n - x \in Nat
    OBVIOUS
  <2>. QED
    BY <2>1
<1>2. Min(J) \in J /\ \A y \in J : Min(J) <= y
  <2>. HIDE DEF J
  <2>. QED
    BY <1>1, MinProperties
<1>3. PICK x \in I : Min(J) = n - x
  BY <1>2
<1>4. ASSUME NEW y \in I PROVE x >= y
  <2>1. n - y \in J
    OBVIOUS
  <2>2. n - x <= n - y
    BY <1>2, <1>3, <2>1
  <2>. QED
    BY <2>2
<1>5. \E z \in I : \A y \in I : z >= y
  BY <1>4
<1>6. Max(I) \in I /\ \A y \in I : Max(I) >= y
  BY <1>5 DEF Max
<1>7. ASSUME NEW y \in I PROVE y <= Max(I)
  <2>1. Max(I) >= y
    BY <1>6
  <2>. QED
    BY <2>1
<1>. QED
  BY <1>6, <1>7

\* Where the greatest number is known.
LEMMA MaxIs ==
    ASSUME NEW n \in Nat, NEW I \in SUBSET (0..n), NEW m \in I, \A y \in I : y <= m
    PROVE  Max(I) = m
<1>1. Max(I) \in I /\ \A y \in I : y <= Max(I)
  BY MaxProperties
<1>2. Max(I) <= m /\ m <= Max(I)
  BY <1>1
<1>3. Max(I) \in 0..n /\ m \in 0..n
  BY <1>1
<1>4. Max(I) \in Nat /\ m \in Nat
  BY <1>3
<1>. QED
  BY ONLY <1>2, <1>4

\* A word is the argument of the word before exactly when that one lacks an
\* argument and is not one itself.
LEMMA ArgumentOrNot ==
    ASSUME NEW i \in Nat, i >= 1
    PROVE  /\ ~IsArgument(1)
           /\ IsArgument(i + 1) <=> LacksArgument(i) /\ ~IsArgument(i)
<1>. DEFINE Other(k) == {j \in 1..(k - 1) : ~LacksArgument(j)}
            A == {0} \cup Other(i)
            B == {0} \cup Other(i + 1)
<1>1. ~IsArgument(1)
  <2>1. {0} \cup Other(1) = {0}
    OBVIOUS
  <2>2. Max({0}) = 0
    <3>1. {0} \in SUBSET (0..0) /\ 0 \in {0} /\ \A y \in {0} : y <= 0
      OBVIOUS
    <3>. QED
      BY <3>1, MaxIs
  <2>3. (1 - 1 - Max({0} \cup Other(1))) % 2 = 0
    BY <2>1, <2>2
  <2>. QED
    BY <2>3 DEF IsArgument
<1>2. A \in SUBSET (0..(i - 1)) /\ A # {} /\ i - 1 \in Nat
  OBVIOUS
<1>3. B = IF LacksArgument(i) THEN A ELSE A \cup {i}
  <2>1. (i + 1) - 1 = i /\ \A j \in 1..i : j = i \/ j \in 1..(i - 1)
    OBVIOUS
  <2>2. i \in 1..i /\ 1..(i - 1) \subseteq 1..i
    OBVIOUS
  <2>. QED
    BY <2>1, <2>2
<1>4. IsArgument(i) <=> (i - 1 - Max(A)) % 2 = 1
  BY DEF IsArgument
<1>5. IsArgument(i + 1) <=> (i - Max(B)) % 2 = 1
  <2>1. (i + 1) - 1 = i
    OBVIOUS
  <2>2. IsArgument(i + 1) <=> ((i + 1) - 1 - Max(B)) % 2 = 1
    BY DEF IsArgument
  <2>. HIDE DEF B
  <2>. QED
    BY <2>1, <2>2
<1>. HIDE DEF A, B
<1>6. Max(A) \in 0..(i - 1)
  BY <1>2, MaxProperties
<1>7. CASE LacksArgument(i)
  <2>1. B = A
    BY <1>3, <1>7
  <2>. DEFINE m == i - 1 - Max(A)
  <2>2. m \in Nat /\ i - Max(A) = m + 1
    BY <1>6
  <2>. HIDE DEF m
  <2>3. (m + 1) % 2 = 1 <=> ~(m % 2 = 1)
    BY ONLY <2>2
  <2>. QED
    BY <1>1, <1>4, <1>5, <1>7, <2>1, <2>2, <2>3 DEF m
<1>8. CASE ~LacksArgument(i)
  <2>1. B = A \cup {i}
    BY <1>3, <1>8
  <2>2. Max(B) = i
    <3>1. B \in SUBSET (0..i) /\ i \in B /\ \A y \in B : y <= i
      BY <1>2, <2>1
    <3>. QED
      BY <3>1, MaxIs
  <2>3. i - Max(B) = 0
    BY <2>2
  <2>. QED
    BY <1>1, <1>5, <1>8, <2>3
<1>. QED
  BY <1>7, <1>8

\* What it is to begin with a text.
LEMMA PrefixIs ==
    ASSUME NEW S, NEW s \in Seq(S), NEW t \in Seq(S)
    PROVE  IsPrefix(s, t) <=> Len(s) <= Len(t) /\ \A i \in 1..Len(s) : s[i] = t[i]
<1>. DEFINE m == Len(s)
<1>1. m \in Nat /\ Len(t) \in Nat
  OBVIOUS
<1>2. CASE m <= Len(t)
  <2>1. /\ \A i \in 1..m : s[i] \in S
        /\ \A i \in 1..m : t[i] \in S
    BY <1>1, <1>2
  <2>2. 1 \in Int /\ m \in Int /\ m - 1 + 1 = m /\ (IF 1 <= m THEN m - 1 + 1 ELSE 0) = m
    BY <1>1
  <2>. HIDE DEF m
  <2>3. /\ SubSeq(s, 1, m) \in Seq(S) /\ Len(SubSeq(s, 1, m)) = m
        /\ \A i \in 1..m : SubSeq(s, 1, m)[i] = s[i]
    <3>1. /\ SubSeq(s, 1, m) \in Seq(S)
          /\ Len(SubSeq(s, 1, m)) = (IF 1 <= m THEN m - 1 + 1 ELSE 0)
          /\ \A i \in 1..(m - 1 + 1) : SubSeq(s, 1, m)[i] = s[1 + i - 1]
      BY <2>1, <2>2, SubSeqProperties
    <3>. QED
      BY <2>2, <3>1
  <2>4. /\ SubSeq(t, 1, m) \in Seq(S) /\ Len(SubSeq(t, 1, m)) = m
        /\ \A i \in 1..m : SubSeq(t, 1, m)[i] = t[i]
    <3>1. /\ SubSeq(t, 1, m) \in Seq(S)
          /\ Len(SubSeq(t, 1, m)) = (IF 1 <= m THEN m - 1 + 1 ELSE 0)
          /\ \A i \in 1..(m - 1 + 1) : SubSeq(t, 1, m)[i] = t[1 + i - 1]
      BY <2>1, <2>2, SubSeqProperties
    <3>. QED
      BY <2>2, <3>1
  <2>5. SubSeq(s, 1, m) = SubSeq(t, 1, m) <=> \A i \in 1..m : s[i] = t[i]
    <3>1. ASSUME \A i \in 1..m : s[i] = t[i] PROVE SubSeq(s, 1, m) = SubSeq(t, 1, m)
      BY <2>3, <2>4, <3>1, SeqEqual
    <3>2. ASSUME SubSeq(s, 1, m) = SubSeq(t, 1, m), NEW i \in 1..m PROVE s[i] = t[i]
      <4>1. SubSeq(s, 1, m)[i] = s[i] /\ SubSeq(t, 1, m)[i] = t[i]
        BY <2>3, <2>4
      <4>. QED
        BY <3>2, <4>1
    <3>. QED
      BY <3>1, <3>2
  <2>. QED
    BY <1>2, <2>5 DEF IsPrefix, m
<1>3. CASE ~(m <= Len(t))
  BY <1>3 DEF IsPrefix
<1>. QED
  BY <1>2, <1>3

\* The words of the parser: one or two dashes at the start.
LEMMA DashWords ==
    ASSUME NEW w \in Seq(Token)
    PROVE  /\ Len(w) \in Nat
           /\ IsPrefix(<<Dash, Dash>>, w) <=> Len(w) >= 2 /\ w[1] = Dash /\ w[2] = Dash
           /\ IsPrefix(<<Dash>>, w) <=> Len(w) >= 1 /\ w[1] = Dash
           /\ w = <<Dash, Dash>> <=> Len(w) = 2 /\ w[1] = Dash /\ w[2] = Dash
           /\ w = <<>> <=> Len(w) = 0
<1>. DEFINE S == Token \cup {Dash}
            s == <<Dash, Dash>>
            t == <<Dash>>
<1>1. s \in Seq(S) /\ Len(s) = 2 /\ s[1] = Dash /\ s[2] = Dash
  OBVIOUS
<1>2. t \in Seq(S) /\ Len(t) = 1 /\ t[1] = Dash
  OBVIOUS
<1>3. w \in Seq(S) /\ Len(w) \in Nat
  <2>1. Token \subseteq S
    OBVIOUS
  <2>. HIDE DEF S
  <2>. QED
    BY <2>1
<1>4. w = <<>> <=> Len(w) = 0
  BY EmptySeq
<1>. HIDE DEF S, s, t
<1>5. IsPrefix(s, w) <=> Len(w) >= 2 /\ w[1] = Dash /\ w[2] = Dash
  <2>1. IsPrefix(s, w) <=> Len(s) <= Len(w) /\ \A i \in 1..Len(s) : s[i] = w[i]
    BY <1>1, <1>3, PrefixIs
  <2>2. (\A i \in 1..2 : s[i] = w[i]) <=> s[1] = w[1] /\ s[2] = w[2]
    OBVIOUS
  <2>. QED
    BY <1>1, <1>3, <2>1, <2>2
<1>6. IsPrefix(t, w) <=> Len(w) >= 1 /\ w[1] = Dash
  <2>1. IsPrefix(t, w) <=> Len(t) <= Len(w) /\ \A i \in 1..Len(t) : t[i] = w[i]
    <3>1. t \in Seq(S)
      BY <1>2
    <3>. QED
      BY <1>3, <3>1, PrefixIs
  <2>2. (\A i \in 1..1 : t[i] = w[i]) <=> t[1] = w[1]
    OBVIOUS
  <2>. QED
    BY <1>2, <1>3, <2>1, <2>2
<1>7. w = s <=> Len(w) = 2 /\ w[1] = Dash /\ w[2] = Dash
  <2>1. ASSUME Len(w) = 2, w[1] = Dash, w[2] = Dash PROVE w = s
    <3>1. Len(w) = Len(s) /\ \A i \in 1..Len(w) : w[i] = s[i]
      BY <1>1, <2>1
    <3>. QED
      BY <1>1, <1>3, <3>1, SeqEqual
  <2>. QED
    BY <1>1, <2>1
<1>. QED
  BY <1>3, <1>4, <1>5, <1>6, <1>7 DEF s, t

\* A word stands where it does in one of four forms, the same for the parser as
\* for the reference.
LEMMA WordForms ==
    ASSUME CallShape, call.n <= Len(call.args)
    PROVE  /\ Word = Args[call.n] /\ Word \in Seq(Token) /\ call.n \in 1..Len(Args)
           /\ IsDashes <=> Dashes(call.n)
           /\ IsLong <=> Long(call.n)
           /\ IsShort <=> Short(call.n)
           /\ Dashes(call.n) => ~Long(call.n) /\ ~Short(call.n)
           /\ Long(call.n) => ~Short(call.n)
<1>1. Word = Args[call.n]
  BY DEF Word, Args
<1>2. Word \in Seq(Token) /\ call.n \in 1..Len(Args)
  BY DEF CallShape, Word, Args
<1>. DEFINE w == Word
<1>3. IsDashes <=> w = <<Dash, Dash>>
  BY DEF IsDashes
<1>4. IsLong <=> ~IsDashes /\ IsPrefix(<<Dash, Dash>>, w)
  BY DEF IsLong
<1>5. IsShort <=> ~IsDashes /\ ~IsLong /\ IsPrefix(<<Dash>>, w)
  BY DEF IsShort
<1>6. Dashes(call.n) <=> w = <<Dash, Dash>>
  BY <1>1 DEF Dashes
<1>7. Long(call.n) <=> Len(w) > 2 /\ w[1] = Dash /\ w[2] = Dash
  BY <1>1 DEF Long
<1>8. Short(call.n) <=> w # <<>> /\ w[1] = Dash /\ ~Dashes(call.n) /\ ~Long(call.n)
  BY <1>1 DEF Short
<1>. HIDE DEF w
<1>9. /\ Len(w) \in Nat
      /\ IsPrefix(<<Dash, Dash>>, w) <=> Len(w) >= 2 /\ w[1] = Dash /\ w[2] = Dash
      /\ IsPrefix(<<Dash>>, w) <=> Len(w) >= 1 /\ w[1] = Dash
      /\ w = <<Dash, Dash>> <=> Len(w) = 2 /\ w[1] = Dash /\ w[2] = Dash
      /\ w = <<>> <=> Len(w) = 0
  BY <1>2, DashWords DEF w
<1>10. /\ Len(w) > 2 <=> Len(w) >= 2 /\ ~(Len(w) = 2)
       /\ ~(Len(w) = 0) <=> Len(w) >= 1
  <2>1. Len(w) \in Nat
    BY <1>9
  <2>2. \A k \in Nat : (k > 2 <=> (k >= 2 /\ k # 2)) /\ (k # 0 <=> k >= 1)
    OBVIOUS
  <2>. QED
    BY ONLY <2>1, <2>2, Zenon
<1>. DEFINE atLeast1 == Len(w) >= 1
            atLeast2 == Len(w) >= 2
            two == Len(w) = 2
            zero == Len(w) = 0
            d1 == w[1] = Dash
            d2 == w[2] = Dash
            more == Len(w) > 2
<1>11. IsLong <=> Long(call.n)
  <2>1. Long(call.n) <=> more /\ d1 /\ d2
    BY <1>7
  <2>2. IsLong <=> ~IsDashes /\ atLeast2 /\ d1 /\ d2
    BY <1>4, <1>9
  <2>3. IsDashes <=> two /\ d1 /\ d2
    BY <1>3, <1>9
  <2>4. more <=> atLeast2 /\ ~two
    BY <1>10
  <2>. HIDE DEF atLeast2, two, more, d1, d2
  <2>. QED
    BY ONLY <2>1, <2>2, <2>3, <2>4, Zenon
<1>12. IsShort <=> Short(call.n)
  <2>1. IsShort <=> ~IsDashes /\ ~IsLong /\ atLeast1 /\ d1
    BY <1>5, <1>9
  <2>2. Short(call.n) <=> atLeast1 /\ d1 /\ ~Dashes(call.n) /\ ~Long(call.n)
    BY <1>8, <1>9, <1>10
  <2>3. Dashes(call.n) <=> IsDashes
    BY <1>3, <1>6
  <2>. HIDE DEF atLeast1, d1
  <2>. QED
    BY ONLY <1>11, <2>1, <2>2, <2>3, Zenon
<1>13. Dashes(call.n) => ~Long(call.n)
  <2>1. Long(call.n) <=> more /\ d1 /\ d2
    BY <1>7
  <2>2. Dashes(call.n) <=> two /\ d1 /\ d2
    BY <1>6, <1>9
  <2>3. more => ~two
    BY <1>10
  <2>. HIDE DEF two, more, d1, d2
  <2>. QED
    BY ONLY <2>1, <2>2, <2>3, Zenon
<1>14. (Dashes(call.n) => ~Short(call.n)) /\ (Long(call.n) => ~Short(call.n))
  BY <1>8
<1>15. IsDashes <=> Dashes(call.n)
  BY <1>3, <1>6
<1>. QED
  BY <1>1, <1>2, <1>11, <1>12, <1>13, <1>14, <1>15

-----------------------------------------------------------------------------
(* The effect of a word is what the reference says of it.                  *)

\* The first number of a set in a range, as SelectInSubSeq returns it.
LEMMA FirstOf ==
    ASSUME NEW I \in SUBSET Nat, NEW r, r = IF I # {} THEN Min(I) ELSE 0
    PROVE  (I = {} /\ r = 0) \/ (r \in I /\ \A j \in I : r <= j)
BY MinProperties

\* The parsers find the option of a long name, or none, as the reference does.
LEMMA FoundWithName ==
    ASSUME PoplInv, NEW name, NEW o, o = IfActive(options, FindLong(options, name))
    PROVE  (o = 0 /\ WithName(name) = {}) \/ (o \in OptionIds /\ o # 0 /\ WithName(name) = {o})
<1>. DEFINE I == {i \in 1..Len(options) : options[i].long = name}
            r == FindLong(options, name)
<1>1. DOMAIN options = 1..Len(options) /\ Len(options) \in Nat
  BY AppendDomain DEF PoplInv, ListsAgree
<1>2. r = IF I # {} THEN Min(I) ELSE 0
  BY DEF FindLong, SelectInSeq
<1>3. (I = {} /\ r = 0) \/ (r \in I /\ \A j \in I : r <= j)
  <2>1. I \in SUBSET Nat
    OBVIOUS
  <2>. HIDE DEF I, r
  <2>. QED
    BY <1>2, <2>1, FirstOf
<1>6. o = IfActive(options, r)
  OBVIOUS
<1>. HIDE DEF r
<1>4. CASE I = {} /\ r = 0
  BY <1>1, <1>4, <1>6 DEF WithName, OptionIds, IfActive
<1>5. CASE r \in I /\ \A j \in I : r <= j
  <2>1. r \in OptionIds /\ r # 0 /\ r \in Nat
    BY <1>1, <1>5 DEF OptionIds
  <2>2. ASSUME NEW p \in WithName(name) PROVE p = r
    <3>1. p \in I /\ p \in Nat /\ \A q \in 1..(p - 1) : options[q].long # name
      BY <1>1 DEF WithName, OptionIds
    <3>2. r <= p
      BY <1>5, <3>1
    <3>3. ~(r \in 1..(p - 1))
      BY <1>5, <3>1
    <3>4. r \in Nat /\ r >= 1
      BY <1>5
    <3>. QED
      BY ONLY <3>1, <3>2, <3>3, <3>4
  <2>3. ASSUME options[r].attribute # Inactive PROVE r \in WithName(name)
    <3>1. \A q \in 1..(r - 1) : options[q].long # name
      <4>. SUFFICES ASSUME NEW q \in 1..(r - 1), options[q].long = name PROVE FALSE
        OBVIOUS
      <4>1. r \in 1..Len(options)
        BY <1>5
      <4>2. q \in 1..Len(options) /\ ~(r <= q)
        BY <1>1, <4>1
      <4>. QED
        BY <1>5, <4>2
    <3>. QED
      BY <1>5, <2>1, <2>3, <3>1 DEF WithName
  <2>4. CASE options[r].attribute # Inactive
    BY <1>6, <2>1, <2>2, <2>3, <2>4 DEF IfActive
  <2>5. CASE options[r].attribute = Inactive
    <3>1. WithName(name) = {}
      BY <2>2, <2>5 DEF WithName
    <3>. QED
      BY <1>6, <2>5, <3>1 DEF IfActive
  <2>. QED
    BY <2>4, <2>5
<1>. QED
  BY <1>3, <1>4, <1>5

\* The same for a letter.
LEMMA FoundByLetter ==
    ASSUME PoplInv, NamesApart, NEW c, c # NoName,
           NEW o, o = IfActive(options, FindShort(options, c))
    PROVE  (o = 0 /\ ByLetter(c) = {}) \/ (o \in OptionIds /\ o # 0 /\ ByLetter(c) = {o})
<1>. DEFINE I == {i \in 1..Len(options) : options[i].short = c}
            r == FindShort(options, c)
<1>1. DOMAIN options = 1..Len(options) /\ Len(options) \in Nat
  BY AppendDomain DEF PoplInv, ListsAgree
<1>2. r = IF I # {} THEN Min(I) ELSE 0
  BY DEF FindShort, SelectInSeq
<1>3. (I = {} /\ r = 0) \/ (r \in I /\ \A j \in I : r <= j)
  <2>1. I \in SUBSET Nat
    OBVIOUS
  <2>. HIDE DEF I, r
  <2>. QED
    BY <1>2, <2>1, FirstOf
<1>6. o = IfActive(options, r)
  OBVIOUS
<1>. HIDE DEF r
<1>4. CASE I = {} /\ r = 0
  BY <1>1, <1>4, <1>6 DEF ByLetter, OptionIds, IfActive
<1>5. CASE r \in I /\ \A j \in I : r <= j
  <2>1. r \in OptionIds /\ r # 0 /\ options[r].short = c
    BY <1>1, <1>5 DEF OptionIds
  <2>2. ASSUME NEW p \in ByLetter(c) PROVE p = r
    BY <2>1 DEF ByLetter, OptionIds, NamesApart, Clash
  <2>3. CASE options[r].attribute # Inactive
    <3>1. r \in ByLetter(c)
      BY <2>1, <2>3 DEF ByLetter
    <3>2. ByLetter(c) = {r}
      BY <2>2, <3>1
    <3>. QED
      BY <1>6, <2>1, <2>3, <3>2 DEF IfActive
  <2>4. CASE options[r].attribute = Inactive
    <3>1. ByLetter(c) = {}
      BY <2>2, <2>4 DEF ByLetter
    <3>. QED
      BY <1>6, <2>4, <3>1 DEF IfActive
  <2>. QED
    BY <2>3, <2>4
<1>. QED
  BY <1>3, <1>4, <1>5

\* Word p[2] for a place p.
WordOf == [p \in Place |-> Args[p[2]]]

\* The places a word enters in the list of non-option words: at "--" those of all
\* the later words, which the parse comes to once more.
EnteredAt(i) ==
    IF Dashes(i) THEN {<<i, j>> : j \in (i + 1)..Len(Args)}
    ELSE IF Long(i) \/ Short(i) THEN {} ELSE {<<i, i>>}

ListedNonOption(n) == WordsAt(UNION {EnteredAt(i) : i \in WordsBefore(n)})

\* How far a parse is at any word, after a "--" too: ParseIsReference, and what the
\* list of non-option words holds from there on.
WordsParsed ==
    Parsing("argv") =>
        /\ \A o \in OptionIds :
              values[o] = start.values[o] \o ReferenceValues(o, WordsDone)
        /\ unknown = start.unknown \o ReferenceUnknown(call.n)
        /\ nonOption = start.nonOption \o ListedNonOption(call.n)

\* What the reference says of word n, said of its effect.
EffectIs(e, n) ==
    /\ IsFiniteSet(DOMAIN e.calls) /\ DOMAIN e.calls \in SUBSET ({n} \X Nat)
    /\ \A p \in DOMAIN e.calls :
          /\ e.calls[p].option \in OptionIds
          /\ e.calls[p].text = TextAt(n, p[2], e.calls[p].option)
    /\ \A o \in OptionIds : {p \in DOMAIN e.calls : e.calls[p].option = o} = PlacesFor(n, o)
    /\ \A p, q \in DOMAIN e.calls :
          Before(p, q) => ArgumentType(options[e.calls[p].option]) = "no"
    /\ e.next <=> LacksArgument(n) /\ n < Len(Args)
    /\ e.unknown = IF NamesUnknown(n) THEN <<Args[n]>> ELSE <<>>
    /\ e.nonOption = Listing(EnteredAt(n), WordOf)

\* One place alone is listed by itself.
LEMMA ListingOfOne ==
    ASSUME NEW p \in Place, NEW f
    PROVE  Listing({p}, f) = <<f[p]>>
<1>1. {p} \in SUBSET Place /\ IsFiniteSet({p}) /\ Cardinality({p}) = 1
  BY FS_Singleton
<1>2. 1 \in 1..Cardinality({p})
  BY <1>1
<1>3. InOrder({p})[1] \in {p}
  BY <1>1, <1>2, InOrderIn
<1>4. Listing({p}, f) = [k \in 1..1 |-> f[InOrder({p})[k]]]
  BY <1>1 DEF Listing
<1>5. \A k \in 1..1 : k = 1
  OBVIOUS
<1>6. Listing({p}, f) = [k \in 1..1 |-> f[p]]
  BY <1>3, <1>4, <1>5
<1>. QED
  BY <1>6

\* A word that is no option.
LEMMA PlainIs ==
    ASSUME CallShape, call.n <= Len(call.args),
           ~Dashes(call.n), ~Long(call.n), ~Short(call.n)
    PROVE  EffectIs(PlainEffect(call.args, call.n), call.n)
<1>. DEFINE n == call.n
            e == PlainEffect(call.args, n)
            x == Args[n]
<1>1. /\ e.calls = NoCalls /\ e.next = FALSE /\ e.unknown = <<>> /\ e.nonOption = <<x>>
  BY DEF PlainEffect, Effect, Args
<1>2. n \in Nat /\ <<n, n>> \in Place
  BY DEF CallShape, Place
<1>3. DOMAIN e.calls = {} /\ IsFiniteSet(DOMAIN e.calls)
  BY <1>1, FewCalls
<1>4. \A o : PlacesFor(n, o) = {}
  BY DEF PlacesFor
<1>5. ~LacksArgument(n) /\ ~NamesUnknown(n)
  BY DEF LacksArgument, NamesUnknown
<1>6. EnteredAt(n) = {<<n, n>>}
  BY DEF EnteredAt
<1>7. WordOf[<<n, n>>] = x
  BY <1>2 DEF WordOf
<1>. HIDE DEF n, e, x
<1>8. Listing(EnteredAt(n), WordOf) = <<x>>
  BY <1>2, <1>6, <1>7, ListingOfOne
<1>. QED
  BY <1>1, <1>3, <1>4, <1>5, <1>8 DEF EffectIs, n, e, x

\* "--", and the words behind it.
LEMMA DashesIs ==
    ASSUME CallShape, call.n <= Len(call.args),
           Dashes(call.n), ~Long(call.n), ~Short(call.n)
    PROVE  EffectIs(DashesEffect(call.args, call.n), call.n)
<1>. DEFINE n == call.n
            l == Len(call.args)
            e == DashesEffect(call.args, n)
            S == {<<n, j>> : j \in (n + 1)..l}
            x == SubSeq(call.args, n + 1, l)
            y == Listing(S, WordOf)
<1>1. e.calls = NoCalls /\ e.next = FALSE /\ e.unknown = <<>> /\ e.nonOption = x
  BY DEF DashesEffect, Effect
<1>2. n \in Nat /\ l \in Nat /\ n <= l
  BY DEF CallShape
<1>3. DOMAIN e.calls = {} /\ IsFiniteSet(DOMAIN e.calls)
  BY <1>1, FewCalls
<1>4. \A o : PlacesFor(n, o) = {}
  BY DEF PlacesFor
<1>5. ~LacksArgument(n) /\ ~NamesUnknown(n)
  BY DEF LacksArgument, NamesUnknown
<1>6. EnteredAt(n) = S
  BY DEF EnteredAt, Args
<1>7. x = y
  <2>. DEFINE V == Seq(Token)
              a == n + 1
              c == l - n
              args == call.args
  <2>1. a \in Nat /\ a <= l + 1 /\ l + 1 - a = c /\ c \in Nat
    BY <1>2
  <2>2. /\ S \in SUBSET Place /\ IsFiniteSet(S) /\ Cardinality(S) = c
        /\ \A k \in 1..c : InOrder(S)[k] = <<n, a + k - 1>>
    <3>1. S = Row(n, a, l)
      BY DEF Row
    <3>2. n \in Nat /\ l \in Nat /\ a \in Nat /\ a <= l + 1
      BY <1>2, <2>1
    <3>. HIDE DEF a, l, c, n, S
    <3>3. /\ S \in SUBSET Place /\ IsFiniteSet(S)
          /\ Cardinality(S) = l + 1 - a
          /\ \A k \in 1..(l + 1 - a) : InOrder(S)[k] = <<n, a + k - 1>>
      BY ONLY <3>1, <3>2, InOrderRow
    <3>. QED
      BY <2>1, <3>3
  <2>3. \A i \in a..l : args[i] \in V
    <3>1. args \in Seq(V) /\ l = Len(args)
      BY DEF CallShape
    <3>2. \A i \in a..l : i \in 1..l
      BY <1>2
    <3>. HIDE DEF V, args, l, a
    <3>. QED
      BY <3>1, <3>2
  <2>4. y = [k \in 1..c |-> args[a + k - 1]]
    <3>1. y = [k \in 1..c |-> WordOf[InOrder(S)[k]]]
      BY <2>2 DEF Listing
    <3>2. ASSUME NEW k \in 1..c PROVE WordOf[InOrder(S)[k]] = args[a + k - 1]
      <4>1. <<n, a + k - 1>> \in Place
        BY <1>2 DEF Place
      <4>2. WordOf[<<n, a + k - 1>>] = args[a + k - 1]
        BY <4>1 DEF WordOf, Args
      <4>. QED
        BY <2>2, <4>2
    <3>. QED
      BY <3>1, <3>2
  <2>5. \A k \in 1..c : args[a + k - 1] \in V
    <3>1. \A k \in 1..c : a + k - 1 \in a..l
      BY <1>2
    <3>. HIDE DEF V, args, a, c, l
    <3>. QED
      BY <2>3, <3>1
  <2>6. /\ x \in Seq(V) /\ Len(x) = c
        /\ \A k \in 1..c : x[k] = args[a + k - 1]
    <3>1. x = SubSeq(args, a, l)
      OBVIOUS
    <3>2. a \in Int /\ l \in Int /\ l - a + 1 = c /\ (IF a <= l THEN l - a + 1 ELSE 0) = c
      BY <1>2
    <3>. HIDE DEF x, V, args, a, c, l
    <3>3. /\ SubSeq(args, a, l) \in Seq(V)
          /\ Len(SubSeq(args, a, l)) = (IF a <= l THEN l - a + 1 ELSE 0)
          /\ \A i \in 1..(l - a + 1) : SubSeq(args, a, l)[i] = args[a + i - 1]
      BY <2>3, <3>2, SubSeqProperties
    <3>. QED
      BY <3>1, <3>2, <3>3
  <2>. HIDE DEF x, y, V, args, a, c
  <2>7. y \in Seq(V) /\ Len(y) = c /\ \A k \in 1..c : y[k] = args[a + k - 1]
    BY <2>1, <2>4, <2>5
  <2>. QED
    BY <2>6, <2>7, SeqEqual
<1>. HIDE DEF n, e, x, y
<1>. QED
  BY <1>1, <1>3, <1>4, <1>5, <1>6, <1>7 DEF EffectIs, n, e, x, y

\* Option 0 is none of the registered options.
LEMMA OptionSomewhere ==
    ASSUME PoplInv, NEW o \in OptionIds
    PROVE  o # 0 /\ \A kind : Takes(o, kind) <=> ArgumentType(options[o]) = kind
<1>1. DOMAIN options = 1..Len(options) /\ Len(options) \in Nat
  BY AppendDomain DEF PoplInv, ListsAgree
<1>2. o # 0
  BY <1>1 DEF OptionIds
<1>. QED
  BY <1>2 DEF Takes

\* The name of a long word ends at its first "=", and the rest is its argument.
LEMMA LongParts ==
    ASSUME CallShape, call.n <= Len(call.args), Long(call.n),
           NEW eq, eq = SelectInSubSeq(call.args[call.n], 3, Len(call.args[call.n]),
                                       LAMBDA c : c = Equal)
    PROVE  /\ (IF eq = 0 THEN Len(call.args[call.n]) ELSE eq - 1) = NameEnd(call.n)
           /\ (IF eq = 0 THEN <<>>
               ELSE SubSeq(call.args[call.n], eq + 1, Len(call.args[call.n])))
                 = Explicit(call.n)
<1>. DEFINE w == call.args[call.n]
            I == {m \in 3..Len(w) : w[m] = Equal}
<1>1. w = Args[call.n] /\ Len(w) > 2 /\ w[1] = Dash /\ w[2] = Dash
  BY DEF Args, Long
<1>2. w \in Seq(Token)
  BY DEF CallShape
<1>3. Len(w) \in Nat /\ DOMAIN w = 1..Len(w)
  BY <1>2
<1>4. eq = IF I # {} THEN Min(I) ELSE 0
  BY DEF SelectInSubSeq
<1>5. Positions(w, Equal) = I
  <2>1. Dash # Equal
    BY DEF Dash, Equal
  <2>2. \A m \in 1..Len(w) : m = 1 \/ m = 2 \/ m \in 3..Len(w)
    BY <1>3
  <2>3. \A m \in 3..Len(w) : m \in 1..Len(w)
    BY <1>3
  <2>. HIDE DEF w
  <2>. QED
    BY <1>1, <1>3, <2>1, <2>2, <2>3 DEF Positions
<1>. HIDE DEF w
<1>6. (I = {} /\ eq = 0) \/ (eq \in I /\ eq # 0 /\ eq = Min(I))
  <2>1. I \in SUBSET Nat
    OBVIOUS
  <2>2. \A m \in I : m # 0
    OBVIOUS
  <2>. HIDE DEF I
  <2>. QED
    BY <1>4, <2>1, <2>2, FirstOf
<1>7. CASE I = {} /\ eq = 0
  <2>1. NameEnd(call.n) = Len(w)
    BY <1>1, <1>5, <1>7 DEF NameEnd
  <2>2. Explicit(call.n) = <<>>
    <3>1. Explicit(call.n) = SubSeq(w, Len(w) + 2, Len(w))
      BY <1>1, <2>1 DEF Explicit
    <3>2. Len(w) + 2 \in Int /\ Len(w) \in Int /\ Len(w) < Len(w) + 2
      BY <1>3
    <3>. QED
      BY <3>1, <3>2, SubSeqEmpty
  <2>. QED
    BY <1>7, <2>1, <2>2 DEF w
<1>8. CASE eq \in I /\ eq # 0 /\ eq = Min(I)
  <2>1. NameEnd(call.n) = eq - 1
    BY <1>1, <1>5, <1>8 DEF NameEnd
  <2>2. Explicit(call.n) = SubSeq(w, eq + 1, Len(w))
    <3>1. eq - 1 + 2 = eq + 1
      BY <1>8
    <3>. QED
      BY <1>1, <2>1, <3>1 DEF Explicit
  <2>. QED
    BY <1>8, <2>1, <2>2 DEF w
<1>. QED
  BY <1>6, <1>7, <1>8

\* --name and --name=text
LEMMA LongIs ==
    ASSUME PoplInv, CallShape, call.n <= Len(call.args), Long(call.n),
           ~Dashes(call.n), ~Short(call.n)
    PROVE  EffectIs(LongEffect(options, call.args, call.n), call.n)
<1>. DEFINE n == call.n
            args == call.args
            e == LongEffect(options, args, n)
            w == args[n]
            eq == SelectInSubSeq(w, 3, Len(w), LAMBDA c : c = Equal)
            name == SubSeq(w, 3, IF eq = 0 THEN Len(w) ELSE eq - 1)
            optarg == IF eq = 0 THEN <<>> ELSE SubSeq(w, eq + 1, Len(w))
            found == IfActive(options, FindLong(options, name))
            o == IF found # 0 /\ ArgumentType(options[found]) = "no" /\ optarg # <<>>
                 THEN 0 ELSE found
            next == /\ o # 0 /\ ArgumentType(options[o]) = "required"
                    /\ optarg = <<>> /\ n < Len(args)
            cs == IF o = 0 THEN NoCalls
                  ELSE OneCall(n, o, IF next THEN args[n + 1] ELSE optarg)
            u == IF o = 0 THEN <<w>> ELSE <<>>
            x == Explicit(n)
            text == IF LacksArgument(n) THEN ArgumentAfter(n) ELSE x
            place == <<n, 1>>
<1>1. e = Effect(cs, next, u, <<>>)
  BY DEF LongEffect
<1>2. optarg = x /\ name = SubSeq(w, 3, NameEnd(n))
  <2>. HIDE DEF eq
  <2>. QED
    BY LongParts DEF eq
<1>3. (found = 0 /\ ByName(n) = {}) \/ (found \in OptionIds /\ found # 0 /\ ByName(n) = {found})
  <2>1. ByName(n) = WithName(name)
    BY <1>2 DEF ByName, Args
  <2>. HIDE DEF name
  <2>. QED
    BY <2>1, FoundWithName
<1>4. n \in Nat /\ n <= Len(args) /\ Len(args) \in Nat
  BY DEF CallShape
<1>5. /\ \A p : PlacesFor(n, p) = IF p \in ByName(n) /\ (Takes(p, "no") => x = <<>>)
                                  THEN {place} ELSE {}
      /\ \A k, p : TextAt(n, k, p) = text
  BY DEF PlacesFor, TextAt
<1>6. LacksArgument(n) <=> x = <<>> /\ \E p \in ByName(n) : Takes(p, "required")
  BY DEF LacksArgument
<1>7. NamesUnknown(n) <=> \A p \in OptionIds : PlacesFor(n, p) = {}
  BY DEF NamesUnknown
<1>8. EnteredAt(n) = {}
  BY DEF EnteredAt
<1>9. Listing(EnteredAt(n), WordOf) = <<>>
  BY <1>8, EmptyListing
<1>10. ArgumentAfter(n) = IF n < Len(args) THEN args[n + 1] ELSE <<>>
  BY DEF ArgumentAfter, Args
<1>11. Args = args /\ Args[n] = w
  BY DEF Args
<1>12. place \in {n} \X Nat
  BY <1>4
<1>. HIDE DEF e, eq, name, optarg, found, n, x, w, args
<1>13. o = IF ByName(n) # {} /\ ~(Takes(found, "no") /\ x # <<>>) THEN found ELSE 0
  BY <1>2, <1>3, OptionSomewhere
<1>16. e.calls = cs /\ (e.next = next) /\ e.unknown = u /\ e.nonOption = <<>>
  <2>. HIDE DEF cs, next, u
  <2>. QED
    BY <1>1, EffectParts
<1>14. CASE o = 0
  <2>1. cs = NoCalls /\ ~next /\ u = <<w>>
    BY <1>14
  <2>2. \A p : PlacesFor(n, p) = {}
    BY <1>3, <1>5, <1>13, <1>14
  <2>3. ~LacksArgument(n)
    <3>. SUFFICES ASSUME LacksArgument(n) PROVE FALSE
      OBVIOUS
    <3>1. x = <<>> /\ ByName(n) # {}
      BY <1>6
    <3>. QED
      BY <1>3, <1>13, <1>14, <3>1
  <2>4. DOMAIN NoCalls = {} /\ IsFiniteSet(DOMAIN NoCalls)
    BY FewCalls
  <2>5. NamesUnknown(n)
    BY <1>7, <2>2
  <2>6. e.calls = NoCalls /\ ~e.next /\ e.unknown = <<w>> /\ e.nonOption = <<>>
    BY <1>16, <2>1
  <2>. HIDE DEF o, next, cs, u, text
  <2>7. EffectIs(e, n)
    BY <1>9, <1>11, <2>2, <2>3, <2>4, <2>5, <2>6 DEF EffectIs
  <2>. QED
    BY <2>7 DEF e, n, args
<1>15. CASE o # 0
  <2>1. o = found /\ found \in OptionIds /\ ByName(n) = {o} /\ (Takes(o, "no") => x = <<>>)
    BY <1>3, <1>13, <1>15
  <2>2. LacksArgument(n) <=> x = <<>> /\ Takes(o, "required")
    BY <1>6, <2>1
  <2>3. next <=> LacksArgument(n) /\ n < Len(args)
    BY <1>2, <1>15, <2>1, <2>2, OptionSomewhere
  <2>4. cs = OneCall(n, o, text) /\ u = <<>>
    <3>1. (IF next THEN args[n + 1] ELSE optarg) = text
      BY <1>2, <1>10, <2>2, <2>3
    <3>. QED
      BY <1>15, <3>1
  <2>5. \A p : PlacesFor(n, p) = IF p = o THEN {place} ELSE {}
    BY <1>5, <2>1
  <2>6. ~NamesUnknown(n)
    BY <1>7, <2>1, <2>5
  <2>7. e.calls = OneCall(n, o, text) /\ (e.next = next) /\ e.unknown = <<>> /\ e.nonOption = <<>>
    BY <1>16, <2>4
  <2>8. DOMAIN OneCall(n, o, text) = {place} /\ IsFiniteSet(DOMAIN OneCall(n, o, text))
    BY FewCalls
  <2>9. OneCall(n, o, text)[place].option = o /\ OneCall(n, o, text)[place].text = text
    BY DEF OneCall, Call
  <2>10. o \in OptionIds
    BY <2>1
  <2>11. ~Before(place, place)
    BY <1>4, BeforeIsOrder DEF Place
  <2>. HIDE DEF o, next, cs, u, text, place
  <2>12. \A p \in DOMAIN e.calls : p = place
    BY <2>7, <2>8
  <2>13. /\ \A p \in DOMAIN e.calls :
               /\ e.calls[p].option \in OptionIds
               /\ e.calls[p].text = TextAt(n, p[2], e.calls[p].option)
         /\ \A p \in OptionIds :
               {q \in DOMAIN e.calls : e.calls[q].option = p} = PlacesFor(n, p)
         /\ \A p, q \in DOMAIN e.calls :
               Before(p, q) => ArgumentType(options[e.calls[p].option]) = "no"
    BY <1>5, <2>5, <2>7, <2>8, <2>9, <2>10, <2>11, <2>12
  <2>14. e.next <=> LacksArgument(n) /\ n < Len(Args)
    BY <1>11, <2>3, <2>7
  <2>15. IsFiniteSet(DOMAIN e.calls) /\ DOMAIN e.calls \in SUBSET ({n} \X Nat)
    BY <1>12, <2>7, <2>8
  <2>16. EffectIs(e, n)
    BY <1>9, <2>6, <2>7, <2>13, <2>14, <2>15 DEF EffectIs
  <2>. QED
    BY <2>16 DEF e, n, args
<1>. QED
  BY <1>14, <1>15

\* -abc
LEMMA ShortIs ==
    ASSUME PoplInv, OptionsShape, CallShape, call.n <= Len(call.args), Short(call.n),
           ~Dashes(call.n), ~Long(call.n)
    PROVE  EffectIs(ShortEffect(options, call.args, call.n), call.n)
<1>. DEFINE n == call.n
            args == call.args
            e == ShortEffect(options, args, n)
            w == args[n]
            l == Len(w)
            o(c) == IfActive(options, FindShort(options, c))
            takes(c) == o(c) # 0 /\ ArgumentType(options[o(c)]) # "no"
            stop == SelectInSubSeq(w, 2, Len(w), takes)
            read == 2..(IF stop = 0 THEN Len(w) ELSE stop)
            known == {<<n, m>> : m \in {k \in read : o(w[k]) # 0}}
            rest == SubSeq(w, stop + 1, Len(w))
            next == /\ stop # 0 /\ ArgumentType(options[o(w[stop])]) = "required"
                    /\ rest = <<>> /\ n < Len(args)
            optarg(m) == IF m # stop THEN <<>> ELSE IF next THEN args[n + 1] ELSE rest
            cs == [p \in known |-> Call(o(w[p[2]]), optarg(p[2]))]
            u == IF \E m \in read : o(w[m]) = 0 THEN <<w>> ELSE <<>>
            I == {m \in 2..l : takes(w[m])}
<1>1. e = Effect(cs, next, u, <<>>)
  BY DEF ShortEffect
<1>2. e.calls = cs /\ (e.next = next) /\ e.unknown = u /\ e.nonOption = <<>>
  <2>. HIDE DEF e, cs, next, u
  <2>. QED
    BY <1>1, EffectParts
<1>3. /\ n \in Nat /\ n <= Len(args) /\ Len(args) \in Nat
      /\ w \in Seq(Token) /\ l \in Nat
  BY DEF CallShape
<1>4. Args = args /\ Args[n] = w
  BY DEF Args
<1>5. ASSUME NEW m \in 2..l
      PROVE  /\ \/ o(w[m]) = 0 /\ ByLetter(w[m]) = {}
                \/ o(w[m]) \in OptionIds /\ o(w[m]) # 0 /\ ByLetter(w[m]) = {o(w[m])}
             /\ takes(w[m]) <=> \E p \in ByLetter(w[m]) : ~Takes(p, "no")
  <2>. DEFINE c == w[m]
              f == o(c)
  <2>1. c # NoName
    <3>1. c \in Token
      <4>1. m \in 1..l
        BY <1>3
      <4>. HIDE DEF w
      <4>. QED
        BY <1>3, <4>1
    <3>. QED
      BY <3>1 DEF Token
  <2>2. f = IfActive(options, FindShort(options, c))
    OBVIOUS
  <2>. HIDE DEF c, f
  <2>3. (f = 0 /\ ByLetter(c) = {}) \/ (f \in OptionIds /\ f # 0 /\ ByLetter(c) = {f})
    BY <2>1, <2>2, FoundByLetter DEF OptionsShape
  <2>4. (f # 0 /\ ArgumentType(options[f]) # "no") <=> \E p \in ByLetter(c) : ~Takes(p, "no")
    BY <2>3, OptionSomewhere
  <2>. QED
    BY <2>3, <2>4 DEF c, f
<1>6. stop = IF I # {} THEN Min(I) ELSE 0
  BY DEF SelectInSubSeq
<1>7. (I = {} /\ stop = 0) \/ (stop \in I /\ \A j \in I : stop <= j)
  <2>1. I \in SUBSET Nat
    OBVIOUS
  <2>. HIDE DEF I, stop
  <2>. QED
    BY <1>6, <2>1, FirstOf
<1>8. \A m \in 2..l : m \in I <=> takes(w[m])
  OBVIOUS
<1>9. I \in SUBSET (2..l)
  OBVIOUS
<1>10. \A k : ReadAsLetter(n, k) <=> ~\E j \in 2..(k - 1) :
                                       \E p \in ByLetter(w[j]) : ~Takes(p, "no")
  BY <1>4 DEF ReadAsLetter
<1>11. /\ NamesUnknown(n) <=> \E k \in 2..l : ReadAsLetter(n, k) /\ ByLetter(w[k]) = {}
       /\ LacksArgument(n) <=> /\ l > 1 /\ ReadAsLetter(n, l)
                               /\ \E p \in ByLetter(w[l]) : Takes(p, "required")
  BY <1>4 DEF NamesUnknown, LacksArgument
<1>12. /\ \A p : PlacesFor(n, p) = {<<n, k>> : k \in {m \in 2..l : ReadAsLetter(n, m)
                                                                   /\ p \in ByLetter(w[m])}}
       /\ \A k, p : TextAt(n, k, p) =
             IF Takes(p, "no") THEN <<>>
             ELSE IF k = l /\ LacksArgument(n) THEN ArgumentAfter(n)
             ELSE SubSeq(w, k + 1, l)
  BY <1>4 DEF PlacesFor, TextAt
<1>13. Listing(EnteredAt(n), WordOf) = <<>>
  <2>1. EnteredAt(n) = {}
    BY DEF EnteredAt
  <2>. QED
    BY <2>1, EmptyListing
<1>14. ArgumentAfter(n) = IF n < Len(args) THEN args[n + 1] ELSE <<>>
  BY <1>4 DEF ArgumentAfter
<1>15. \A k \in 1..l : SubSeq(w, k + 1, l) = <<>> <=> k = l
  <2>. SUFFICES ASSUME NEW k \in 1..l PROVE SubSeq(w, k + 1, l) = <<>> <=> k = l
    OBVIOUS
  <2>1. k + 1 \in Int /\ l \in Int /\ (l < k + 1 <=> k = l)
    BY <1>3
  <2>2. CASE k = l
    BY <2>1, <2>2, SubSeqEmpty
  <2>3. CASE k # l
    <3>1. \A i \in (k + 1)..l : w[i] \in Token
      <4>1. \A i \in (k + 1)..l : i \in 1..l
        BY <1>3
      <4>. HIDE DEF w
      <4>. QED
        BY <1>3, <4>1
    <3>2. k + 1 <= l /\ l - (k + 1) + 1 # 0
      BY <1>3, <2>3
    <3>. HIDE DEF w, l
    <3>3. Len(SubSeq(w, k + 1, l)) = IF k + 1 <= l THEN l - (k + 1) + 1 ELSE 0
      BY <2>1, <3>1, SubSeqProperties
    <3>4. Len(SubSeq(w, k + 1, l)) # 0
      BY ONLY <3>2, <3>3
    <3>5. Len(<<>>) = 0
      OBVIOUS
    <3>6. SubSeq(w, k + 1, l) # <<>>
      BY ONLY <3>4, <3>5, Zenon
    <3>. QED
      BY <2>3, <3>6
  <2>. QED
    BY <2>2, <2>3
<1>. DEFINE q(m) == o(w[m])
<1>16. \A m \in 2..l : \/ q(m) = 0 /\ ByLetter(w[m]) = {}
                       \/ q(m) \in OptionIds /\ q(m) # 0 /\ ByLetter(w[m]) = {q(m)}
  BY <1>5
<1>17. \A m \in 2..l : m \in I <=> q(m) # 0 /\ ~Takes(q(m), "no")
  <2>. SUFFICES ASSUME NEW m \in 2..l
                PROVE  m \in I <=> q(m) # 0 /\ ~Takes(q(m), "no")
    OBVIOUS
  <2>. DEFINE f == q(m)
  <2>1. takes(w[m]) <=> f # 0 /\ ArgumentType(options[f]) # "no"
    OBVIOUS
  <2>2. m \in I <=> takes(w[m])
    BY <1>8
  <2>3. Takes(f, "no") <=> f # 0 /\ ArgumentType(options[f]) = "no"
    BY DEF Takes
  <2>. HIDE DEF f, takes, I, w
  <2>4. m \in I <=> f # 0 /\ ~Takes(f, "no")
    BY <2>1, <2>2, <2>3
  <2>. QED
    BY <2>4 DEF f
<1>18. /\ DOMAIN cs = {<<n, m>> : m \in {k \in read : q(k) # 0}}
       /\ \A p \in DOMAIN cs : /\ cs[p].option = q(p[2])
                              /\ cs[p].text = optarg(p[2])
       /\ \A m : m # stop => optarg(m) = <<>>
       /\ optarg(stop) = IF next THEN args[n + 1] ELSE rest
  <2>1. \A p \in known : cs[p] = Call(q(p[2]), optarg(p[2]))
    OBVIOUS
  <2>2. DOMAIN cs = known
    OBVIOUS
  <2>3. (\A m : m # stop => optarg(m) = <<>>)
        /\ optarg(stop) = IF next THEN args[n + 1] ELSE rest
    <3>. HIDE DEF stop, next, rest
    <3>. QED
      OBVIOUS
  <2>4. known = {<<n, m>> : m \in {k \in read : q(k) # 0}}
    OBVIOUS
  <2>. HIDE DEF cs, optarg, known, q, o
  <2>5. ASSUME NEW p \in known PROVE cs[p].option = q(p[2]) /\ cs[p].text = optarg(p[2])
    <3>. DEFINE a == q(p[2])
                b == optarg(p[2])
    <3>1. cs[p] = Call(a, b)
      BY <2>1
    <3>. HIDE DEF a, b
    <3>2. cs[p].option = a /\ cs[p].text = b
      BY <3>1 DEF Call
    <3>. QED
      BY <3>2 DEF a, b
  <2>. QED
    BY <2>2, <2>3, <2>4, <2>5
<1>19. /\ next <=> stop # 0 /\ ArgumentType(options[q(stop)]) = "required" /\ rest = <<>>
                   /\ n < Len(args)
       /\ u = IF \E m \in read : q(m) = 0 THEN <<w>> ELSE <<>>
       /\ rest = SubSeq(w, stop + 1, l)
       /\ read = 2..(IF stop = 0 THEN l ELSE stop)
  <2>1. u = IF \E m \in read : q(m) = 0 THEN <<w>> ELSE <<>>
    OBVIOUS
  <2>2. rest = SubSeq(w, stop + 1, l) /\ read = 2..(IF stop = 0 THEN l ELSE stop)
    OBVIOUS
  <2>3. ArgumentType(options[q(stop)]) = ArgumentType(options[o(w[stop])])
    OBVIOUS
  <2>. HIDE DEF u, rest, read, q, o, stop
  <2>. QED
    BY <2>1, <2>2, <2>3
<1>. HIDE DEF e, stop, read, known, rest, next, optarg, cs, u, I, q, o, takes, w, args, l, n
<1>20. read \in SUBSET (2..l)
  <2>1. stop = 0 \/ stop \in 2..l
    BY <1>7, <1>9
  <2>2. l \in Nat
    BY <1>3
  <2>. QED
    BY <1>19, <2>1, <2>2
<1>21. ASSUME NEW k \in 2..l PROVE ReadAsLetter(n, k) <=> k \in read
  <2>1. \A j \in 2..(k - 1) : j \in 2..l /\ j < k /\ j \in Nat
    BY <1>3
  <2>2. ReadAsLetter(n, k) <=> ~\E j \in 2..(k - 1) : j \in I
    <3>1. \A j \in 2..(k - 1) : j \in I <=> \E p \in ByLetter(w[j]) : ~Takes(p, "no")
      BY <1>5, <1>8, <2>1
    <3>. QED
      BY <1>10, <3>1
  <2>3. CASE I = {} /\ stop = 0
    BY <1>19, <2>2, <2>3
  <2>4. CASE stop \in I /\ \A j \in I : stop <= j
    <3>1. stop \in 2..l /\ stop # 0
      BY <1>9, <2>4
    <3>2. k \in read <=> k <= stop
      BY <1>19, <3>1
    <3>3. CASE k <= stop
      <4>1. ~\E j \in 2..(k - 1) : j \in I
        BY <1>9, <2>1, <2>4, <3>1, <3>3
      <4>. QED
        BY <2>2, <3>2, <3>3, <4>1
    <3>4. CASE ~(k <= stop)
      <4>1. stop \in 2..(k - 1)
        BY <3>1, <3>4
      <4>. QED
        BY <2>2, <2>4, <3>2, <3>4, <4>1
    <3>. QED
      BY <3>3, <3>4
  <2>. QED
    BY <1>7, <2>3, <2>4
\* Only the last letter read may take an argument.
<1>22. ASSUME NEW m \in read PROVE m \in I <=> m = stop /\ stop # 0
  <2>1. CASE I = {} /\ stop = 0
    BY <2>1
  <2>2. CASE stop \in I /\ \A j \in I : stop <= j
    <3>1. stop \in 2..l /\ stop # 0 /\ m <= stop /\ m \in Nat
      BY <1>9, <1>19, <2>2
    <3>2. m \in I => m = stop
      <4>. SUFFICES ASSUME m \in I PROVE m = stop
        OBVIOUS
      <4>1. stop <= m /\ m <= stop
        BY <2>2, <3>1
      <4>2. stop \in Nat
        BY <3>1
      <4>. QED
        BY ONLY <3>1, <4>1, <4>2
    <3>. QED
      BY <2>2, <3>1, <3>2
  <2>. QED
    BY <1>7, <2>1, <2>2
<1>23. stop # 0 => stop \in read /\ stop \in 2..l /\ stop \in I
  <2>. SUFFICES ASSUME stop # 0 PROVE stop \in read /\ stop \in 2..l /\ stop \in I
    OBVIOUS
  <2>1. stop \in I /\ stop \in 2..l
    BY <1>7, <1>9
  <2>2. read = 2..stop
    BY <1>19
  <2>. QED
    BY <2>1, <2>2
<1>24. stop # 0 => (rest = <<>> <=> stop = l)
  <2>. SUFFICES ASSUME stop # 0 PROVE rest = <<>> <=> stop = l
    OBVIOUS
  <2>1. stop \in 1..l
    BY <1>23
  <2>. QED
    BY <1>15, <1>19, <2>1
<1>25. LacksArgument(n) <=> stop # 0 /\ stop = l /\ Takes(q(stop), "required")
  <2>1. ASSUME LacksArgument(n) PROVE stop # 0 /\ stop = l /\ Takes(q(stop), "required")
    <3>1. l > 1 /\ ReadAsLetter(n, l) /\ \E p \in ByLetter(w[l]) : Takes(p, "required")
      BY <1>11, <2>1
    <3>2. l \in 2..l
      BY <1>3, <3>1
    <3>3. l \in read
      BY <1>21, <3>1, <3>2
    <3>4. q(l) # 0 /\ Takes(q(l), "required")
      BY <1>16, <3>1, <3>2
    <3>5. l \in I
      BY <1>17, <3>2, <3>4 DEF Takes
    <3>6. l = stop /\ stop # 0
      BY <1>22, <3>3, <3>5
    <3>. QED
      BY <3>4, <3>6
  <2>2. ASSUME stop # 0, stop = l, Takes(q(stop), "required") PROVE LacksArgument(n)
    <3>1. l \in 2..l /\ l \in read /\ l > 1
      BY <1>3, <1>23, <2>2
    <3>2. ReadAsLetter(n, l)
      BY <1>21, <3>1
    <3>3. q(l) \in ByLetter(w[l])
      <4>1. q(l) # 0
        BY <2>2 DEF Takes
      <4>. QED
        BY <1>16, <3>1, <4>1
    <3>. QED
      BY <1>11, <2>2, <3>1, <3>2, <3>3
  <2>. QED
    BY <2>1, <2>2
<1>26. next <=> LacksArgument(n) /\ n < Len(args)
  <2>1. stop # 0 => (Takes(q(stop), "required") <=> ArgumentType(options[q(stop)]) = "required")
    <3>. SUFFICES ASSUME stop # 0
                  PROVE  Takes(q(stop), "required")
                            <=> ArgumentType(options[q(stop)]) = "required"
      OBVIOUS
    <3>1. q(stop) # 0
      BY <1>17, <1>23
    <3>. QED
      BY <3>1 DEF Takes
  <2>. QED
    BY <1>19, <1>24, <1>25, <2>1
<1>27. ASSUME NEW p \in DOMAIN cs
       PROVE  /\ p = <<n, p[2]>> /\ p[2] \in read /\ p[2] \in 2..l /\ p[2] \in Nat
              /\ cs[p].option = q(p[2]) /\ q(p[2]) \in OptionIds /\ q(p[2]) # 0
              /\ ByLetter(w[p[2]]) = {q(p[2])}
  <2>1. PICK m \in read : p = <<n, m>> /\ q(m) # 0
    BY <1>18
  <2>2. p[2] = m /\ m \in 2..l
    BY <1>20, <2>1
  <2>3. m \in Nat
    BY <2>2
  <2>. QED
    BY <1>16, <1>18, <2>1, <2>2, <2>3
<1>28. ASSUME NEW p \in DOMAIN cs PROVE cs[p].text = TextAt(n, p[2], cs[p].option)
  <2>. DEFINE m == p[2]
  <2>1. m \in read /\ m \in 2..l /\ cs[p].option = q(m) /\ cs[p].text = optarg(m) /\ q(m) # 0
    BY <1>18, <1>27
  <2>. HIDE DEF m
  <2>2. CASE m # stop
    <3>1. Takes(q(m), "no")
      BY <1>17, <1>22, <2>1, <2>2
    <3>. QED
      BY <1>12, <1>18, <2>1, <2>2, <3>1 DEF m
  <2>3. CASE m = stop
    <3>1. stop # 0 /\ ~Takes(q(stop), "no")
      <4>1. stop # 0
        BY <2>1, <2>3
      <4>. QED
        BY <1>17, <1>23, <4>1
    <3>2. TextAt(n, m, q(m)) = IF stop = l /\ LacksArgument(n) THEN ArgumentAfter(n) ELSE rest
      BY <1>12, <1>19, <2>3, <3>1
    <3>3. LacksArgument(n) => stop = l /\ rest = <<>>
      BY <1>24, <1>25
    <3>4. optarg(m) = IF next THEN args[n + 1] ELSE rest
      BY <1>18, <2>3
    <3>5. optarg(m) = TextAt(n, m, q(m))
      BY <1>14, <1>26, <3>2, <3>3, <3>4
    <3>. QED
      BY <2>1, <3>5 DEF m
  <2>. QED
    BY <2>2, <2>3
<1>29. ASSUME NEW f \in OptionIds
       PROVE  {p \in DOMAIN cs : cs[p].option = f} = PlacesFor(n, f)
  <2>1. PlacesFor(n, f) = {<<n, k>> : k \in {m \in 2..l : ReadAsLetter(n, m)
                                                          /\ f \in ByLetter(w[m])}}
    BY <1>12
  <2>2. ASSUME NEW p \in DOMAIN cs, cs[p].option = f PROVE p \in PlacesFor(n, f)
    <3>1. p = <<n, p[2]>> /\ p[2] \in 2..l /\ f \in ByLetter(w[p[2]]) /\ ReadAsLetter(n, p[2])
      BY <1>21, <1>27, <2>2
    <3>. QED
      BY <2>1, <3>1
  <2>3. ASSUME NEW p \in PlacesFor(n, f) PROVE p \in DOMAIN cs /\ cs[p].option = f
    <3>1. PICK m \in 2..l : p = <<n, m>> /\ ReadAsLetter(n, m) /\ f \in ByLetter(w[m])
      BY <2>1
    <3>2. m \in read
      BY <1>21, <3>1
    <3>3. q(m) # 0 /\ q(m) = f
      BY <1>16, <3>1
    <3>4. p \in DOMAIN cs /\ p[2] = m
      BY <1>18, <3>1, <3>2, <3>3
    <3>. QED
      BY <1>27, <3>3, <3>4
  <2>. QED
    BY <2>2, <2>3
<1>30. ASSUME NEW p \in DOMAIN cs, NEW r \in DOMAIN cs, Before(p, r)
       PROVE  ArgumentType(options[cs[p].option]) = "no"
  <2>. DEFINE m == p[2]
              k == r[2]
  <2>1. m \in read /\ k \in read /\ m \in 2..l /\ m \in Nat /\ k \in Nat
        /\ p[1] = n /\ r[1] = n
    BY <1>27
  <2>2. m < k
    BY <1>3, <1>30, <2>1 DEF Before
  <2>. HIDE DEF m, k
  <2>3. ~(m = stop /\ stop # 0)
    BY <1>19, <2>1, <2>2
  <2>4. Takes(q(m), "no") /\ cs[p].option = q(m)
    BY <1>17, <1>22, <1>27, <2>1, <2>3 DEF m
  <2>. QED
    BY <2>4 DEF Takes
<1>31. u = IF NamesUnknown(n) THEN <<w>> ELSE <<>>
  <2>1. (\E m \in read : q(m) = 0) <=> NamesUnknown(n)
    <3>1. ASSUME NEW m \in read, q(m) = 0 PROVE NamesUnknown(n)
      BY <1>11, <1>16, <1>20, <1>21, <3>1
    <3>2. ASSUME NEW m \in 2..l, ReadAsLetter(n, m), ByLetter(w[m]) = {}
          PROVE  m \in read /\ q(m) = 0
      BY <1>16, <1>21, <3>2
    <3>. QED
      BY <1>11, <3>1, <3>2
  <2>. QED
    BY <1>19, <2>1
<1>32. IsFiniteSet(DOMAIN e.calls) /\ DOMAIN e.calls \in SUBSET ({n} \X Nat)
  <2>1. \A p \in DOMAIN cs : p \in {n} \X Nat
    BY <1>27
  <2>2. IsFiniteSet(DOMAIN e.calls)
    BY <1>3, ShortGood DEF GoodEffect, e, args, n, w, l
  <2>. QED
    BY <1>2, <2>1, <2>2
<1>33. EffectIs(e, n)
  <2>1. \A p \in DOMAIN cs : cs[p].option \in OptionIds
    BY <1>27
  <2>. QED
    BY <1>2, <1>4, <1>13, <1>26, <1>28, <1>29, <1>30, <1>31, <1>32, <2>1 DEF EffectIs
<1>. QED
  BY <1>33 DEF e, args, n

\* What the reference is made of does not change while a line is parsed.
SameLine == options' = options /\ default' = default /\ call'.args = call.args

\* The forms of the words are those of the line.
LEMMA SameWords ==
    ASSUME SameLine, NEW i
    PROVE  /\ Args' = Args /\ OptionIds' = OptionIds
           /\ Dashes(i)' <=> Dashes(i)
           /\ Long(i)' <=> Long(i)
           /\ Short(i)' <=> Short(i)
           /\ NameEnd(i)' = NameEnd(i)
           /\ Explicit(i)' = Explicit(i)
           /\ ArgumentAfter(i)' = ArgumentAfter(i)
           /\ EnteredAt(i)' = EnteredAt(i)
<1>1. Args' = Args /\ OptionIds' = OptionIds
  BY DEF SameLine, Args, OptionIds
<1>2. (Dashes(i)' <=> Dashes(i)) /\ (Long(i)' <=> Long(i))
  BY <1>1 DEF Dashes, Long
<1>3. Short(i)' <=> Short(i)
  BY <1>1, <1>2 DEF Short
<1>4. NameEnd(i)' = NameEnd(i)
  BY <1>1 DEF NameEnd
<1>5. Explicit(i)' = Explicit(i)
  BY <1>1, <1>4 DEF Explicit
<1>6. ArgumentAfter(i)' = ArgumentAfter(i)
  BY <1>1 DEF ArgumentAfter
<1>7. EnteredAt(i)' = EnteredAt(i)
  BY <1>1, <1>2, <1>3 DEF EnteredAt
<1>. QED
  BY <1>1, <1>2, <1>3, <1>4, <1>5, <1>6, <1>7

\* Which options a word names depends on the options only.
LEMMA SameOptions ==
    ASSUME SameLine, NEW i, NEW k, NEW o
    PROVE  /\ ByName(i)' = ByName(i)
           /\ ByLetter(k)' = ByLetter(k)
           /\ Takes(o, k)' <=> Takes(o, k)
           /\ ReadAsLetter(i, k)' <=> ReadAsLetter(i, k)
           /\ LacksArgument(i)' <=> LacksArgument(i)
           /\ IsArgument(i)' <=> IsArgument(i)
           /\ PlacesFor(i, o)' = PlacesFor(i, o)
           /\ TextAt(i, k, o)' = TextAt(i, k, o)
           /\ NamesUnknown(i)' <=> NamesUnknown(i)
           /\ WordsBefore(i)' = WordsBefore(i)
<1>1. options' = options /\ Args' = Args /\ OptionIds' = OptionIds
  BY SameWords DEF SameLine
<1>2. \A name : WithName(name)' = WithName(name)
  BY <1>1 DEF WithName
<1>3. \A j : ByName(j)' = ByName(j)
  BY <1>1, <1>2, SameWords DEF ByName
<1>4. \A c : ByLetter(c)' = ByLetter(c)
  BY <1>1 DEF ByLetter
<1>5. \A p, kind : Takes(p, kind)' <=> Takes(p, kind)
  BY <1>1 DEF Takes
<1>6. \A j, m : ReadAsLetter(j, m)' <=> ReadAsLetter(j, m)
  BY <1>1, <1>4, <1>5 DEF ReadAsLetter
<1>7. \A j : LacksArgument(j)' <=> LacksArgument(j)
  BY <1>1, <1>3, <1>4, <1>5, <1>6, SameWords DEF LacksArgument
<1>8. \A j : IsArgument(j)' <=> IsArgument(j)
  BY <1>7 DEF IsArgument
<1>9. \A j, p : PlacesFor(j, p)' = PlacesFor(j, p)
  <2>. SUFFICES ASSUME NEW j, NEW p PROVE PlacesFor(j, p)' = PlacesFor(j, p)
    OBVIOUS
  <2>1. (Long(j)' <=> Long(j)) /\ (Short(j)' <=> Short(j)) /\ Explicit(j)' = Explicit(j)
    BY SameWords
  <2>2. \A m : ByLetter(Args[j][m])' = ByLetter(Args[j][m])
    BY <1>1, <1>4
  <2>3. {m \in 2..Len(Args[j]) : ReadAsLetter(j, m) /\ p \in ByLetter(Args[j][m])}'
           = {m \in 2..Len(Args[j]) : ReadAsLetter(j, m) /\ p \in ByLetter(Args[j][m])}
    BY <1>1, <1>6, <2>2
  <2>4. CASE Long(j) /\ Short(j)
    BY <2>4 DEF Long, Short
  <2>5. CASE Long(j) /\ ~Short(j)
    BY <1>3, <1>5, <2>1, <2>5 DEF PlacesFor
  <2>6. CASE ~Long(j) /\ Short(j)
    BY <2>1, <2>3, <2>6 DEF PlacesFor
  <2>7. CASE ~Long(j) /\ ~Short(j)
    BY <2>1, <2>7 DEF PlacesFor
  <2>. QED
    BY <2>4, <2>5, <2>6, <2>7
<1>10. \A j, m, p : TextAt(j, m, p)' = TextAt(j, m, p)
  BY <1>1, <1>5, <1>7, SameWords DEF TextAt
<1>11. \A j : NamesUnknown(j)' <=> NamesUnknown(j)
  BY <1>1, <1>4, <1>6, <1>9, SameWords DEF NamesUnknown
<1>12. \A n : WordsBefore(n)' = WordsBefore(n)
  BY <1>8 DEF WordsBefore
<1>. QED
  BY <1>3, <1>4, <1>5, <1>6, <1>7, <1>8, <1>9, <1>10, <1>11, <1>12

\* What the reference says up to a word is the same after a step.
LEMMA SameReference ==
    ASSUME SameLine, NEW n, NEW o
    PROVE  /\ ReferenceValues(o, n)' = ReferenceValues(o, n)
           /\ ReferenceUnknown(n)' = ReferenceUnknown(n)
           /\ ListedNonOption(n)' = ListedNonOption(n)
<1>1. options' = options /\ default' = default /\ Args' = Args
  BY SameWords DEF SameLine
<1>2. \A p : ResultAt(p, o)' = ResultAt(p, o)
  BY <1>1, SameOptions DEF ResultAt
<1>3. WordsBefore(n)' = WordsBefore(n)
  BY SameOptions
<1>4. ReferenceValues(o, n)' = ReferenceValues(o, n)
  <2>1. \A i : PlacesFor(i, o)' = PlacesFor(i, o)
    BY SameOptions
  <2>2. {p \in UNION {PlacesFor(i, o) : i \in WordsBefore(n)} : ResultAt(p, o).error = "none"}'
           = {p \in UNION {PlacesFor(i, o) : i \in WordsBefore(n)} :
                 ResultAt(p, o).error = "none"}
    BY <1>2, <1>3, <2>1
  <2>. QED
    BY <1>2, <2>2 DEF ReferenceValues
<1>5. \A places : WordsAt(places)' = WordsAt(places)
  BY <1>1 DEF WordsAt
<1>6. ReferenceUnknown(n)' = ReferenceUnknown(n)
  BY <1>3, <1>5, SameOptions DEF ReferenceUnknown
<1>7. ListedNonOption(n)' = ListedNonOption(n)
  BY <1>3, <1>5, SameWords DEF ListedNonOption
<1>. QED
  BY <1>4, <1>6, <1>7

-----------------------------------------------------------------------------
(* The reference grows by a word.                                          *)

\* The places up to word n that give option o a value, and the values.
Given(o, n) ==
    {p \in UNION {PlacesFor(i, o) : i \in WordsBefore(n)} : ResultAt(p, o).error = "none"}
ValueAt(o) == [p \in Place |-> ResultAt(p, o).value]

\* The places of words that name no option, and of words that are none.
UnknownPlaces(n) == {<<i, i>> : i \in {j \in WordsBefore(n) : NamesUnknown(j)}}
EnteredPlaces(n) == UNION {EnteredAt(i) : i \in WordsBefore(n)}

\* A union of finite sets of places, one per word.
LEMMA UnionOfPlaces ==
    ASSUME NEW W, IsFiniteSet(W), NEW f, \A i \in W : IsFiniteSet(f[i])
    PROVE  IsFiniteSet(UNION {f[i] : i \in W})
<1>. DEFINE T == {f[i] : i \in W}
            g == [i \in W |-> f[i]]
<1>1. g \in Surjection(W, T)
  BY DEF Surjection
<1>2. IsFiniteSet(T)
  <2>. HIDE DEF g, T
  <2>. QED
    BY <1>1, FS_Surjection
<1>3. \A S \in T : IsFiniteSet(S)
  OBVIOUS
<1>. HIDE DEF T
<1>4. IsFiniteSet(UNION T)
  BY <1>2, <1>3, FS_UNION
<1>. QED
  BY <1>4 DEF T

\* The places of one word.
LEMMA PlacesOfWord ==
    ASSUME CallShape, NEW i \in 1..Len(Args), NEW o
    PROVE  /\ PlacesFor(i, o) \in SUBSET ({i} \X Nat) /\ IsFiniteSet(PlacesFor(i, o))
           /\ EnteredAt(i) \in SUBSET ({i} \X Nat) /\ IsFiniteSet(EnteredAt(i))
<1>. DEFINE m == Len(Args[i]) + 1
            l == Len(Args)
<1>1. Args[i] \in Seq(Token) /\ l \in Nat /\ i \in Nat /\ i <= l
  BY DEF CallShape, Args
<1>2. m \in Nat /\ 1 \in 1..m /\ \A k \in 2..Len(Args[i]) : k \in 1..m
  BY <1>1
<1>3. PlacesFor(i, o) \subseteq {i} \X (1..m)
  <2>1. PlacesFor(i, o) \subseteq {<<i, 1>>} \cup {<<i, k>> : k \in 2..Len(Args[i])}
    <3>. HIDE DEF m, l
    <3>. QED
      BY DEF PlacesFor
  <2>. HIDE DEF m
  <2>. QED
    BY <1>2, <2>1
<1>4. EnteredAt(i) \subseteq {i} \X (1..l)
  <2>1. EnteredAt(i) \subseteq {<<i, j>> : j \in (i + 1)..l} \cup {<<i, i>>}
    <3>. QED
      BY DEF EnteredAt
  <2>2. i \in 1..l /\ \A j \in (i + 1)..l : j \in 1..l
    BY <1>1
  <2>. HIDE DEF l
  <2>. QED
    BY <2>1, <2>2
<1>5. m \in Int /\ l \in Int
  BY <1>1, <1>2
<1>. HIDE DEF m, l
<1>6. IsFiniteSet(PlacesFor(i, o)) /\ IsFiniteSet(EnteredAt(i))
  BY <1>3, <1>4, <1>5, PlacesFinite
<1>7. \A k : 1..k \subseteq Nat
  OBVIOUS
<1>. QED
  BY <1>3, <1>4, <1>6, <1>7

\* The words before n, one more when n is a word of its own, and no more when
\* the next one is its argument.
LEMMA WordsGrow ==
    ASSUME NEW n \in Nat, n >= 1, ~IsArgument(n)
    PROVE  /\ WordsBefore(n + 1) = WordsBefore(n) \cup {n}
           /\ IsArgument(n + 1) => WordsBefore(n + 2) = WordsBefore(n) \cup {n}
           /\ WordsBefore(n) \in SUBSET (1..(n - 1)) /\ IsFiniteSet(WordsBefore(n))
<1>1. WordsBefore(n) = {i \in 1..(n - 1) : ~IsArgument(i)}
  BY DEF WordsBefore
<1>2. WordsBefore(n + 1) = {i \in 1..n : ~IsArgument(i)}
  <2>1. (n + 1) - 1 = n
    OBVIOUS
  <2>. QED
    BY <2>1 DEF WordsBefore
<1>3. WordsBefore(n + 2) = {i \in 1..(n + 1) : ~IsArgument(i)}
  <2>1. (n + 2) - 1 = n + 1
    OBVIOUS
  <2>. QED
    BY <2>1 DEF WordsBefore
<1>4. 1..n = (1..(n - 1)) \cup {n} /\ 1..(n + 1) = (1..n) \cup {n + 1}
  OBVIOUS
<1>5. IsFiniteSet(1..(n - 1))
  <2>1. 1 \in Int /\ n - 1 \in Int
    OBVIOUS
  <2>. QED
    BY <2>1, FS_Interval
<1>6. WordsBefore(n) \in SUBSET (1..(n - 1))
  BY <1>1
<1>. QED
  BY <1>1, <1>2, <1>3, <1>4, <1>5, <1>6, FS_Subset

\* The places of the words before n come before those of word n.
LEMMA PlacesBefore ==
    ASSUME CallShape, NEW n \in 1..Len(Args), ~IsArgument(n), NEW o
    PROVE  /\ Given(o, n) \in SUBSET Place /\ IsFiniteSet(Given(o, n))
           /\ UnknownPlaces(n) \in SUBSET Place /\ IsFiniteSet(UnknownPlaces(n))
           /\ EnteredPlaces(n) \in SUBSET Place /\ IsFiniteSet(EnteredPlaces(n))
           /\ \A p \in Given(o, n) \cup UnknownPlaces(n) \cup EnteredPlaces(n) :
                 \A q \in {n} \X Nat : Before(p, q)
<1>. DEFINE W == WordsBefore(n)
            f == [i \in W |-> PlacesFor(i, o)]
            g == [i \in W |-> EnteredAt(i)]
            h == [i \in W |-> {<<i, i>>}]
<1>1. n \in Nat /\ n >= 1 /\ n <= Len(Args) /\ Len(Args) \in Nat
  BY DEF CallShape, Args
<1>2. W \in SUBSET (1..(n - 1)) /\ IsFiniteSet(W)
  BY <1>1, WordsGrow
<1>3. ASSUME NEW i \in W
      PROVE  i \in 1..Len(Args) /\ i < n /\ i \in Nat
  <2>1. i \in 1..(n - 1)
    BY <1>2
  <2>. QED
    BY <1>1, <2>1
<1>4. \A i \in W : /\ PlacesFor(i, o) \in SUBSET ({i} \X Nat) /\ IsFiniteSet(PlacesFor(i, o))
                   /\ EnteredAt(i) \in SUBSET ({i} \X Nat) /\ IsFiniteSet(EnteredAt(i))
  BY <1>3, PlacesOfWord
<1>5. \A i \in W : IsFiniteSet(f[i]) /\ IsFiniteSet(g[i]) /\ IsFiniteSet(h[i])
  BY <1>4, FS_Singleton
<1>6. \A i \in W : f[i] = PlacesFor(i, o) /\ g[i] = EnteredAt(i) /\ h[i] = {<<i, i>>}
  OBVIOUS
<1>7. {f[i] : i \in W} = {PlacesFor(i, o) : i \in W} /\ {g[i] : i \in W} = {EnteredAt(i) : i \in W}
  BY <1>6
<1>. HIDE DEF f, g, h
<1>8. IsFiniteSet(UNION {f[i] : i \in W}) /\ IsFiniteSet(UNION {g[i] : i \in W})
      /\ IsFiniteSet(UNION {h[i] : i \in W})
  <2>. HIDE DEF W
  <2>1. IsFiniteSet(UNION {f[i] : i \in W})
    BY <1>2, <1>5, UnionOfPlaces
  <2>2. IsFiniteSet(UNION {g[i] : i \in W})
    BY <1>2, <1>5, UnionOfPlaces
  <2>3. IsFiniteSet(UNION {h[i] : i \in W})
    BY <1>2, <1>5, UnionOfPlaces
  <2>. QED
    BY <2>1, <2>2, <2>3
<1>9. Given(o, n) \in SUBSET (UNION {f[i] : i \in W})
  BY <1>7 DEF Given
<1>10. UnknownPlaces(n) \in SUBSET (UNION {h[i] : i \in W})
  BY <1>6 DEF UnknownPlaces
<1>11. EnteredPlaces(n) = UNION {g[i] : i \in W}
  BY <1>7 DEF EnteredPlaces
<1>12. IsFiniteSet(Given(o, n)) /\ IsFiniteSet(UnknownPlaces(n)) /\ IsFiniteSet(EnteredPlaces(n))
  BY <1>8, <1>9, <1>10, <1>11, FS_Subset
<1>13. ASSUME NEW p \in Given(o, n) \cup UnknownPlaces(n) \cup EnteredPlaces(n)
       PROVE  \E i \in W : p \in {i} \X Nat
  <2>1. \A i \in W : <<i, i>> \in {i} \X Nat
    BY <1>3
  <2>2. CASE p \in Given(o, n)
    BY <1>4, <2>2 DEF Given
  <2>3. CASE p \in UnknownPlaces(n)
    BY <2>1, <2>3 DEF UnknownPlaces
  <2>4. CASE p \in EnteredPlaces(n)
    BY <1>4, <2>4 DEF EnteredPlaces
  <2>. QED
    BY <2>2, <2>3, <2>4
<1>14. \A p \in Given(o, n) \cup UnknownPlaces(n) \cup EnteredPlaces(n) :
          p \in Place /\ \A q \in {n} \X Nat : Before(p, q)
  <2>. SUFFICES ASSUME NEW p \in Given(o, n) \cup UnknownPlaces(n) \cup EnteredPlaces(n)
                PROVE  p \in Place /\ \A q \in {n} \X Nat : Before(p, q)
    OBVIOUS
  <2>1. PICK i \in W : p \in {i} \X Nat
    BY <1>13
  <2>2. i < n /\ i \in Nat /\ p[1] = i
    BY <1>3, <2>1
  <2>. QED
    BY <2>1, <2>2 DEF Place, Before
<1>. QED
  BY <1>12, <1>14

\* After word n: its places too.
LEMMA PlacesGrow ==
    ASSUME NEW n, NEW m, WordsBefore(m) = WordsBefore(n) \cup {n}, NEW o
    PROVE  /\ Given(o, m) = Given(o, n) \cup {p \in PlacesFor(n, o) : ResultAt(p, o).error = "none"}
           /\ UnknownPlaces(m) = UnknownPlaces(n) \cup IF NamesUnknown(n) THEN {<<n, n>>} ELSE {}
           /\ EnteredPlaces(m) = EnteredPlaces(n) \cup EnteredAt(n)
BY DEF Given, UnknownPlaces, EnteredPlaces

\* The reference, said with listings.
LEMMA ReferenceIsListing ==
    ASSUME NEW o, NEW n
    PROVE  /\ Given(o, n) \in SUBSET Place /\ IsFiniteSet(Given(o, n))
                 => ReferenceValues(o, n) = Listing(Given(o, n), ValueAt(o))
           /\ UnknownPlaces(n) \in SUBSET Place /\ IsFiniteSet(UnknownPlaces(n))
                 => ReferenceUnknown(n) = Listing(UnknownPlaces(n), WordOf)
           /\ EnteredPlaces(n) \in SUBSET Place /\ IsFiniteSet(EnteredPlaces(n))
                 => ListedNonOption(n) = Listing(EnteredPlaces(n), WordOf)
<1>1. ASSUME NEW S \in SUBSET Place, IsFiniteSet(S)
      PROVE  WordsAt(S) = Listing(S, WordOf)
  <2>1. \A k \in 1..Cardinality(S) : InOrder(S)[k] \in Place
    BY <1>1, InOrderIn
  <2>2. \A p \in Place : WordOf[p] = Args[p[2]]
    BY DEF WordOf
  <2>. QED
    BY <2>1, <2>2 DEF WordsAt, Listing
<1>2. ASSUME Given(o, n) \in SUBSET Place, IsFiniteSet(Given(o, n))
      PROVE  ReferenceValues(o, n) = Listing(Given(o, n), ValueAt(o))
  <2>. DEFINE S == Given(o, n)
  <2>1. ReferenceValues(o, n) = [k \in 1..Cardinality(S) |-> ResultAt(InOrder(S)[k], o).value]
    BY DEF ReferenceValues, Given
  <2>. HIDE DEF S
  <2>2. \A k \in 1..Cardinality(S) : InOrder(S)[k] \in Place
    BY <1>2, InOrderIn DEF S
  <2>3. \A p \in Place : ValueAt(o)[p] = ResultAt(p, o).value
    BY DEF ValueAt
  <2>4. ReferenceValues(o, n) = Listing(S, ValueAt(o))
    BY <2>1, <2>2, <2>3 DEF Listing
  <2>. QED
    BY <2>4 DEF S
<1>3. ReferenceUnknown(n) = WordsAt(UnknownPlaces(n))
  BY DEF ReferenceUnknown, UnknownPlaces
<1>4. ListedNonOption(n) = WordsAt(EnteredPlaces(n))
  BY DEF ListedNonOption, EnteredPlaces
<1>. QED
  BY <1>1, <1>2, <1>3, <1>4

\* An option that takes no argument converts every text.
LEMMA SwitchNeverFails ==
    ASSUME FromCatalogue, NEW o \in OptionIds, ArgumentType(options[o]) = "no", NEW t
    PROVE  ParseOption(options[o], default[o], t).error = "none"
<1>1. options[o].kind = "Switch"
  <2>1. options[o].kind \in {"Value", "Implicit", "Switch"}
    BY DEF FromCatalogue, OptionIds, Descriptor
  <2>. QED
    BY <2>1 DEF ArgumentType
<1>. QED
  BY <1>1 DEF ParseOption, Ok

\* The parse calls of a word that go through: all but the one that throws, which
\* is the last.  For every option they are those the reference names.
LEMMA MadeIs ==
    ASSUME FromCatalogue, NEW n \in Nat, NEW e, EffectIs(e, n), NEW failing, NEW made,
           \A p : p \in failing <=> p \in DOMAIN e.calls /\ Parsed(e.calls[p]).error # "none",
           \A p : p \in made <=> p \in DOMAIN e.calls /\ \A q \in failing : Before(p, q)
    PROVE  /\ IsFiniteSet(made)
           /\ \A o \in OptionIds :
                 /\ \A p : p \in made /\ e.calls[p].option = o
                              <=> p \in PlacesFor(n, o) /\ ResultAt(p, o).error = "none"
                 /\ \A p \in PlacesFor(n, o) :
                       p \in Place /\ Parsed(e.calls[p]) = ResultAt(p, o)
<1>. DEFINE cs == e.calls
<1>1. /\ IsFiniteSet(DOMAIN cs) /\ DOMAIN cs \in SUBSET ({n} \X Nat)
      /\ \A p \in DOMAIN cs : /\ cs[p].option \in OptionIds
                              /\ cs[p].text = TextAt(n, p[2], cs[p].option)
      /\ \A o \in OptionIds : {p \in DOMAIN cs : cs[p].option = o} = PlacesFor(n, o)
      /\ \A p, q \in DOMAIN cs :
            Before(p, q) => ArgumentType(options[cs[p].option]) = "no"
  BY DEF EffectIs
<1>2. /\ \A p : p \in failing <=> p \in DOMAIN cs /\ Parsed(cs[p]).error # "none"
      /\ \A p : p \in made <=> p \in DOMAIN cs /\ \A q \in failing : Before(p, q)
  OBVIOUS
<1>. HIDE DEF cs
<1>3. \A p \in DOMAIN cs : p \in Place /\ p[1] = n
  BY <1>1 DEF Place
<1>4. ASSUME NEW p \in DOMAIN cs
      PROVE  Parsed(cs[p]) = ResultAt(p, cs[p].option)
  BY <1>1, <1>3 DEF Parsed, ResultAt
<1>5. ASSUME NEW p \in DOMAIN cs
      PROVE  p \in made <=> Parsed(cs[p]).error = "none"
  <2>1. ASSUME Parsed(cs[p]).error # "none" PROVE p \notin made
    <3>1. p \in failing /\ ~Before(p, p)
      BY <1>2, <1>3, <2>1, BeforeIsOrder
    <3>. QED
      BY <1>2, <3>1
  <2>2. ASSUME Parsed(cs[p]).error = "none", NEW q \in failing PROVE Before(p, q)
    <3>1. q \in DOMAIN cs /\ Parsed(cs[q]).error # "none"
      BY <1>2
    <3>2. p = q \/ Before(p, q) \/ Before(q, p)
      BY <1>3, <3>1, BeforeIsOrder
    <3>3. CASE Before(q, p)
      <4>1. ArgumentType(options[cs[q].option]) = "no" /\ cs[q].option \in OptionIds
        BY <1>1, <3>1, <3>3
      <4>2. Parsed(cs[q]).error = "none"
        BY <4>1, SwitchNeverFails DEF Parsed
      <4>. QED
        BY <3>1, <4>2
    <3>. QED
      BY <2>2, <3>1, <3>2, <3>3
  <2>. QED
    BY <1>2, <2>1, <2>2
<1>6. made \in SUBSET DOMAIN cs
  BY <1>2
<1>7. IsFiniteSet(made)
  BY <1>1, <1>6, FS_Subset
<1>8. ASSUME NEW o \in OptionIds
      PROVE  /\ \A p : p \in made /\ cs[p].option = o
                          <=> p \in PlacesFor(n, o) /\ ResultAt(p, o).error = "none"
             /\ \A p \in PlacesFor(n, o) : p \in Place /\ Parsed(cs[p]) = ResultAt(p, o)
  <2>1. \A p : p \in PlacesFor(n, o) <=> p \in DOMAIN cs /\ cs[p].option = o
    BY <1>1
  <2>2. \A p \in PlacesFor(n, o) : p \in Place /\ Parsed(cs[p]) = ResultAt(p, o)
    BY <1>3, <1>4, <2>1
  <2>. QED
    BY <1>5, <1>6, <2>1, <2>2
<1>. QED
  BY <1>7, <1>8 DEF cs

\* A listing is a sequence.
LEMMA ListingSequence ==
    ASSUME NEW S \in SUBSET Place, IsFiniteSet(S), NEW f
    PROVE  IsSequence(Listing(S, f))
<1>. DEFINE a == Listing(S, f)
<1>1. a \in Seq({f[p] : p \in S})
  BY ListingIsSequence
<1>. HIDE DEF a
<1>2. IsSequence(a)
  BY <1>1, SeqIsSequence
<1>. QED
  BY <1>2 DEF a

-----------------------------------------------------------------------------
(* Every parse is the reference.                                           *)

\* What the lists were when the parse began; the parse stands at a word that is
\* not the argument of the one before.
StartShape ==
    Parsing("argv") =>
        /\ \A o \in OptionIds : IsSequence(start.values[o])
        /\ IsSequence(start.unknown) /\ IsSequence(start.nonOption)
        /\ call.phase = "parsing" /\ call.n <= Len(call.args) => ~IsArgument(call.n)

CommandInv == StartShape /\ WordsParsed

\* What is to be shown of a step within a line: how far the lists are after it.
LEMMA CommandNext ==
    ASSUME CommandInv, Parsing("argv"), SameLine, start' = start,
           NEW m, call'.n = m, NEW k, WordsDone' = k,
           call'.phase = "parsing" /\ m <= Len(Args) => ~IsArgument(m),
           \A o \in OptionIds : values'[o] = start.values[o] \o ReferenceValues(o, k),
           unknown' = start.unknown \o ReferenceUnknown(m),
           nonOption' = start.nonOption \o ListedNonOption(m)
    PROVE  CommandInv'
<1>1. /\ Args' = Args /\ OptionIds' = OptionIds
      /\ IsArgument(m)' <=> IsArgument(m)
      /\ \A o : ReferenceValues(o, k)' = ReferenceValues(o, k)
      /\ ReferenceUnknown(m)' = ReferenceUnknown(m)
      /\ ListedNonOption(m)' = ListedNonOption(m)
  BY SameWords, SameOptions, SameReference
<1>2. WordsParsed'
  BY <1>1 DEF WordsParsed
<1>3. StartShape'
  <2>1. /\ \A o \in OptionIds : IsSequence(start.values[o])
        /\ IsSequence(start.unknown) /\ IsSequence(start.nonOption)
    BY DEF CommandInv, StartShape
  <2>2. call'.phase = "parsing" /\ call'.n <= Len(call'.args) => ~IsArgument(call.n)'
    BY <1>1 DEF Args
  <2>. QED
    BY <1>1, <2>1, <2>2 DEF StartShape
<1>. QED
  BY <1>2, <1>3 DEF CommandInv

\* One word, whatever its form.
LEMMA WordStep ==
    ASSUME PoplInv, Shape, CommandInv, AtWord("argv"),
           NEW e, EffectIs(e, call.n), ParseWord(e)
    PROVE  CommandInv'
<1>. DEFINE n == call.n
            failing == {p \in DOMAIN e.calls : Parsed(e.calls[p]).error # "none"}
            made == {p \in DOMAIN e.calls : \A q \in failing : Before(p, q)}
            T(o) == {p \in PlacesFor(n, o) : ResultAt(p, o).error = "none"}
            U == IF NamesUnknown(n) THEN {<<n, n>>} ELSE {}
            E == EnteredAt(n)
<1>1. /\ call.phase = "parsing" /\ call.source = "argv" /\ n \in 1..Len(Args)
      /\ n \in Nat /\ n >= 1 /\ Len(Args) \in Nat
      /\ DOMAIN call = {"phase", "source", "args", "n", "section", "error"}
  BY DEF AtWord, Calling, Shape, CallShape, Args
<1>2. /\ ~IsArgument(n)
      /\ \A o \in OptionIds :
            IsSequence(start.values[o]) /\ values[o] = start.values[o] \o ReferenceValues(o, n)
      /\ IsSequence(start.unknown) /\ unknown = start.unknown \o ReferenceUnknown(n)
      /\ IsSequence(start.nonOption) /\ nonOption = start.nonOption \o ListedNonOption(n)
  <2>1. Parsing("argv") /\ WordsDone = n /\ n <= Len(call.args)
    BY <1>1 DEF Parsing, WordsDone, AtWord
  <2>. QED
    BY <1>1, <2>1 DEF CommandInv, StartShape, WordsParsed
<1>3. /\ values' = AddValues(e.calls, made)
      /\ options' = options /\ default' = default /\ start' = start
      /\ \/ /\ unknown' = unknown \o e.unknown /\ nonOption' = nonOption \o e.nonOption
            /\ call' = [call EXCEPT !.n = @ + WordsTaken(e)]
         \/ /\ unknown' = unknown /\ nonOption' = nonOption
            /\ \E x : call' = [call EXCEPT !.phase = "threw", !.error = x]
  BY DEF ParseWord, Apply, SetState
<1>4. SameLine /\ OptionIds' = OptionIds /\ Args' = Args
  <2>1. call'.args = call.args
    BY <1>1, <1>3
  <2>2. SameLine
    BY <1>3, <2>1 DEF SameLine
  <2>. QED
    BY <2>2, SameWords
<1>5. /\ ~IsArgument(1)
      /\ IsArgument(n + 1) <=> LacksArgument(n)
      /\ IsArgument(n + 1) => ~IsArgument((n + 1) + 1)
  <2>. HIDE DEF n
  <2>1. n + 1 \in Nat /\ n + 1 >= 1
    BY ONLY <1>1
  <2>2. ~IsArgument(1) /\ (IsArgument(n + 1) <=> LacksArgument(n) /\ ~IsArgument(n))
    BY <1>1, ArgumentOrNot
  <2>3. IsArgument((n + 1) + 1) <=> LacksArgument(n + 1) /\ ~IsArgument(n + 1)
    BY <2>1, ArgumentOrNot
  <2>. QED
    BY <1>2, <2>2, <2>3
<1>6. e.next <=> LacksArgument(n) /\ n < Len(Args)
  BY DEF EffectIs
\* Where the places of the words are, up to this one.
<1>7. ASSUME NEW o
      PROVE  /\ Given(o, n) \in SUBSET Place /\ IsFiniteSet(Given(o, n))
             /\ UnknownPlaces(n) \in SUBSET Place /\ IsFiniteSet(UnknownPlaces(n))
             /\ EnteredPlaces(n) \in SUBSET Place /\ IsFiniteSet(EnteredPlaces(n))
             /\ \A p \in Given(o, n) \cup UnknownPlaces(n) \cup EnteredPlaces(n) :
                   \A q \in {n} \X Nat : Before(p, q)
  BY <1>1, <1>2, PlacesBefore DEF Shape
<1>8. /\ E \in SUBSET ({n} \X Nat) /\ IsFiniteSet(E)
      /\ U \in SUBSET ({n} \X Nat) /\ IsFiniteSet(U)
      /\ \A o : T(o) \in SUBSET ({n} \X Nat) /\ IsFiniteSet(T(o))
  <2>1. E \in SUBSET ({n} \X Nat) /\ IsFiniteSet(E)
    BY <1>1, PlacesOfWord DEF Shape
  <2>2. U \in SUBSET ({n} \X Nat) /\ IsFiniteSet(U)
    <3>1. U = {} \/ U = {<<n, n>>}
      OBVIOUS
    <3>2. <<n, n>> \in {n} \X Nat
      BY <1>1
    <3>3. IsFiniteSet({}) /\ IsFiniteSet({<<n, n>>})
      BY FS_EmptySet, FS_Singleton
    <3>. HIDE DEF U, n
    <3>4. CASE U = {}
      BY <3>3, <3>4
    <3>5. CASE U = {<<n, n>>}
      BY <3>2, <3>3, <3>5
    <3>. QED
      BY <3>1, <3>4, <3>5
  <2>3. ASSUME NEW o PROVE T(o) \in SUBSET ({n} \X Nat) /\ IsFiniteSet(T(o))
    <3>1. PlacesFor(n, o) \in SUBSET ({n} \X Nat) /\ IsFiniteSet(PlacesFor(n, o))
      BY <1>1, PlacesOfWord DEF Shape
    <3>2. T(o) \in SUBSET PlacesFor(n, o)
      OBVIOUS
    <3>. HIDE DEF T, n
    <3>. QED
      BY <3>1, <3>2, FS_Subset
  <2>. QED
    BY <2>1, <2>2, <2>3
<1>9. {n} \X Nat \subseteq Place
  BY <1>1 DEF Place
\* The values after the word.
<1>10. ASSUME NEW o \in OptionIds
       PROVE  values'[o] = start.values[o] \o Listing(Given(o, n) \cup T(o), ValueAt(o))
  <2>. DEFINE S == {p \in made : e.calls[p].option = o}
              new == [k \in 1..Cardinality(S) |-> Parsed(e.calls[InOrder(S)[k]]).value]
  <2>1. S = T(o) /\ \A p \in PlacesFor(n, o) :
                       p \in Place /\ Parsed(e.calls[p]) = ResultAt(p, o)
    <3>1. FromCatalogue /\ n \in Nat /\ EffectIs(e, n)
      BY <1>1 DEF Shape, OptionsShape
    <3>. HIDE DEF failing, made, n, T, S
    <3>2. /\ \A p : p \in failing <=> p \in DOMAIN e.calls /\ Parsed(e.calls[p]).error # "none"
          /\ \A p : p \in made <=> p \in DOMAIN e.calls /\ \A q \in failing : Before(p, q)
      BY DEF failing, made
    <3>3. /\ \A p : p \in made /\ e.calls[p].option = o
                       <=> p \in PlacesFor(n, o) /\ ResultAt(p, o).error = "none"
          /\ \A p \in PlacesFor(n, o) :
                p \in Place /\ Parsed(e.calls[p]) = ResultAt(p, o)
      BY <3>1, <3>2, MadeIs
    <3>. QED
      BY <3>3 DEF S, T
  <2>2. values'[o] = values[o] \o new
    BY <1>3 DEF AddValues
  <2>3. new = Listing(T(o), ValueAt(o))
    <3>1. \A k \in 1..Cardinality(S) : InOrder(S)[k] \in S
      <4>. HIDE DEF S, T, n
      <4>1. S \in SUBSET Place /\ IsFiniteSet(S)
        BY <1>8, <1>9, <2>1
      <4>. QED
        BY <4>1, InOrderIn
    <3>2. \A p \in T(o) : Parsed(e.calls[p]).value = ValueAt(o)[p]
      BY <2>1 DEF ValueAt
    <3>3. new = [k \in 1..Cardinality(S) |-> ValueAt(o)[InOrder(S)[k]]]
      <4>. HIDE DEF S, T
      <4>. QED
        BY <2>1, <3>1, <3>2
    <3>. HIDE DEF S, T, new
    <3>. QED
      BY <2>1, <3>3 DEF Listing
  <2>4. ReferenceValues(o, n) = Listing(Given(o, n), ValueAt(o))
    BY <1>7, ReferenceIsListing
  <2>5. T(o) \in SUBSET Place
    BY <1>8, <1>9
  <2>. HIDE DEF new, T, S, n
  <2>6. (start.values[o] \o Listing(Given(o, n), ValueAt(o))) \o Listing(T(o), ValueAt(o))
           = start.values[o] \o Listing(Given(o, n) \cup T(o), ValueAt(o))
    <3>. DEFINE G == Given(o, n)
                s == start.values[o]
    <3>1. G \in SUBSET Place /\ IsFiniteSet(G) /\ IsSequence(s)
      BY <1>2, <1>7
    <3>2. T(o) \in SUBSET Place /\ IsFiniteSet(T(o))
      BY <1>8, <2>5
    <3>3. \A p \in G : \A q \in T(o) : Before(p, q)
      BY <1>7, <1>8
    <3>4. Listing(G \cup T(o), ValueAt(o)) = Listing(G, ValueAt(o)) \o Listing(T(o), ValueAt(o))
      BY <3>1, <3>2, <3>3, ListingAppends
    <3>. DEFINE a == Listing(G, ValueAt(o))
                b == Listing(T(o), ValueAt(o))
                c == Listing(G \cup T(o), ValueAt(o))
    <3>5. IsSequence(a) /\ IsSequence(b)
      BY <3>1, <3>2, ListingSequence
    <3>6. c = a \o b
      BY <3>4
    <3>. HIDE DEF G, s, a, b, c
    <3>7. (s \o a) \o b = s \o c
      <4>1. (s \o a) \o b = s \o (a \o b)
        BY <3>1, <3>5, ConcatGroups
      <4>. QED
        BY <3>6, <4>1
    <3>. QED
      BY <3>7 DEF G, s, a, b, c
  <2>. QED
    BY <1>2, <2>2, <2>3, <2>4, <2>6
\* The lists after the word.
<1>11. e.unknown = Listing(U, WordOf) /\ e.nonOption = Listing(E, WordOf)
  <2>1. e.nonOption = Listing(E, WordOf)
    BY DEF EffectIs
  <2>2. e.unknown = IF NamesUnknown(n) THEN <<Args[n]>> ELSE <<>>
    BY DEF EffectIs
  <2>3. <<n, n>> \in Place /\ WordOf[<<n, n>>] = Args[n]
    BY <1>1 DEF Place, WordOf
  <2>4. Listing({<<n, n>>}, WordOf) = <<Args[n]>> /\ Listing({}, WordOf) = <<>>
    BY <2>3, ListingOfOne, EmptyListing
  <2>. QED
    BY <2>1, <2>2, <2>4
<1>12. /\ unknown \o e.unknown = start.unknown \o Listing(UnknownPlaces(n) \cup U, WordOf)
       /\ nonOption \o e.nonOption
             = start.nonOption \o Listing(EnteredPlaces(n) \cup E, WordOf)
  <2>1. ReferenceUnknown(n) = Listing(UnknownPlaces(n), WordOf)
        /\ ListedNonOption(n) = Listing(EnteredPlaces(n), WordOf)
    BY <1>7, ReferenceIsListing
  <2>2. U \in SUBSET Place /\ E \in SUBSET Place
    BY <1>8, <1>9
  <2>. HIDE DEF U, E, n
  <2>3. (start.unknown \o Listing(UnknownPlaces(n), WordOf)) \o Listing(U, WordOf)
           = start.unknown \o Listing(UnknownPlaces(n) \cup U, WordOf)
    <3>. DEFINE G == UnknownPlaces(n)
                s == start.unknown
    <3>1. G \in SUBSET Place /\ IsFiniteSet(G) /\ IsSequence(s)
      BY <1>2, <1>7
    <3>2. U \in SUBSET Place /\ IsFiniteSet(U)
      BY <1>8, <2>2
    <3>3. \A p \in G : \A q \in U : Before(p, q)
      BY <1>7, <1>8
    <3>4. Listing(G \cup U, WordOf) = Listing(G, WordOf) \o Listing(U, WordOf)
      BY <3>1, <3>2, <3>3, ListingAppends
    <3>. DEFINE a == Listing(G, WordOf)
                b == Listing(U, WordOf)
                c == Listing(G \cup U, WordOf)
    <3>5. IsSequence(a) /\ IsSequence(b)
      BY <3>1, <3>2, ListingSequence
    <3>6. c = a \o b
      BY <3>4
    <3>. HIDE DEF G, s, a, b, c
    <3>7. (s \o a) \o b = s \o c
      <4>1. (s \o a) \o b = s \o (a \o b)
        BY <3>1, <3>5, ConcatGroups
      <4>. QED
        BY <3>6, <4>1
    <3>. QED
      BY <3>7 DEF G, s, a, b, c
  <2>4. (start.nonOption \o Listing(EnteredPlaces(n), WordOf)) \o Listing(E, WordOf)
           = start.nonOption \o Listing(EnteredPlaces(n) \cup E, WordOf)
    <3>. DEFINE G == EnteredPlaces(n)
                s == start.nonOption
    <3>1. G \in SUBSET Place /\ IsFiniteSet(G) /\ IsSequence(s)
      BY <1>2, <1>7
    <3>2. E \in SUBSET Place /\ IsFiniteSet(E)
      BY <1>8, <2>2
    <3>3. \A p \in G : \A q \in E : Before(p, q)
      BY <1>7, <1>8
    <3>4. Listing(G \cup E, WordOf) = Listing(G, WordOf) \o Listing(E, WordOf)
      BY <3>1, <3>2, <3>3, ListingAppends
    <3>. DEFINE a == Listing(G, WordOf)
                b == Listing(E, WordOf)
                c == Listing(G \cup E, WordOf)
    <3>5. IsSequence(a) /\ IsSequence(b)
      BY <3>1, <3>2, ListingSequence
    <3>6. c = a \o b
      BY <3>4
    <3>. HIDE DEF G, s, a, b, c
    <3>7. (s \o a) \o b = s \o c
      <4>1. (s \o a) \o b = s \o (a \o b)
        BY <3>1, <3>5, ConcatGroups
      <4>. QED
        BY <3>6, <4>1
    <3>. QED
      BY <3>7 DEF G, s, a, b, c
  <2>. QED
    BY <1>2, <1>11, <2>1, <2>3, <2>4
\* What the reference says after the word: the same behind its argument.
<1>13. ASSUME NEW m, WordsBefore(m) = WordsBefore(n) \cup {n}
       PROVE  /\ \A o \in OptionIds : values'[o] = start.values[o] \o ReferenceValues(o, m)
              /\ unknown \o e.unknown = start.unknown \o ReferenceUnknown(m)
              /\ nonOption \o e.nonOption = start.nonOption \o ListedNonOption(m)
  <2>1. /\ \A o : Given(o, m) = Given(o, n) \cup T(o)
        /\ UnknownPlaces(m) = UnknownPlaces(n) \cup U
        /\ EnteredPlaces(m) = EnteredPlaces(n) \cup E
    BY <1>13, PlacesGrow
  <2>2. \A o : T(o) \in SUBSET Place
    BY <1>8, <1>9
  <2>3. U \in SUBSET Place /\ E \in SUBSET Place
    BY <1>8, <1>9
  <2>. HIDE DEF U, E, n, T
  <2>4. ASSUME NEW o
        PROVE  /\ Given(o, m) \in SUBSET Place /\ IsFiniteSet(Given(o, m))
               /\ UnknownPlaces(m) \in SUBSET Place /\ IsFiniteSet(UnknownPlaces(m))
               /\ EnteredPlaces(m) \in SUBSET Place /\ IsFiniteSet(EnteredPlaces(m))
    <3>1. /\ Given(o, n) \cup T(o) \in SUBSET Place /\ IsFiniteSet(Given(o, n) \cup T(o))
          /\ UnknownPlaces(n) \cup U \in SUBSET Place /\ IsFiniteSet(UnknownPlaces(n) \cup U)
          /\ EnteredPlaces(n) \cup E \in SUBSET Place /\ IsFiniteSet(EnteredPlaces(n) \cup E)
      BY <1>7, <1>8, <2>2, <2>3, FS_Union
    <3>. QED
      BY <2>1, <3>1
  <2>5. /\ \A o : ReferenceValues(o, m) = Listing(Given(o, m), ValueAt(o))
        /\ ReferenceUnknown(m) = Listing(UnknownPlaces(m), WordOf)
        /\ ListedNonOption(m) = Listing(EnteredPlaces(m), WordOf)
    BY <2>4, ReferenceIsListing
  <2>. QED
    BY <1>10, <1>12, <2>1, <2>5
<1>14. WordsBefore(n + 1) = WordsBefore(n) \cup {n}
       /\ (IsArgument(n + 1) => WordsBefore(n + 2) = WordsBefore(n) \cup {n})
  <2>. HIDE DEF n
  <2>. QED
    BY <1>1, <1>2, WordsGrow
<1>15. Parsing("argv") /\ n + 1 \in Nat /\ n + 2 \in Nat /\ (n + 1) + 1 = n + 2
  BY <1>1 DEF Parsing
<1>. HIDE DEF failing, made, T, U, E
<1>16. CASE /\ unknown' = unknown /\ nonOption' = nonOption
            /\ \E x : call' = [call EXCEPT !.phase = "threw", !.error = x]
  <2>1. call'.phase = "threw" /\ call'.n = n /\ n <= Len(Args)'
    BY <1>1, <1>4, <1>16
  <2>2. WordsDone' = n + 1
    BY <2>1 DEF WordsDone
  <2>3. \A o \in OptionIds : values'[o] = start.values[o] \o ReferenceValues(o, n + 1)
    <3>. HIDE DEF n
    <3>. QED
      BY <1>13, <1>14
  <2>. HIDE DEF n
  <2>. QED
    BY <1>2, <1>3, <1>4, <1>15, <1>16, <2>1, <2>2, <2>3, CommandNext
<1>17. CASE /\ unknown' = unknown \o e.unknown /\ nonOption' = nonOption \o e.nonOption
            /\ call' = [call EXCEPT !.n = @ + WordsTaken(e)]
  <2>. DEFINE m == n + WordsTaken(e)
  <2>1. call'.phase = "parsing" /\ call'.n = m
    BY <1>1, <1>17
  <2>2. WordsDone' = m
    BY <2>1 DEF WordsDone
  <2>3. m = n + 1 \/ m = n + 2
    BY DEF WordsTaken
  <2>4. WordsBefore(m) = WordsBefore(n) \cup {n} /\ (m <= Len(Args) => ~IsArgument(m))
    <3>1. CASE e.next
      <4>1. IsArgument(n + 1) /\ m = n + 2
        BY <1>5, <1>6, <3>1 DEF WordsTaken
      <4>. QED
        BY <1>5, <1>14, <1>15, <4>1
    <3>2. CASE ~e.next
      <4>1. m = n + 1
        BY <3>2 DEF WordsTaken
      <4>2. m <= Len(Args) => n < Len(Args)
        BY <1>1, <4>1
      <4>. QED
        BY <1>5, <1>6, <1>14, <3>2, <4>1, <4>2
    <3>. QED
      BY <3>1, <3>2
  <2>. HIDE DEF n, m
  <2>5. /\ \A o \in OptionIds : values'[o] = start.values[o] \o ReferenceValues(o, m)
        /\ unknown' = start.unknown \o ReferenceUnknown(m)
        /\ nonOption' = start.nonOption \o ListedNonOption(m)
    BY <1>13, <1>17, <2>4
  <2>. QED
    BY <1>3, <1>4, <1>15, <2>1, <2>2, <2>4, <2>5, CommandNext
<1>. QED
  BY <1>3, <1>16, <1>17

\* Each of the four cases of the loop has the effect the reference states.
LEMMA WordIs ==
    ASSUME PoplInv, Shape, ParseDashes \/ ParseLong \/ ParseShort \/ ParsePlain
    PROVE  AtWord("argv") /\ \E e : EffectIs(e, call.n) /\ ParseWord(e)
<1>1. AtWord("argv") /\ call.n <= Len(call.args) /\ CallShape /\ OptionsShape
  BY DEF ParseDashes, ParseLong, ParseShort, ParsePlain, AtWord, Shape
<1>2. /\ IsDashes <=> Dashes(call.n)
      /\ IsLong <=> Long(call.n)
      /\ IsShort <=> Short(call.n)
      /\ Dashes(call.n) => ~Long(call.n) /\ ~Short(call.n)
      /\ Long(call.n) => ~Short(call.n)
  BY <1>1, WordForms
<1>3. CASE ParseDashes
  BY <1>1, <1>2, <1>3, DashesIs DEF ParseDashes
<1>4. CASE ParseLong
  BY <1>1, <1>2, <1>4, LongIs DEF ParseLong
<1>5. CASE ParseShort
  BY <1>1, <1>2, <1>5, ShortIs DEF ParseShort
<1>6. CASE ParsePlain
  BY <1>1, <1>2, <1>6, PlainIs DEF ParsePlain
<1>. QED
  BY <1>1, <1>3, <1>4, <1>5, <1>6

\* The two lists of a parser are sequences.
ListsGiven == IsSequence(unknown) /\ IsSequence(nonOption)

\* The lists of no text and of one.
LEMMA OneOrNone == IsSequence(<<>>) /\ \A v : IsSequence(<<v>>)
<1>1. <<>> \in Seq({}) /\ \A v : <<v>> \in Seq({v})
  OBVIOUS
<1>. QED
  BY <1>1, SeqIsSequence

\* Every step leaves the lists sequences.
LEMMA ListsGivenStep == PoplInv /\ Shape /\ ListsGiven /\ [Next]_vars => ListsGiven'
<1>. SUFFICES ASSUME PoplInv, Shape, ListsGiven, [Next]_vars PROVE ListsGiven'
  OBVIOUS
<1>1. IsSequence(<<>>) /\ \A v : IsSequence(<<v>>)
  BY OneOrNone
<1>2. ASSUME NEW e, NEW taken, Apply(e, taken),
             IsSequence(e.unknown), IsSequence(e.nonOption)
      PROVE  ListsGiven'
  <2>1. \/ unknown' = unknown \o e.unknown /\ nonOption' = nonOption \o e.nonOption
        \/ unknown' = unknown /\ nonOption' = nonOption
    BY <1>2 DEF Apply
  <2>2. IsSequence(unknown \o e.unknown) /\ IsSequence(nonOption \o e.nonOption)
    BY <1>2, ConcatIsSequence DEF ListsGiven
  <2>. QED
    BY <2>1, <2>2 DEF ListsGiven
<1>3. CASE ParseDashes \/ ParseLong \/ ParseShort \/ ParsePlain
  <2>1. AtWord("argv") /\ \E e : EffectIs(e, call.n) /\ ParseWord(e)
    BY <1>3, WordIs
  <2>2. PICK e : EffectIs(e, call.n) /\ ParseWord(e)
    BY <2>1
  <2>3. e.unknown = (IF NamesUnknown(call.n) THEN <<Args[call.n]>> ELSE <<>>)
        /\ e.nonOption = Listing(EnteredAt(call.n), WordOf)
    BY <2>2 DEF EffectIs
  <2>4. IsSequence(e.unknown)
    BY <1>1, <2>3
  <2>5. IsSequence(e.nonOption)
    <3>1. call.n \in 1..Len(Args) /\ call.n \in Nat /\ CallShape
      BY <2>1 DEF AtWord, Shape, CallShape, Args
    <3>2. EnteredAt(call.n) \in SUBSET ({call.n} \X Nat) /\ IsFiniteSet(EnteredAt(call.n))
      BY <3>1, PlacesOfWord
    <3>3. EnteredAt(call.n) \in SUBSET Place
      BY <3>1, <3>2 DEF Place
    <3>. QED
      BY <2>3, <3>2, <3>3, ListingSequence
  <2>. QED
    BY <1>2, <2>2, <2>4, <2>5 DEF ParseWord
<1>4. CASE EntryLine
  <2>1. \E e : Apply(e, 1) /\ IsSequence(e.unknown) /\ IsSequence(e.nonOption)
    <3>1. \A u : /\ Effect(NoCalls, FALSE, u, <<>>).unknown = u
                 /\ Effect(NoCalls, FALSE, u, <<>>).nonOption = <<>>
      BY DEF Effect
    <3>2. \A n, o, t : /\ Effect(OneCall(n, o, t), FALSE, <<>>, <<>>).unknown = <<>>
                       /\ Effect(OneCall(n, o, t), FALSE, <<>>, <<>>).nonOption = <<>>
      BY DEF Effect
    <3>3. PICK key, o : Apply(IF o = 0 THEN Effect(NoCalls, FALSE, <<key>>, <<>>)
                              ELSE Effect(OneCall(call.n, o, KeyValue), FALSE, <<>>, <<>>), 1)
      BY <1>4 DEF EntryLine
    <3>4. CASE o = 0
      <4>. DEFINE e == Effect(NoCalls, FALSE, <<key>>, <<>>)
      <4>1. Apply(e, 1)
        BY <3>3, <3>4
      <4>2. IsSequence(e.unknown) /\ IsSequence(e.nonOption)
        BY <1>1, <3>1
      <4>. HIDE DEF e
      <4>. QED
        BY <4>1, <4>2
    <3>5. CASE o # 0
      <4>. DEFINE e == Effect(OneCall(call.n, o, KeyValue), FALSE, <<>>, <<>>)
      <4>1. Apply(e, 1)
        BY <3>3, <3>5
      <4>2. IsSequence(e.unknown) /\ IsSequence(e.nonOption)
        BY <1>1, <3>2
      <4>. HIDE DEF e
      <4>. QED
        BY <4>1, <4>2
    <3>. QED
      BY <3>4, <3>5
  <2>. QED
    BY <1>2, <2>1
<1>5. CASE SkipLine \/ SectionLine \/ EndFile \/ EndCommand \/ UNCHANGED vars
  BY <1>5 DEF SkipLine, SectionLine, EndFile, EndCommand, vars, ListsGiven
<1>6. CASE ProgramCall
  BY <1>1, <1>6 DEF ProgramCall, Add, Reset, AssignTo, SetDefault, SetValue, SetAttribute,
                    ParseCommand, ParseFile, Begin, ListsGiven
<1>. QED
  BY <1>3, <1>4, <1>5, <1>6 DEF Next, ParseStep

\* The beginning of a parse.
LEMMA CommandBegins ==
    ASSUME PoplInv, Shape, ListsGiven, NEW args, Begin("argv", args)
    PROVE  CommandInv'
<1>1. /\ UNCHANGED <<options, values, default, nonOption, unknown>>
      /\ call' = [Idle EXCEPT !.phase = "parsing", !.source = "argv", !.args = args]
      /\ start' = [values |-> values, nonOption |-> nonOption, unknown |-> unknown]
  BY DEF Begin
<1>2. call'.n = 1 /\ call'.phase = "parsing" /\ call'.source = "argv"
  BY <1>1 DEF Idle
<1>3. WordsDone' = 1
  BY <1>2 DEF WordsDone
<1>4. WordsBefore(1)' = {}
  BY DEF WordsBefore
<1>5. /\ \A o : ReferenceValues(o, 1)' = <<>>
      /\ ReferenceUnknown(1)' = <<>> /\ ListedNonOption(1)' = <<>>
  <2>1. Cardinality({}) = 0 /\ 1..0 = {}
    BY FS_EmptySet
  <2>2. /\ UnknownPlaces(1)' = {} /\ EnteredPlaces(1)' = {}
        /\ \A o : Given(o, 1)' = {}
    BY <1>4 DEF UnknownPlaces, EnteredPlaces, Given
  <2>3. ASSUME NEW o PROVE ReferenceValues(o, 1)' = <<>>
    <3>1. ReferenceValues(o, 1)'
             = [k \in 1..Cardinality(Given(o, 1)') |-> ResultAt(InOrder(Given(o, 1))[k], o)'.value]
      BY DEF ReferenceValues, Given
    <3>2. Cardinality(Given(o, 1)') = 0
      BY <2>1, <2>2
    <3>3. ReferenceValues(o, 1)' = [k \in {} |-> ResultAt(InOrder(Given(o, 1))[k], o)'.value]
      BY <2>1, <3>1, <3>2
    <3>. QED
      BY <3>3
  <2>4. WordsAt({})' = <<>>
    <3>1. WordsAt({})' = [k \in 1..0 |-> Args'[InOrder({})[k][2]]]
      BY <2>1 DEF WordsAt
    <3>. QED
      BY <2>1, <3>1
  <2>5. ReferenceUnknown(1)' = WordsAt(UnknownPlaces(1))'
        /\ ListedNonOption(1)' = WordsAt(EnteredPlaces(1))'
    BY DEF ReferenceUnknown, ListedNonOption, UnknownPlaces, EnteredPlaces
  <2>. QED
    BY <2>2, <2>3, <2>4, <2>5
<1>6. ~IsArgument(1)'
  <2>1. {0} \cup {j \in 1..(1 - 1) : ~LacksArgument(j)'} = {0}
    OBVIOUS
  <2>2. Max({0}) = 0
    BY MaxIs
  <2>3. IsArgument(1)' <=> (1 - 1 - Max({0})) % 2 = 1
    BY <2>1 DEF IsArgument
  <2>. QED
    BY <2>2, <2>3
<1>7. IsSequence(unknown) /\ IsSequence(nonOption) /\ \A o \in OptionIds : IsSequence(values[o])
  BY DEF ListsGiven, Shape, ValuesShape, OptionIds
<1>8. ASSUME NEW s, IsSequence(s) PROVE s = s \o <<>>
  BY <1>8, ConcatGroups
<1>9. StartShape'
  BY <1>1, <1>2, <1>6, <1>7 DEF StartShape, OptionIds
<1>10. WordsParsed'
  <2>1. \A o \in OptionIds' : values'[o] = start'.values[o] \o ReferenceValues(o, 1)'
    BY <1>1, <1>5, <1>7, <1>8 DEF OptionIds
  <2>2. unknown' = start'.unknown \o ReferenceUnknown(1)'
        /\ nonOption' = start'.nonOption \o ListedNonOption(1)'
    BY <1>1, <1>5, <1>7, <1>8
  <2>. QED
    BY <1>2, <1>3, <2>1, <2>2 DEF WordsParsed
<1>. QED
  BY <1>9, <1>10 DEF CommandInv

\* The end of a command line changes none of the lists.
LEMMA CommandEnds ==
    ASSUME PoplInv, Shape, CommandInv, EndCommand
    PROVE  CommandInv'
<1>1. /\ UNCHANGED <<options, values, default, nonOption, unknown, start>>
      /\ \E p \in {"threw", "returned"} : \E x :
            call' = [call EXCEPT !.phase = p, !.error = x]
      /\ call.phase = "parsing" /\ call.source = "argv" /\ call.n > Len(call.args)
  BY DEF EndCommand, AtEnd, Calling
<1>2. /\ call'.phase \in {"threw", "returned"} /\ call'.n = call.n /\ call'.args = call.args
  BY <1>1 DEF Shape, CallShape
<1>3. call.n \in Nat /\ Len(call.args) \in Nat
  BY DEF Shape, CallShape
<1>4. ~(call.n <= Len(call.args))
  BY <1>1, <1>3
<1>5. WordsDone = call.n /\ WordsDone' = call.n
  BY <1>1, <1>2, <1>4 DEF WordsDone, Args
<1>6. Parsing("argv") /\ SameLine /\ call'.phase # "parsing"
  BY <1>1, <1>2 DEF Parsing, SameLine
<1>7. /\ \A o \in OptionIds : values[o] = start.values[o] \o ReferenceValues(o, call.n)
      /\ unknown = start.unknown \o ReferenceUnknown(call.n)
      /\ nonOption = start.nonOption \o ListedNonOption(call.n)
  BY <1>5, <1>6 DEF CommandInv, WordsParsed
<1>. DEFINE n == call.n
<1>8. call'.n = n /\ WordsDone' = n
  BY <1>2, <1>5
<1>9. /\ \A o \in OptionIds : values'[o] = start.values[o] \o ReferenceValues(o, n)
      /\ unknown' = start.unknown \o ReferenceUnknown(n)
      /\ nonOption' = start.nonOption \o ListedNonOption(n)
      /\ start' = start
  BY <1>1, <1>7
<1>. HIDE DEF n
<1>. QED
  BY <1>6, <1>8, <1>9, CommandNext

\* Every step of the parser or the program.
LEMMA CommandStep == PoplInv /\ Shape /\ ListsGiven /\ CommandInv /\ [Next]_vars => CommandInv'
<1>. SUFFICES ASSUME PoplInv, Shape, ListsGiven, CommandInv, [Next]_vars PROVE CommandInv'
  OBVIOUS
<1>1. ASSUME ~Parsing("argv")' PROVE CommandInv'
  BY <1>1 DEF CommandInv, StartShape, WordsParsed
<1>2. CASE ParseDashes \/ ParseLong \/ ParseShort \/ ParsePlain
  BY <1>2, WordIs, WordStep
<1>3. CASE EndCommand
  BY <1>3, CommandEnds
<1>4. CASE SkipLine \/ SectionLine \/ EntryLine \/ EndFile
  <2>1. call.source = "ini" /\ DOMAIN call = {"phase", "source", "args", "n", "section", "error"}
    BY <1>4 DEF SkipLine, SectionLine, EntryLine, EndFile, AtWord, AtEnd, Shape, CallShape
  <2>2. call'.source = "ini"
    BY <1>4, <2>1 DEF SkipLine, SectionLine, EntryLine, EndFile, Apply
  <2>. QED
    BY <1>1, <2>2 DEF Parsing
<1>5. CASE UNCHANGED vars
  <2>. DEFINE m == call.n
              k == WordsDone
  <2>1. CASE Parsing("argv")
    <3>1. SameLine /\ start' = start /\ call'.n = m /\ WordsDone' = k
      BY <1>5 DEF vars, SameLine, WordsDone, Args
    <3>2. call'.phase = "parsing" /\ m <= Len(Args) => ~IsArgument(m)
      BY <1>5, <2>1 DEF vars, CommandInv, StartShape, Args
    <3>3. /\ \A o \in OptionIds : values'[o] = start.values[o] \o ReferenceValues(o, k)
          /\ unknown' = start.unknown \o ReferenceUnknown(m)
          /\ nonOption' = start.nonOption \o ListedNonOption(m)
      BY <1>5, <2>1 DEF vars, CommandInv, WordsParsed
    <3>. HIDE DEF m, k
    <3>. QED
      BY <2>1, <3>1, <3>2, <3>3, CommandNext
  <2>2. CASE ~Parsing("argv")
    BY <1>1, <1>5, <2>2 DEF vars, Parsing
  <2>. QED
    BY <2>1, <2>2
<1>6. CASE ProgramCall
  <2>1. CASE \E args : Begin("argv", args)
    BY <2>1, CommandBegins
  <2>2. CASE \E lines : Begin("ini", lines)
    BY <1>1, <2>2 DEF Begin, Idle, Parsing
  <2>3. CASE \E error : CallDone(error)
    BY <1>1, <2>3 DEF CallDone, Idle, Parsing
  <2>. QED
    BY <1>6, <2>1, <2>2, <2>3
       DEF ProgramCall, Add, AddOption, Reset, AssignTo, SetDefault, SetValue, SetAttribute,
           ParseCommand, ParseFile
<1>. QED
  BY <1>2, <1>3, <1>4, <1>5, <1>6 DEF Next, ParseStep

\* Up to the first "--" what is listed is what the reference says.
LEMMA ListedBeforeDashes ==
    ASSUME NEW n, ~PastDashes(n)
    PROVE  ListedNonOption(n) = ReferenceNonOption(n)
<1>. DEFINE W == WordsBefore(n)
            S == {<<i, i>> : i \in {j \in W : Plain(j)}}
<1>1. ASSUME NEW i \in W PROVE EnteredAt(i) = IF Plain(i) THEN {<<i, i>>} ELSE {}
  <2>1. ~Dashes(i)
    BY DEF PastDashes
  <2>. QED
    BY <2>1 DEF EnteredAt, Plain
<1>2. UNION {EnteredAt(i) : i \in W} = S
  <2>1. ASSUME NEW p \in UNION {EnteredAt(i) : i \in W} PROVE p \in S
    <3>1. PICK i \in W : p \in EnteredAt(i)
      OBVIOUS
    <3>2. Plain(i) /\ p = <<i, i>>
      BY <1>1, <3>1
    <3>. QED
      BY <3>2
  <2>2. ASSUME NEW p \in S PROVE p \in UNION {EnteredAt(i) : i \in W}
    <3>1. PICK i \in W : Plain(i) /\ p = <<i, i>>
      OBVIOUS
    <3>2. p \in EnteredAt(i)
      BY <1>1, <3>1
    <3>. QED
      BY <3>2
  <2>. QED
    BY <2>1, <2>2
<1>. QED
  BY <1>2 DEF ListedNonOption, ReferenceNonOption

\* For every catalogue of options, every command line and every history of calls:
\* at every word parse(argc, argv) reaches up to the first "--", also when it throws
\* there, each option has the values it had plus those the words so far give it,
\* and every word so far that names no option is in one of the lists, once.
THEOREM CommandParsed == Spec => []ParseIsReference
<1>1. Init => ListsGiven /\ CommandInv
  BY OneOrNone DEF Init, Idle, ListsGiven, CommandInv, StartShape, WordsParsed, Parsing
<1>2. CommandInv => ParseIsReference
  BY ListedBeforeDashes DEF CommandInv, WordsParsed, ParseIsReference
<1>. QED
  BY ShapeInit, ShapeKept, InvKept, ListsGivenStep, CommandStep, <1>1, <1>2, PTL DEF Spec

-----------------------------------------------------------------------------
(* The lines of an ini file.                                               *)

\* A text that begins, or ends, with one token.
LEMMA FirstToken ==
    ASSUME NEW S, NEW w \in Seq(S), NEW c \in S
    PROVE  /\ Len(w) \in Nat
           /\ w # <<>> <=> Len(w) >= 1
           /\ IsPrefix(<<c>>, w) <=> Len(w) >= 1 /\ w[1] = c
<1>. DEFINE s == <<c>>
<1>1. s \in Seq(S) /\ Len(s) = 1 /\ s[1] = c
  OBVIOUS
<1>2. Len(w) \in Nat
  OBVIOUS
<1>3. w = <<>> <=> Len(w) = 0
  BY EmptySeq
<1>4. w # <<>> <=> Len(w) >= 1
  <2>. DEFINE l == Len(w)
              empty == w = <<>>
  <2>1. l \in Nat /\ (empty <=> l = 0)
    BY <1>2, <1>3
  <2>. HIDE DEF l, empty
  <2>2. ~empty <=> l >= 1
    BY <2>1
  <2>. QED
    BY <2>2 DEF l, empty
<1>. HIDE DEF s
<1>5. IsPrefix(s, w) <=> Len(s) <= Len(w) /\ \A i \in 1..Len(s) : s[i] = w[i]
  <2>1. s \in Seq(S)
    BY <1>1
  <2>. QED
    BY <2>1, PrefixIs
<1>6. (\A i \in 1..1 : s[i] = w[i]) <=> s[1] = w[1]
  OBVIOUS
<1>7. IsPrefix(s, w) <=> Len(w) >= 1 /\ w[1] = c
  BY <1>1, <1>2, <1>5, <1>6
<1>. QED
  BY <1>2, <1>4, <1>7 DEF s

\* How a text ends.
LEMMA LastToken ==
    ASSUME NEW S, NEW w \in Seq(S), NEW c \in S
    PROVE  IsSuffix(<<c>>, w) <=> Len(w) >= 1 /\ w[Len(w)] = c
<1>. DEFINE l == Len(w)
            r == [i \in 1..l |-> w[(l - i) + 1]]
            s == <<c>>
<1>1. l \in Nat /\ \A i \in 1..l : w[i] \in S
  OBVIOUS
<1>2. \A i \in 1..l : (l - i) + 1 \in 1..l
  BY <1>1
<1>3. r \in Seq(S) /\ Len(r) = l
  <2>1. \A i \in 1..l : w[(l - i) + 1] \in S
    BY <1>1, <1>2
  <2>. HIDE DEF l
  <2>. QED
    BY <1>1, <2>1
<1>4. Reverse(s) = s
  <2>1. Reverse(s) = [i \in 1..1 |-> s[(1 - i) + 1]]
    BY DEF Reverse
  <2>2. \A i \in 1..1 : (1 - i) + 1 = 1
    OBVIOUS
  <2>. QED
    BY <2>1, <2>2
<1>5. Reverse(w) = r
  BY DEF Reverse
<1>6. l >= 1 => r[1] = w[l]
  BY <1>1
<1>. HIDE DEF l, r
<1>7. IsPrefix(<<c>>, r) <=> Len(r) >= 1 /\ r[1] = c
  BY <1>3, FirstToken
<1>8. IsSuffix(s, w) <=> IsPrefix(s, r)
  BY <1>4, <1>5 DEF IsSuffix
<1>9. IsSuffix(s, w) <=> l >= 1 /\ w[l] = c
  BY <1>3, <1>6, <1>7, <1>8
<1>. QED
  BY <1>9 DEF l

\* The parser reads a line as the reference does.
LEMMA LineIs ==
    ASSUME CallShape, call.n <= Len(call.args)
    PROVE  /\ call.n \in 1..Len(Args) /\ Word = Args[call.n] /\ Word \in Seq(Token)
           /\ IsSection <=> Section(call.n)
           /\ IsEntry <=> /\ ~Section(call.n) /\ ~IsPrefix(<<"#">>, Args[call.n])
                          /\ Positions(Args[call.n], Equal) # {} /\ NameEnd(call.n) > 0
           /\ IsEntry => /\ Key = SubSeq(Args[call.n], 1, NameEnd(call.n))
                         /\ KeyValue = Explicit(call.n)
                         /\ NameEnd(call.n) \in 1..Len(Word)
<1>. DEFINE n == call.n
            w == Word
            S == Token \cup {"[", "]", "#"}
            r == EqualIdx
            I == {i \in 1..Len(w) : w[i] = Equal}
<1>1. n \in 1..Len(Args) /\ w = Args[n] /\ w \in Seq(Token) /\ Len(w) \in Nat
  BY DEF CallShape, Args, Word
<1>2. w \in Seq(S) /\ "[" \in S /\ "]" \in S /\ "#" \in S
  <2>1. Token \subseteq S /\ "[" \in S /\ "]" \in S /\ "#" \in S
    OBVIOUS
  <2>. HIDE DEF S, w
  <2>. QED
    BY <1>1, <2>1
<1>3. /\ IsSection <=> w # <<>> /\ Head(w) = "[" /\ Last(w) = "]"
      /\ IsComment <=> w # <<>> /\ Head(w) = "#"
      /\ Section(n) <=> IsPrefix(<<"[">>, w) /\ IsSuffix(<<"]">>, w)
  BY <1>1 DEF IsSection, IsComment, Section
<1>4. r = IF I # {} THEN Min(I) ELSE 0
  BY DEF EqualIdx, SelectInSeq
<1>5. Positions(w, Equal) = I
  <2>1. DOMAIN w = 1..Len(w)
    BY <1>1
  <2>. QED
    BY <2>1 DEF Positions
<1>6. Key = SubSeq(w, 1, r - 1) /\ KeyValue = SubSeq(w, r + 1, Len(w))
      /\ (IsEntry <=> ~IsSection /\ ~IsComment /\ r > 1)
      /\ NameEnd(n) = (IF I = {} THEN Len(w) ELSE Min(I) - 1)
      /\ Explicit(n) = SubSeq(w, NameEnd(n) + 2, Len(w))
  BY <1>1, <1>5 DEF Key, KeyValue, IsEntry, NameEnd, Explicit
<1>7. Head(w) = w[1] /\ Last(w) = w[Len(w)]
  BY DEF Last
<1>. HIDE DEF w, r, S, n
<1>8. /\ w # <<>> <=> Len(w) >= 1
      /\ IsPrefix(<<"[">>, w) <=> Len(w) >= 1 /\ w[1] = "["
      /\ IsPrefix(<<"#">>, w) <=> Len(w) >= 1 /\ w[1] = "#"
      /\ IsSuffix(<<"]">>, w) <=> Len(w) >= 1 /\ w[Len(w)] = "]"
  BY <1>2, FirstToken, LastToken
<1>9. (I = {} /\ r = 0) \/ (r \in I /\ r = Min(I) /\ r \in 1..Len(w))
  <2>1. I \in SUBSET Nat /\ \A i \in I : i \in 1..Len(w)
    OBVIOUS
  <2>2. 0 \notin I
    OBVIOUS
  <2>. HIDE DEF I
  <2>. QED
    BY <1>4, <2>1, <2>2, FirstOf
<1>10. (IsSection <=> Section(n)) /\ (IsComment <=> IsPrefix(<<"#">>, w))
  BY <1>3, <1>7, <1>8
<1>. HIDE DEF I
<1>11. r > 1 <=> I # {} /\ NameEnd(n) > 0
  <2>1. CASE I = {} /\ r = 0
    BY <2>1
  <2>2. CASE r \in I /\ r = Min(I) /\ r \in 1..Len(w)
    <3>1. NameEnd(n) = r - 1 /\ I # {}
      BY <1>6, <2>2
    <3>. QED
      BY <1>1, <2>2, <3>1
  <2>. QED
    BY <1>9, <2>1, <2>2
<1>12. ASSUME r > 1 PROVE /\ NameEnd(n) = r - 1 /\ NameEnd(n) \in 1..Len(w)
                          /\ NameEnd(n) + 2 = r + 1
  <2>1. r \in I /\ r = Min(I) /\ r \in 1..Len(w) /\ I # {}
    BY <1>9, <1>12
  <2>2. NameEnd(n) = r - 1
    BY <1>6, <2>1
  <2>. QED
    BY <1>1, <1>12, <2>1, <2>2
<1>13. IsEntry => Key = SubSeq(w, 1, NameEnd(n)) /\ KeyValue = Explicit(n)
                  /\ NameEnd(n) \in 1..Len(w)
  BY <1>6, <1>12
<1>14. IsEntry <=> ~Section(n) /\ ~IsPrefix(<<"#">>, w) /\ I # {} /\ NameEnd(n) > 0
  BY <1>6, <1>10, <1>11
<1>. QED
  BY <1>1, <1>5, <1>10, <1>13, <1>14 DEF w, n

\* The section changes at a section line only.
LEMMA SectionGrows ==
    ASSUME NEW n \in Nat, n >= 1
    PROVE  SectionOf(n + 1) = IF Section(n) THEN SubSeq(Args[n], 2, Len(Args[n]) - 1)
                              ELSE SectionOf(n)
<1>. DEFINE A == {j \in 1..(n - 1) : Section(j)}
            B == {j \in 1..((n + 1) - 1) : Section(j)}
            text(i) == SubSeq(Args[i], 2, Len(Args[i]) - 1)
<1>1. SectionOf(n) = (IF A = {} THEN <<>> ELSE text(Max(A)))
      /\ SectionOf(n + 1) = (IF B = {} THEN <<>> ELSE text(Max(B)))
  BY DEF SectionOf
<1>2. \A j : j \in 1..((n + 1) - 1) <=> j \in 1..(n - 1) \/ j = n
  OBVIOUS
<1>3. CASE Section(n)
  <2>1. n \in B /\ B \in SUBSET (0..n) /\ \A j \in B : j <= n
    BY <1>2, <1>3
  <2>. HIDE DEF B
  <2>2. Max(B) = n /\ B # {}
    BY <2>1, MaxIs
  <2>. QED
    BY <1>1, <1>3, <2>2
<1>4. CASE ~Section(n)
  <2>1. B = A
    BY <1>2, <1>4
  <2>. HIDE DEF A, B
  <2>. QED
    BY <1>1, <1>4, <2>1
<1>. QED
  BY <1>3, <1>4

\* A key is not empty.
LEMMA KeyNotEmpty ==
    ASSUME CallShape, NEW n \in 1..Len(Args), NameEnd(n) \in 1..Len(Args[n])
    PROVE  LineKey(n) # <<>>
<1>. DEFINE w == Args[n]
            key == SubSeq(w, 1, NameEnd(n))
            s == SectionOf(n)
            T == Token \cup {"."}
<1>1. w \in Seq(Token) /\ \A i \in 1..Len(Args) : Args[i] \in Seq(Token)
  BY DEF CallShape, Args
<1>2. Token \subseteq T /\ "." \in T
  OBVIOUS
<1>3. key \in Seq(T) /\ Len(key) >= 1 /\ Len(key) \in Nat
  <2>. DEFINE m == NameEnd(n)
  <2>1. m \in Nat /\ m >= 1 /\ m <= Len(w) /\ 1 \in Int /\ m \in Int
    BY <1>1
  <2>2. \A i \in 1..m : w[i] \in T
    BY <1>1, <1>2, <2>1
  <2>. HIDE DEF w, m, T
  <2>3. SubSeq(w, 1, m) \in Seq(T) /\ Len(SubSeq(w, 1, m)) = (IF 1 <= m THEN m - 1 + 1 ELSE 0)
    BY <2>1, <2>2, SubSeqProperties
  <2>4. m - 1 + 1 = m
    BY <2>1
  <2>. QED
    BY <2>1, <2>3, <2>4 DEF m
<1>4. ASSUME s # <<>> PROVE s \in Seq(T)
  <2>. DEFINE above == {j \in 1..(n - 1) : Section(j)}
  <2>1. above # {} /\ s = SubSeq(Args[Max(above)], 2, Len(Args[Max(above)]) - 1)
    BY <1>4 DEF SectionOf
  <2>2. n \in Nat /\ above \in SUBSET (0..n) /\ \A j \in above : j \in 1..Len(Args)
    BY DEF CallShape, Args
  <2>. HIDE DEF above
  <2>3. Max(above) \in 1..Len(Args)
    BY <2>1, <2>2, MaxProperties
  <2>. DEFINE x == Args[Max(above)]
  <2>4. x \in Seq(Token) /\ Len(x) \in Nat
    BY <1>1, <2>3
  <2>5. SubSeq(x, 2, Len(x) - 1) \in Seq(Token)
    <3>1. 2 \in Int /\ Len(x) - 1 \in Int /\ \A i \in 2..(Len(x) - 1) : x[i] \in Token
      BY <2>4
    <3>. HIDE DEF x
    <3>. QED
      BY <3>1, SubSeqProperties
  <2>. HIDE DEF x
  <2>. QED
    BY <1>2, <2>1, <2>5 DEF x
<1>5. CASE s = <<>>
  <2>1. LineKey(n) = key
    BY <1>5 DEF LineKey
  <2>. HIDE DEF key
  <2>2. Len(<<>>) = 0
    BY EmptySeq
  <2>. QED
    BY <1>3, <2>1, <2>2
<1>6. CASE s # <<>>
  <2>1. LineKey(n) = (s \o <<".">>) \o key
    BY <1>6 DEF LineKey
  <2>2. s \in Seq(T) /\ <<".">> \in Seq(T)
    BY <1>2, <1>4, <1>6
  <2>. HIDE DEF s, T, key
  <2>3. (s \o <<".">>) \o key \in Seq(T) /\ Len((s \o <<".">>) \o key) = Len(s) + 1 + Len(key)
    BY <1>3, <2>2
  <2>4. Len(s) \in Nat
    BY <2>2
  <2>5. Len((s \o <<".">>) \o key) # 0
    BY <1>3, <2>3, <2>4
  <2>6. Len(<<>>) = 0
    BY EmptySeq
  <2>. QED
    BY <2>1, <2>5, <2>6
<1>. QED
  BY <1>5, <1>6

\* The option the parser finds for a line is the one the reference names.
LEMMA EntryIs ==
    ASSUME PoplInv, NamesApart, CallShape, AtWord("ini"), IsEntry,
           call.section = SectionOf(call.n),
           NEW o, o = IfActive(options, FindLong(options, QualifiedKey(call.section, Key)))
    PROVE  \A p \in OptionIds : GivesTo(call.n, p) <=> p = o
<1>. DEFINE n == call.n
            key == QualifiedKey(call.section, Key)
<1>1. /\ n \in 1..Len(Args) /\ Word = Args[n]
      /\ ~Section(n) /\ ~IsPrefix(<<"#">>, Args[n])
      /\ Positions(Args[n], Equal) # {} /\ NameEnd(n) > 0
      /\ Key = SubSeq(Args[n], 1, NameEnd(n))
      /\ NameEnd(n) \in 1..Len(Args[n])
  BY LineIs DEF AtWord
<1>2. key = LineKey(n)
  BY <1>1 DEF QualifiedKey, LineKey
<1>3. key # <<>>
  <2>. HIDE DEF n
  <2>1. LineKey(n) # <<>>
    BY <1>1, KeyNotEmpty
  <2>. QED
    BY <1>2, <2>1
<1>. HIDE DEF key
<1>4. (o = 0 /\ WithName(key) = {}) \/ (o \in OptionIds /\ o # 0 /\ WithName(key) = {o})
  <2>1. o = IfActive(options, FindLong(options, key))
    BY DEF key
  <2>. QED
    BY <2>1, FoundWithName
<1>5. OptionIds = 1..Len(options) /\ Len(options) \in Nat
  BY AppendDomain DEF PoplInv, ListsAgree, OptionIds
<1>6. ASSUME NEW p \in OptionIds
      PROVE  p \in WithName(key) <=> options[p].long = key /\ options[p].attribute # Inactive
  <2>1. ASSUME options[p].long = key, NEW q \in 1..(p - 1), options[q].long = key PROVE FALSE
    <3>1. q \in OptionIds /\ q # p
      BY <1>5
    <3>2. Clash(options[q], options[p])
      BY <1>3, <2>1 DEF Clash
    <3>. QED
      BY <3>1, <3>2 DEF NamesApart, OptionIds
  <2>. QED
    BY <2>1 DEF WithName
<1>7. ASSUME NEW p \in OptionIds
      PROVE  GivesTo(n, p) <=> options[p].long = key /\ options[p].attribute # Inactive
  BY <1>1, <1>2 DEF GivesTo
<1>8. 0 \notin OptionIds
  BY <1>5
<1>. QED
  BY <1>4, <1>6, <1>7, <1>8

-----------------------------------------------------------------------------
(* The lines up to one.                                                    *)

\* The lines before line n that give option o a value, each at its first token,
\* and the values.
IniGiven(o, n) ==
    {<<i, 1>> : i \in {j \in 1..(n - 1) : GivesTo(j, o) /\ ResultOf(j, o).error = "none"}}
IniValue(o) == [p \in Place |-> ResultOf(p[1], o).value]

\* The values of a line, behind those of the lines before.
LEMMA LinesGrow ==
    ASSUME NEW n \in Nat, n >= 1, NEW o, NEW s, IsSequence(s)
    PROVE  s \o Listing(IniGiven(o, n + 1), IniValue(o))
             = IF GivesTo(n, o) /\ ResultOf(n, o).error = "none"
               THEN (s \o Listing(IniGiven(o, n), IniValue(o))) \o <<ResultOf(n, o).value>>
               ELSE s \o Listing(IniGiven(o, n), IniValue(o))
<1>. DEFINE S == IniGiven(o, n)
            f == IniValue(o)
            p == <<n, 1>>
<1>1. \A j : j \in 1..((n + 1) - 1) <=> j \in 1..(n - 1) \/ j = n
  OBVIOUS
<1>2. IniGiven(o, n + 1) = IF GivesTo(n, o) /\ ResultOf(n, o).error = "none"
                           THEN S \cup {p} ELSE S
  <2>1. CASE GivesTo(n, o) /\ ResultOf(n, o).error = "none"
    BY <1>1, <2>1 DEF IniGiven
  <2>2. CASE ~(GivesTo(n, o) /\ ResultOf(n, o).error = "none")
    BY <1>1, <2>2 DEF IniGiven
  <2>. QED
    BY <2>1, <2>2
<1>3. S \in SUBSET Place /\ IsFiniteSet(S)
  <2>. DEFINE T == (1..(n - 1)) \X {1}
  <2>1. S \in SUBSET T
    BY DEF IniGiven
  <2>2. IsFiniteSet(1..(n - 1)) /\ IsFiniteSet({1})
    <3>1. 1 \in Int /\ n - 1 \in Int
      OBVIOUS
    <3>. QED
      BY <3>1, FS_Interval, FS_Singleton
  <2>3. IsFiniteSet(T)
    BY <2>2, FS_Product
  <2>4. T \subseteq Place
    BY DEF Place
  <2>. HIDE DEF T, S
  <2>. QED
    BY <2>1, <2>3, <2>4, FS_Subset
<1>4. p \in Place /\ {p} \in SUBSET Place /\ IsFiniteSet({p})
  <2>1. p \in Place
    BY DEF Place
  <2>. HIDE DEF p
  <2>. QED
    BY <2>1, FS_Singleton
<1>5. \A q \in S : Before(q, p)
  BY DEF IniGiven, Before
<1>6. f[p] = ResultOf(n, o).value
  BY <1>4 DEF IniValue
<1>. HIDE DEF S, f, p
<1>. DEFINE P == {p}
<1>7. P \in SUBSET Place /\ IsFiniteSet(P) /\ \A q \in S : \A r \in P : Before(q, r)
  BY <1>4, <1>5
<1>8. Listing(P, f) = <<ResultOf(n, o).value>>
  BY <1>4, <1>6, ListingOfOne
<1>. HIDE DEF P
<1>9. Listing(S \cup P, f) = Listing(S, f) \o Listing(P, f)
  BY <1>3, <1>7, ListingAppends
<1>10. IsSequence(Listing(S, f)) /\ IsSequence(Listing(P, f))
  BY <1>3, <1>7, ListingSequence
<1>. DEFINE a == Listing(S, f)
            b == Listing(P, f)
            c == Listing(S \cup P, f)
<1>11. c = a \o b /\ IsSequence(a) /\ IsSequence(b)
  BY <1>9, <1>10
<1>. HIDE DEF a, b, c
<1>12. (s \o a) \o b = s \o c
  <2>1. (s \o a) \o b = s \o (a \o b)
    BY <1>11, ConcatGroups
  <2>. QED
    BY <1>11, <2>1
<1>13. CASE GivesTo(n, o) /\ ResultOf(n, o).error = "none"
  <2>1. IniGiven(o, n + 1) = S \cup P
    BY <1>2, <1>13 DEF P
  <2>2. Listing(IniGiven(o, n + 1), f) = c
    BY <2>1 DEF c
  <2>3. s \o Listing(IniGiven(o, n + 1), f) = (s \o a) \o <<ResultOf(n, o).value>>
    BY <1>8, <1>12, <2>2 DEF b
  <2>. QED
    BY <1>13, <2>3 DEF a, f, S
<1>14. CASE ~(GivesTo(n, o) /\ ResultOf(n, o).error = "none")
  <2>1. IniGiven(o, n + 1) = S
    BY <1>2, <1>14
  <2>. QED
    BY <1>14, <2>1 DEF f, S
<1>. QED
  BY <1>13, <1>14

\* The reference of a line does not change while the file is parsed.
LEMMA SameLines ==
    ASSUME SameLine, NEW n, NEW o
    PROVE  /\ Args' = Args /\ OptionIds' = OptionIds
           /\ SectionOf(n)' = SectionOf(n)
           /\ Listing(IniGiven(o, n), IniValue(o))' = Listing(IniGiven(o, n), IniValue(o))
<1>1. options' = options /\ default' = default /\ Args' = Args /\ OptionIds' = OptionIds
  BY DEF SameLine, Args, OptionIds
<1>2. \A i : Section(i)' <=> Section(i)
  BY <1>1 DEF Section
<1>3. \A i : SectionOf(i)' = SectionOf(i)
  <2>. TAKE i
  <2>1. {j \in 1..(i - 1) : Section(j)}' = {j \in 1..(i - 1) : Section(j)}
    BY <1>2
  <2>. QED
    BY <1>1, <2>1 DEF SectionOf
<1>4. \A i : NameEnd(i)' = NameEnd(i) /\ Explicit(i)' = Explicit(i)
  BY SameWords
<1>5. \A i : LineKey(i)' = LineKey(i)
  BY <1>1, <1>3, <1>4 DEF LineKey
<1>6. \A i : GivesTo(i, o)' <=> GivesTo(i, o)
  BY <1>1, <1>2, <1>4, <1>5 DEF GivesTo
<1>7. \A i : ResultOf(i, o)' = ResultOf(i, o)
  BY <1>1, <1>4 DEF ResultOf
<1>8. IniGiven(o, n)' = IniGiven(o, n)
  BY <1>6, <1>7 DEF IniGiven
<1>9. IniValue(o)' = IniValue(o)
  BY <1>7 DEF IniValue
<1>. QED
  BY <1>1, <1>3, <1>8, <1>9 DEF Listing

\* The parse of a file stands in the section of its line, and every option has
\* the values of the lines so far.
FileInv ==
    Parsing("ini") =>
        /\ call.phase = "parsing" => call.section = SectionOf(call.n)
        /\ \A o \in OptionIds :
              /\ IsSequence(start.values[o])
              /\ values[o] = start.values[o]
                             \o Listing(IniGiven(o, WordsDone), IniValue(o))

\* What is to be shown of a step within a file.
LEMMA FileNext ==
    ASSUME FileInv, Parsing("ini"), SameLine, start' = start,
           NEW m, call'.n = m, NEW k, WordsDone' = k,
           call'.phase = "parsing" => call'.section = SectionOf(m),
           \A o \in OptionIds :
              values'[o] = start.values[o] \o Listing(IniGiven(o, k), IniValue(o))
    PROVE  FileInv'
<1>1. /\ OptionIds' = OptionIds
      /\ SectionOf(m)' = SectionOf(m)
      /\ \A o : Listing(IniGiven(o, k), IniValue(o))' = Listing(IniGiven(o, k), IniValue(o))
  BY SameLines
<1>2. \A o \in OptionIds : IsSequence(start.values[o])
  BY DEF FileInv
<1>3. call'.phase = "parsing" => call'.section = SectionOf(call.n)'
  BY <1>1
<1>4. \A o \in OptionIds' : values'[o] = start'.values[o]
                                \o Listing(IniGiven(o, WordsDone), IniValue(o))'
  BY <1>1
<1>. QED
  BY <1>1, <1>2, <1>3, <1>4 DEF FileInv

\* What is to be shown of a line: the values it gives.
LEMMA LineNext ==
    ASSUME Shape, FileInv, AtWord("ini"), SameLine, start' = start,
           \/ /\ call'.phase = "parsing" /\ call'.n = call.n + 1
              /\ call'.section = SectionOf(call.n + 1)
           \/ call'.phase = "threw" /\ call'.n = call.n,
           \A o \in OptionIds :
              values'[o] = IF GivesTo(call.n, o) /\ ResultOf(call.n, o).error = "none"
                           THEN values[o] \o <<ResultOf(call.n, o).value>> ELSE values[o]
    PROVE  FileInv'
<1>. DEFINE n == call.n
            k == n + 1
            m == call'.n
<1>1. call.phase = "parsing" /\ call.source = "ini" /\ n \in Nat /\ n >= 1 /\ n <= Len(Args)
  BY DEF AtWord, Calling, Shape, CallShape, Args
<1>2. Parsing("ini") /\ WordsDone = n
  BY <1>1 DEF Parsing, WordsDone
<1>3. \A o \in OptionIds : IsSequence(start.values[o])
        /\ values[o] = start.values[o] \o Listing(IniGiven(o, n), IniValue(o))
  BY <1>2 DEF FileInv
<1>4. WordsDone' = k
  <2>1. Args' = Args
    BY DEF SameLine, Args
  <2>. QED
    BY <1>1, <2>1 DEF WordsDone
<1>5. call'.phase = "parsing" => call'.section = SectionOf(m)
  OBVIOUS
<1>6. ASSUME NEW o \in OptionIds
      PROVE  values'[o] = start.values[o] \o Listing(IniGiven(o, k), IniValue(o))
  <2>. DEFINE s == start.values[o]
              gives == GivesTo(n, o) /\ ResultOf(n, o).error = "none"
              a == Listing(IniGiven(o, n), IniValue(o))
              b == Listing(IniGiven(o, n + 1), IniValue(o))
  <2>1. IsSequence(s) /\ values[o] = s \o a
    BY <1>3
  <2>2. values'[o] = IF gives THEN values[o] \o <<ResultOf(n, o).value>> ELSE values[o]
    OBVIOUS
  <2>. HIDE DEF s, n
  <2>3. s \o b = IF gives THEN (s \o a) \o <<ResultOf(n, o).value>> ELSE s \o a
    BY <1>1, <2>1, LinesGrow
  <2>. HIDE DEF a, b, gives
  <2>4. values'[o] = s \o b
    BY <2>1, <2>2, <2>3
  <2>. QED
    BY <2>4 DEF s, b
<1>. HIDE DEF n, k
<1>7. call'.n = m
  OBVIOUS
<1>. HIDE DEF m
<1>. QED
  BY <1>2, <1>4, <1>5, <1>6, <1>7, FileNext

\* The parse calls at one place, and at none.
LEMMA OneMade ==
    ASSUME NEW p \in Place, NEW cs
    PROVE  /\ [k \in 1..Cardinality({p}) |-> Parsed(cs[InOrder({p})[k]]).value]
                = <<Parsed(cs[p]).value>>
           /\ [k \in 1..Cardinality({}) |-> Parsed(cs[InOrder({})[k]]).value] = <<>>
<1>1. {p} \in SUBSET Place /\ IsFiniteSet({p}) /\ Cardinality({p}) = 1
  BY FS_Singleton
<1>2. Cardinality({}) = 0 /\ 1..0 = {}
  BY FS_EmptySet
<1>3. \A k \in 1..1 : InOrder({p})[k] = p
  <2>1. \A k \in 1..Cardinality({p}) : InOrder({p})[k] \in {p}
    BY <1>1, InOrderIn
  <2>. QED
    BY <1>1, <2>1
<1>4. [k \in 1..Cardinality({p}) |-> Parsed(cs[InOrder({p})[k]]).value]
         = [k \in 1..1 |-> Parsed(cs[p]).value]
  BY <1>1, <1>3
<1>5. [k \in 1..Cardinality({}) |-> Parsed(cs[InOrder({})[k]]).value]
         = [k \in {} |-> Parsed(cs[InOrder({})[k]]).value]
  BY <1>2
<1>. DEFINE v == Parsed(cs[p]).value
            f == [k \in {} |-> Parsed(cs[InOrder({})[k]]).value]
<1>6. f = <<>>
  OBVIOUS
<1>7. [k \in 1..1 |-> v] = <<v>>
  OBVIOUS
<1>. QED
  BY <1>4, <1>5, <1>6, <1>7

\* A line with a key of no option gives nothing.
LEMMA NoEntry ==
    ASSUME NEW u, Apply(Effect(NoCalls, FALSE, u, <<>>), 1), ValuesShape
    PROVE  /\ options' = options /\ default' = default /\ start' = start
           /\ call' = [call EXCEPT !.n = @ + 1]
           /\ \A p \in OptionIds : values'[p] = values[p]
<1>. DEFINE cs == Effect(NoCalls, FALSE, u, <<>>).calls
            failing == {p \in DOMAIN cs : Parsed(cs[p]).error # "none"}
            made == {p \in DOMAIN cs : \A q \in failing : Before(p, q)}
<1>1. DOMAIN cs = {}
  <2>1. cs = NoCalls
    BY DEF Effect
  <2>. QED
    BY <2>1, FewCalls
<1>2. /\ options' = options /\ default' = default /\ start' = start
      /\ values' = AddValues(cs, made)
      /\ failing = {} => call' = [call EXCEPT !.n = @ + 1]
  BY DEF Apply, SetState
<1>. HIDE DEF cs
<1>3. failing = {} /\ made = {}
  BY <1>1
<1>. HIDE DEF failing, made
<1>4. ASSUME NEW p \in OptionIds PROVE values'[p] = values[p]
  <2>1. values'[p] = values[p] \o [k \in 1..Cardinality({}) |-> Parsed(cs[InOrder({})[k]]).value]
    <3>1. {q \in made : cs[q].option = p} = {}
      BY <1>3
    <3>. QED
      BY <1>2, <3>1 DEF AddValues
  <2>2. <<0, 0>> \in Place
    BY DEF Place
  <2>3. [k \in 1..Cardinality({}) |-> Parsed(cs[InOrder({})[k]]).value] = <<>>
    BY <2>2, OneMade
  <2>. DEFINE s == values[p]
  <2>4. IsSequence(s)
    BY DEF ValuesShape, OptionIds
  <2>5. values'[p] = s \o <<>>
    BY <2>1, <2>3
  <2>. HIDE DEF s
  <2>6. s \o <<>> = s
    BY <2>4, ConcatGroups
  <2>. QED
    BY <2>5, <2>6 DEF s
<1>. QED
  BY <1>2, <1>3, <1>4

\* The parse goes on, or ends, and nothing else of it changes.
GoesOn == call' = [call EXCEPT !.n = @ + 1]
GivesUp == \E x : call' = [call EXCEPT !.phase = "threw", !.error = x]

\* A line for an option gives it one value, or throws.
LEMMA OneEntry ==
    ASSUME NEW n \in Nat, NEW o \in OptionIds, NEW t, ValuesShape,
           Apply(Effect(OneCall(n, o, t), FALSE, <<>>, <<>>), 1)
    PROVE  /\ options' = options /\ default' = default /\ start' = start
           /\ GoesOn \/ GivesUp
           /\ \A p \in OptionIds :
                 values'[p] = IF p = o /\ ParseOption(options[o], default[o], t).error = "none"
                              THEN values[p] \o <<ParseOption(options[o], default[o], t).value>>
                              ELSE values[p]
<1>. DEFINE e == Effect(OneCall(n, o, t), FALSE, <<>>, <<>>)
            cs == e.calls
            failing == {p \in DOMAIN cs : Parsed(cs[p]).error # "none"}
            made == {p \in DOMAIN cs : \A q \in failing : Before(p, q)}
            place == <<n, 1>>
            result == ParseOption(options[o], default[o], t)
<1>1. place \in Place
  BY DEF Place
<1>2. DOMAIN cs = {place} /\ cs[place].option = o /\ Parsed(cs[place]) = result
  <2>1. cs = OneCall(n, o, t)
    BY DEF Effect
  <2>2. cs[place] = Call(o, t) /\ DOMAIN cs = {place}
    BY <2>1 DEF OneCall
  <2>3. Call(o, t).option = o /\ Call(o, t).text = t
    BY DEF Call
  <2>. HIDE DEF cs, place
  <2>. QED
    BY <2>2, <2>3 DEF Parsed
<1>3. /\ options' = options /\ default' = default /\ start' = start
      /\ values' = AddValues(cs, made)
      /\ GoesOn \/ GivesUp
  BY DEF Apply, SetState, GoesOn, GivesUp
<1>. HIDE DEF cs, place
<1>4. made = IF result.error = "none" THEN {place} ELSE {}
  <2>1. CASE result.error = "none"
    BY <1>2, <2>1
  <2>2. CASE result.error # "none"
    <3>1. place \in failing /\ ~Before(place, place)
      BY <1>1, <1>2, <2>2, BeforeIsOrder
    <3>. QED
      BY <1>2, <2>2, <3>1
  <2>. QED
    BY <2>1, <2>2
<1>. HIDE DEF failing, made, result
<1>5. ASSUME NEW p \in OptionIds
      PROVE  values'[p] = IF p = o /\ result.error = "none"
                          THEN values[p] \o <<result.value>> ELSE values[p]
  <2>. DEFINE mine == {q \in made : cs[q].option = p}
              s == values[p]
              new == [k \in 1..Cardinality(mine) |-> Parsed(cs[InOrder(mine)[k]]).value]
  <2>1. values'[p] = s \o new
    BY <1>3 DEF AddValues
  <2>2. IsSequence(s)
    BY DEF ValuesShape, OptionIds
  <2>3. mine = IF p = o /\ result.error = "none" THEN {place} ELSE {}
    BY <1>2, <1>4
  <2>. HIDE DEF mine, s
  <2>4. new = IF p = o /\ result.error = "none" THEN <<result.value>> ELSE <<>>
    <3>1. CASE p = o /\ result.error = "none"
      <4>1. new = [k \in 1..Cardinality({place}) |-> Parsed(cs[InOrder({place})[k]]).value]
        BY <2>3, <3>1
      <4>2. new = <<Parsed(cs[place]).value>>
        BY <1>1, <4>1, OneMade
      <4>. QED
        BY <1>2, <3>1, <4>2
    <3>2. CASE ~(p = o /\ result.error = "none")
      <4>1. new = [k \in 1..Cardinality({}) |-> Parsed(cs[InOrder({})[k]]).value]
        BY <2>3, <3>2
      <4>2. new = <<>>
        BY <1>1, <4>1, OneMade
      <4>. QED
        BY <3>2, <4>2
    <3>. QED
      BY <3>1, <3>2
  <2>. HIDE DEF new
  <2>5. s \o <<>> = s
    BY <2>2, ConcatGroups
  <2>. QED
    BY <2>1, <2>4, <2>5 DEF s
<1>. QED
  BY <1>3, <1>5 DEF result

\* A line key = value.
LEMMA EntryStep ==
    ASSUME PoplInv, Shape, FileInv, EntryLine
    PROVE  FileInv'
<1>. DEFINE n == call.n
            key == QualifiedKey(call.section, Key)
            o == IfActive(options, FindLong(options, key))
<1>1. AtWord("ini") /\ IsEntry /\ NamesApart /\ CallShape /\ ValuesShape
  BY DEF EntryLine, Shape, OptionsShape
<1>2. call.section = SectionOf(n) /\ n \in Nat /\ n >= 1
      /\ DOMAIN call = {"phase", "source", "args", "n", "section", "error"}
  BY <1>1 DEF AtWord, Calling, FileInv, Parsing, CallShape
<1>3. n \in 1..Len(Args) /\ KeyValue = Explicit(n) /\ ~Section(n)
  BY <1>1, LineIs DEF AtWord
<1>4. SectionOf(n + 1) = SectionOf(n)
  <2>. HIDE DEF n
  <2>. QED
    BY <1>2, <1>3, SectionGrows
<1>5. \A p \in OptionIds : GivesTo(n, p) <=> p = o
  BY <1>1, <1>2, EntryIs
<1>6. o = 0 \/ o \in OptionIds
  <2>. HIDE DEF key
  <2>. QED
    BY FoundWithName
<1>7. 0 \notin OptionIds
  BY AppendDomain DEF PoplInv, ListsAgree, OptionIds
<1>8. Apply(IF o = 0 THEN Effect(NoCalls, FALSE, <<key>>, <<>>)
            ELSE Effect(OneCall(n, o, KeyValue), FALSE, <<>>, <<>>), 1)
  BY DEF EntryLine
<1>. HIDE DEF o, key, n
<1>9. /\ options' = options /\ default' = default /\ start' = start
      /\ GoesOn \/ GivesUp
      /\ \A p \in OptionIds :
            values'[p] = IF GivesTo(n, p) /\ ResultOf(n, p).error = "none"
                         THEN values[p] \o <<ResultOf(n, p).value>> ELSE values[p]
  <2>1. CASE o = 0
    <3>1. Apply(Effect(NoCalls, FALSE, <<key>>, <<>>), 1)
      BY <1>8, <2>1
    <3>2. /\ options' = options /\ default' = default /\ start' = start
          /\ call' = [call EXCEPT !.n = @ + 1]
          /\ \A p \in OptionIds : values'[p] = values[p]
      BY <1>1, <3>1, NoEntry
    <3>. QED
      BY <1>5, <1>7, <2>1, <3>2 DEF GoesOn
  <2>2. CASE o \in OptionIds
    <3>1. Apply(Effect(OneCall(n, o, KeyValue), FALSE, <<>>, <<>>), 1)
      BY <1>7, <1>8, <2>2
    <3>. DEFINE t == KeyValue
    <3>2. ParseOption(options[o], default[o], t) = ResultOf(n, o)
      BY <1>3 DEF ResultOf
    <3>4. Apply(Effect(OneCall(n, o, t), FALSE, <<>>, <<>>), 1)
      BY <3>1
    <3>. HIDE DEF t
    <3>3. /\ options' = options /\ default' = default /\ start' = start
          /\ GoesOn \/ GivesUp
          /\ \A p \in OptionIds :
                values'[p] = IF p = o /\ ParseOption(options[o], default[o], t).error = "none"
                             THEN values[p] \o <<ParseOption(options[o], default[o], t).value>>
                             ELSE values[p]
      <4>1. n \in Nat /\ ValuesShape
        BY <1>1, <1>2
      <4>. QED
        BY <2>2, <3>4, <4>1, OneEntry, Zenon
    <3>. QED
      BY <1>5, <3>2, <3>3
  <2>. QED
    BY <1>6, <2>1, <2>2
<1>10. SameLine
  <2>1. call'.args = call.args
    BY <1>2, <1>9 DEF GoesOn, GivesUp
  <2>. QED
    BY <1>9, <2>1 DEF SameLine
<1>11. \/ /\ call'.phase = "parsing" /\ call'.n = n + 1 /\ call'.section = SectionOf(n + 1)
       \/ call'.phase = "threw" /\ call'.n = n
  <2>1. call.phase = "parsing" /\ call.n = n
    BY <1>1 DEF AtWord, Calling, n
  <2>. QED
    BY <1>2, <1>4, <1>9, <2>1 DEF GoesOn, GivesUp
<1>. QED
  BY <1>1, <1>9, <1>10, <1>11, LineNext DEF n

\* A section line, and a line that is none of the three.
LEMMA OtherLineStep ==
    ASSUME PoplInv, Shape, FileInv, SkipLine \/ SectionLine
    PROVE  FileInv'
<1>. DEFINE n == call.n
<1>1. AtWord("ini") /\ ~IsEntry /\ CallShape /\ (SkipLine => ~IsSection)
  BY DEF SkipLine, SectionLine, IsEntry, Shape
<1>2. /\ call.phase = "parsing" /\ call.section = SectionOf(n) /\ n \in Nat /\ n >= 1
      /\ DOMAIN call = {"phase", "source", "args", "n", "section", "error"}
  BY <1>1 DEF AtWord, Calling, FileInv, Parsing, CallShape
<1>3. /\ Word = Args[n] /\ (IsSection <=> Section(n))
      /\ ~(/\ ~Section(n) /\ ~IsPrefix(<<"#">>, Args[n])
           /\ Positions(Args[n], Equal) # {} /\ NameEnd(n) > 0)
  BY <1>1, LineIs DEF AtWord
<1>4. \A o : ~GivesTo(n, o)
  BY <1>3 DEF GivesTo
<1>5. SectionOf(n + 1) = IF Section(n) THEN SubSeq(Args[n], 2, Len(Args[n]) - 1)
                         ELSE SectionOf(n)
  <2>. HIDE DEF n
  <2>. QED
    BY <1>2, SectionGrows
<1>6. /\ SameLine /\ start' = start /\ values' = values
      /\ call'.phase = "parsing" /\ call'.n = n + 1
      /\ call'.section = IF IsSection THEN SubSeq(Word, 2, Len(Word) - 1) ELSE call.section
  <2>1. CASE SkipLine
    BY <1>1, <1>2, <2>1 DEF SkipLine, SameLine
  <2>2. CASE SectionLine
    BY <1>2, <2>2 DEF SectionLine, SameLine
  <2>. QED
    BY <2>1, <2>2
<1>7. call'.section = SectionOf(n + 1)
  BY <1>2, <1>3, <1>5, <1>6
<1>. QED
  BY <1>1, <1>4, <1>6, <1>7, LineNext

\* The beginning and the end of a file.
LEMMA FileBegins ==
    ASSUME PoplInv, Shape, NEW lines, Begin("ini", lines)
    PROVE  FileInv'
<1>1. /\ UNCHANGED <<options, values, default>>
      /\ call' = [Idle EXCEPT !.phase = "parsing", !.source = "ini", !.args = lines]
      /\ start'.values = values
  BY DEF Begin
<1>2. call'.n = 1 /\ call'.phase = "parsing" /\ call'.section = <<>>
  BY <1>1 DEF Idle
<1>3. WordsDone' = 1
  BY <1>2 DEF WordsDone
<1>4. SectionOf(1)' = <<>>
  <2>1. {j \in 1..(1 - 1) : Section(j)'} = {}
    OBVIOUS
  <2>. QED
    BY <2>1 DEF SectionOf
<1>5. ASSUME NEW o PROVE Listing(IniGiven(o, 1), IniValue(o))' = <<>>
  <2>1. IniGiven(o, 1)' = {}
    BY DEF IniGiven
  <2>2. Cardinality({}) = 0 /\ 1..0 = {}
    BY FS_EmptySet
  <2>3. Listing(IniGiven(o, 1), IniValue(o))'
           = [k \in 1..Cardinality({}) |-> IniValue(o)'[InOrder({})[k]]]
    BY <2>1 DEF Listing
  <2>4. Listing(IniGiven(o, 1), IniValue(o))' = [k \in {} |-> IniValue(o)'[InOrder({})[k]]]
    BY <2>2, <2>3
  <2>. QED
    BY <2>4
<1>6. ASSUME NEW o \in OptionIds'
      PROVE  /\ IsSequence(start'.values[o])
             /\ values'[o] = start'.values[o] \o Listing(IniGiven(o, 1), IniValue(o))'
  <2>. DEFINE s == values[o]
  <2>1. IsSequence(s) /\ values'[o] = s /\ start'.values[o] = s
    BY <1>1 DEF Shape, ValuesShape, OptionIds
  <2>. HIDE DEF s
  <2>2. s \o <<>> = s
    BY <2>1, ConcatGroups
  <2>. QED
    BY <1>5, <2>1, <2>2
<1>. QED
  BY <1>2, <1>3, <1>4, <1>6 DEF FileInv

\* The end of a file changes none of the lists.
LEMMA FileEnds ==
    ASSUME PoplInv, Shape, FileInv, EndFile \/ UNCHANGED vars
    PROVE  FileInv'
<1>. DEFINE m == call.n
            k == WordsDone
<1>1. /\ UNCHANGED <<options, values, default, start>>
      /\ call'.n = call.n /\ call'.args = call.args /\ call'.source = call.source
      /\ call'.section = call.section
      /\ \/ call'.phase = call.phase
         \/ call'.phase = "returned" /\ call.phase = "parsing"
  BY DEF EndFile, AtEnd, Calling, vars, Shape, CallShape
<1>2. CASE Parsing("ini")
  <2>1. SameLine /\ start' = start /\ call'.n = m /\ WordsDone' = k
    BY <1>1 DEF SameLine, WordsDone, Args
  <2>2. call'.phase = "parsing" => call'.section = SectionOf(m)
    BY <1>1, <1>2 DEF FileInv
  <2>3. \A o \in OptionIds :
           values'[o] = start.values[o] \o Listing(IniGiven(o, k), IniValue(o))
    BY <1>1, <1>2 DEF FileInv
  <2>. HIDE DEF m, k
  <2>. QED
    BY <1>2, <2>1, <2>2, <2>3, FileNext
<1>3. CASE ~Parsing("ini")
  BY <1>1, <1>3 DEF FileInv, Parsing
<1>. QED
  BY <1>2, <1>3

\* Every step of the parser or the program.
LEMMA FileStep == PoplInv /\ Shape /\ FileInv /\ [Next]_vars => FileInv'
<1>. SUFFICES ASSUME PoplInv, Shape, FileInv, [Next]_vars PROVE FileInv'
  OBVIOUS
<1>1. ASSUME ~Parsing("ini")' PROVE FileInv'
  BY <1>1 DEF FileInv
<1>2. CASE SkipLine \/ SectionLine
  BY <1>2, OtherLineStep
<1>3. CASE EntryLine
  BY <1>3, EntryStep
<1>4. CASE EndFile \/ UNCHANGED vars
  BY <1>4, FileEnds
<1>5. CASE ParseDashes \/ ParseLong \/ ParseShort \/ ParsePlain \/ EndCommand
  <2>1. call.source = "argv" /\ DOMAIN call = {"phase", "source", "args", "n", "section", "error"}
    BY <1>5 DEF ParseDashes, ParseLong, ParseShort, ParsePlain, EndCommand, AtWord, AtEnd,
                Shape, CallShape
  <2>2. call'.source = "argv"
    BY <1>5, <2>1 DEF ParseDashes, ParseLong, ParseShort, ParsePlain, EndCommand, ParseWord, Apply
  <2>. QED
    BY <1>1, <2>2 DEF Parsing
<1>6. CASE ProgramCall
  <2>1. CASE \E lines : Begin("ini", lines)
    BY <2>1, FileBegins
  <2>2. CASE \E args : Begin("argv", args)
    BY <1>1, <2>2 DEF Begin, Idle, Parsing
  <2>3. CASE \E error : CallDone(error)
    BY <1>1, <2>3 DEF CallDone, Idle, Parsing
  <2>. QED
    BY <1>6, <2>1, <2>2, <2>3
       DEF ProgramCall, Add, AddOption, Reset, AssignTo, SetDefault, SetValue, SetAttribute,
           ParseCommand, ParseFile
<1>. QED
  BY <1>2, <1>3, <1>4, <1>5, <1>6 DEF Next, ParseStep

\* For every catalogue of options, every ini file and every history of calls: at
\* every line parse(ini_filename) has reached, also when it throws there, each
\* option has the values it had plus those of the lines so far that are for it.
THEOREM IniParsed == Spec => []IniIsReference
<1>1. Init => FileInv
  BY DEF Init, Idle, FileInv, Parsing
<1>2. PoplInv /\ Shape /\ FileInv => IniIsReference
  <2>. SUFFICES ASSUME Shape, FileInv, Parsing("ini"), NEW o \in OptionIds
                PROVE  LET lines == {<<i, 1>> : i \in {j \in 1..(WordsDone - 1) :
                                         GivesTo(j, o) /\ ResultOf(j, o).error = "none"}}
                       IN values[o] = start.values[o]
                                      \o [k \in 1..Cardinality(lines) |->
                                             ResultOf(InOrder(lines)[k][1], o).value]
    BY DEF IniIsReference
  <2>. DEFINE lines == IniGiven(o, WordsDone)
              a == [k \in 1..Cardinality(lines) |-> ResultOf(InOrder(lines)[k][1], o).value]
  <2>1. values[o] = start.values[o] \o Listing(lines, IniValue(o))
    BY DEF FileInv
  <2>2. lines \in SUBSET Place /\ IsFiniteSet(lines)
    <3>1. WordsDone \in Nat
      BY DEF WordsDone, Shape, CallShape
    <3>. DEFINE c == WordsDone
                T == (1..(c - 1)) \X {1}
    <3>2. lines \in SUBSET T
      BY DEF IniGiven
    <3>3. T \subseteq Place
      BY DEF Place
    <3>. HIDE DEF c, lines
    <3>4. IsFiniteSet(1..(c - 1)) /\ IsFiniteSet({1})
      <4>1. 1 \in Int /\ c - 1 \in Int
        BY <3>1 DEF c
      <4>. QED
        BY <4>1, FS_Interval, FS_Singleton
    <3>5. IsFiniteSet(T)
      BY <3>4, FS_Product
    <3>. HIDE DEF T
    <3>. QED
      BY <3>2, <3>3, <3>5, FS_Subset
  <2>. HIDE DEF lines
  <2>3. Listing(lines, IniValue(o)) = a
    <3>1. \A k \in 1..Cardinality(lines) : InOrder(lines)[k] \in Place
      BY <2>2, InOrderIn
    <3>. QED
      BY <3>1 DEF Listing, IniValue
  <2>4. values[o] = start.values[o] \o a
    BY <2>1, <2>3
  <2>. QED
    BY <2>4 DEF lines, a, IniGiven
<1>. QED
  BY ShapeInit, ShapeKept, InvKept, FileStep, <1>1, <1>2, PTL DEF Spec
=============================================================================
