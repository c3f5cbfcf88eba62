---------------------------- MODULE LinesProofs ----------------------------
(***************************************************************************)
(* What Without leaves of a file, for files of any length: which lines, in *)
(* which order, and what remains when lines are added or dropped again.    *)
(***************************************************************************)
EXTENDS Lines, TLAPS, FiniteSetTheorems, WellFoundedInduction

-----------------------------------------------------------------------------
(* Sets of positions: they have a least element, and their elements can be *)
(* counted from the first.                                                 *)

\* A set of numbers has a least element.
LEMMA Least ==
    ASSUME NEW T \in SUBSET Nat, T # {}
    PROVE  \E x \in T : \A y \in T : x <= y
<1>1. IsWellFoundedOn(OpToRel(<, Nat), Nat)
    BY NatLessThanWellFounded, Zenon
<1>2. PICK x \in T : \A y \in T : ~(<<y, x>> \in OpToRel(<, Nat))
    BY <1>1, WFMin, Zenon
<1>3. ASSUME NEW y \in T PROVE x <= y
    <2>1. x \in Nat /\ y \in Nat
        OBVIOUS
    <2>2. y < x => <<y, x>> \in OpToRel(<, Nat)
        BY <2>1 DEF OpToRel
    <2>3. ~(y < x)
        BY <1>2, <2>2, Zenon
    <2>q. QED
        BY <2>1, <2>3
<1>q. QED
    BY <1>3

\* How many elements of K come up to i, and which is the n-th.
UpTo(K, i) == {j \in K : j <= i}
Rank(K, i) == Cardinality(UpTo(K, i))
Nth(K, n)  == CHOOSE i \in K : Rank(K, i) = n

LEMMA Positions ==
    ASSUME NEW l \in Nat, NEW K \in SUBSET (1..l)
    PROVE  /\ IsFiniteSet(K) /\ Cardinality(K) \in Nat
           /\ \A i \in 0..l : /\ IsFiniteSet(UpTo(K, i))
                              /\ Rank(K, i) \in Nat /\ Rank(K, i) <= Cardinality(K)
           /\ Rank(K, 0) = 0 /\ Rank(K, l) = Cardinality(K)
<1>1. IsFiniteSet(1..l)
    BY FS_Interval
<1>2. IsFiniteSet(K) /\ Cardinality(K) \in Nat
    BY <1>1, FS_Subset, FS_CardinalityType
<1>3. ASSUME NEW i \in 0..l
      PROVE  IsFiniteSet(UpTo(K, i)) /\ Rank(K, i) \in Nat /\ Rank(K, i) <= Cardinality(K)
    <2>1. UpTo(K, i) \in SUBSET K
        BY DEF UpTo
    <2>2. IsFiniteSet(UpTo(K, i)) /\ Cardinality(UpTo(K, i)) <= Cardinality(K)
        BY <1>2, <2>1, FS_Subset
    <2>3. Cardinality(UpTo(K, i)) \in Nat
        BY <2>2, FS_CardinalityType
    <2>q. QED
        BY <1>2, <2>2, <2>3 DEF Rank
<1>4. UpTo(K, 0) = {} /\ UpTo(K, l) = K
    <2>1. \A j \in K : j \in Int /\ 1 <= j /\ j <= l
        OBVIOUS
    <2>2. \A j \in K : ~(j <= 0) /\ j <= l
        BY <2>1
    <2>q. QED
        BY <2>2 DEF UpTo
<1>q. QED
    BY <1>2, <1>3, <1>4, FS_EmptySet DEF Rank

LEMMA RankStep ==
    ASSUME NEW l \in Nat, NEW K \in SUBSET (1..l), NEW i \in 1..l
    PROVE  Rank(K, i) = Rank(K, i - 1) + (IF i \in K THEN 1 ELSE 0)
<1>0. \A j \in K : j \in Int
    OBVIOUS
<1>1. UpTo(K, i) = UpTo(K, i - 1) \cup (IF i \in K THEN {i} ELSE {})
    <2>1. \A j \in K : j <= i <=> j <= i - 1 \/ j = i
        BY <1>0
    <2>q. QED
        BY <2>1 DEF UpTo
<1>2. IsFiniteSet(UpTo(K, i - 1)) /\ i \notin UpTo(K, i - 1) /\ Rank(K, i - 1) \in Nat
    <2>1. i - 1 \in 0..l
        OBVIOUS
    <2>2. ~(i <= i - 1)
        OBVIOUS
    <2>3. i \notin UpTo(K, i - 1)
        BY <2>2 DEF UpTo
    <2>q. QED
        BY <2>1, <2>3, Positions
<1>3. CASE i \in K
    <2>1. UpTo(K, i) = UpTo(K, i - 1) \cup {i}
        BY <1>1, <1>3
    <2>2. Cardinality(UpTo(K, i - 1) \cup {i}) = Cardinality(UpTo(K, i - 1)) + 1
        BY <1>2, FS_AddElement
    <2>q. QED
        BY <1>3, <2>1, <2>2 DEF Rank
<1>4. CASE i \notin K
    <2>1. UpTo(K, i) = UpTo(K, i - 1)
        BY <1>1, <1>4
    <2>q. QED
        BY <1>2, <1>4, <2>1 DEF Rank
<1>q. QED
    BY <1>3, <1>4

\* Later positions have a greater rank.
LEMMA RankGrows ==
    ASSUME NEW l \in Nat, NEW K \in SUBSET (1..l), NEW i \in 0..l, NEW j \in K, i < j
    PROVE  Rank(K, i) < Rank(K, j)
<1>0. \A k \in K : k \in Int /\ k \in 1..l
    OBVIOUS
<1>1. j \in 1..l /\ j - 1 \in 0..l /\ i \in 0..l /\ i <= j - 1
    BY <1>0
<1>2. UpTo(K, i) \in SUBSET UpTo(K, j - 1)
    <2>1. \A k \in K : k <= i => k <= j - 1
        BY <1>0, <1>1
    <2>q. QED
        BY <2>1 DEF UpTo
<1>3. IsFiniteSet(UpTo(K, j - 1)) /\ Rank(K, j - 1) \in Nat /\ Rank(K, i) \in Nat
    BY <1>1, Positions
<1>4. Rank(K, i) <= Rank(K, j - 1)
    BY <1>2, <1>3, FS_Subset DEF Rank
<1>5. Rank(K, j) = Rank(K, j - 1) + 1
    BY <1>1, RankStep
<1>q. QED
    BY <1>3, <1>4, <1>5

\* Every number up to the number of elements is the rank of one of them.
LEMMA RankOnto ==
    ASSUME NEW l \in Nat, NEW K \in SUBSET (1..l), NEW n \in 1..Cardinality(K)
    PROVE  \E i \in K : Rank(K, i) = n
<1> DEFINE T == {i \in 0..l : Rank(K, i) >= n}
<1>0. Cardinality(K) \in Nat /\ n \in Nat /\ n >= 1
    BY Positions
<1>1. T \in SUBSET Nat /\ l \in T
    BY <1>0, Positions
<1>2. PICK x \in T : \A y \in T : x <= y
    BY <1>1, Least
<1>3. x \in 0..l /\ Rank(K, x) >= n
    BY <1>2
<1>4. x \in 1..l /\ x - 1 \in 0..l
    BY <1>0, <1>3, Positions
<1>5. Rank(K, x - 1) \in Nat /\ Rank(K, x - 1) < n
    <2>1. x - 1 \notin T
        BY <1>2, <1>4
    <2>2. Rank(K, x - 1) \in Nat
        BY <1>4, Positions
    <2>q. QED
        BY <1>0, <1>4, <2>1, <2>2
<1>6. Rank(K, x) = Rank(K, x - 1) + (IF x \in K THEN 1 ELSE 0)
    BY <1>4, RankStep
<1>q. QED
    BY <1>0, <1>3, <1>5, <1>6

\* The n-th element is the one of rank n.
LEMMA NthIs ==
    ASSUME NEW l \in Nat, NEW K \in SUBSET (1..l)
    PROVE  /\ \A n \in 1..Cardinality(K) : Nth(K, n) \in K /\ Rank(K, Nth(K, n)) = n
           /\ \A i \in K : /\ Rank(K, i) \in 1..Cardinality(K)
                           /\ \A j \in K : Rank(K, j) = Rank(K, i) => j = i
                           /\ Nth(K, Rank(K, i)) = i
<1>1. ASSUME NEW n \in 1..Cardinality(K) PROVE Nth(K, n) \in K /\ Rank(K, Nth(K, n)) = n
    BY RankOnto DEF Nth
<1>2. ASSUME NEW i \in K, NEW j \in K, Rank(K, j) = Rank(K, i) PROVE j = i
    <2>1. i \in 0..l /\ j \in 0..l
        OBVIOUS
    <2>2. Rank(K, i) \in Nat
        BY <2>1, Positions
    <2>3. ~(i < j) /\ ~(j < i)
        BY <1>2, <2>1, <2>2, RankGrows
    <2>q. QED
        BY <2>1, <2>3
<1>3. ASSUME NEW i \in K PROVE Rank(K, i) \in 1..Cardinality(K)
    <2>1. i \in 1..l /\ i \in 0..l /\ 0 \in 0..l /\ 0 < i
        OBVIOUS
    <2>2. Rank(K, 0) < Rank(K, i)
        BY <2>1, RankGrows
    <2>3. Rank(K, 0) = 0 /\ Rank(K, i) \in 0..Cardinality(K) /\ Cardinality(K) \in Nat
        BY <2>1, Positions
    <2>q. QED
        BY <2>2, <2>3
<1>4. ASSUME NEW i \in K PROVE Nth(K, Rank(K, i)) = i
    BY <1>1, <1>2, <1>3
<1>q. QED
    BY <1>1, <1>2, <1>3, <1>4

\* They come in their order.
LEMMA NthGrows ==
    ASSUME NEW l \in Nat, NEW K \in SUBSET (1..l),
           NEW m \in 1..Cardinality(K), NEW n \in 1..Cardinality(K), m < n
    PROVE  Nth(K, m) < Nth(K, n)
<1>0. \A k \in 1..Cardinality(K) : Nth(K, k) \in K /\ Rank(K, Nth(K, k)) = k
    BY NthIs
<1>1. /\ Nth(K, m) \in K /\ Rank(K, Nth(K, m)) = m
      /\ Nth(K, n) \in K /\ Rank(K, Nth(K, n)) = n
    BY <1>0
<1>2. Nth(K, m) \in 0..l /\ Nth(K, n) \in 0..l
    <2>1. \A k \in K : k \in 0..l
        OBVIOUS
    <2>q. QED
        BY <1>1, <2>1
<1>3. m \in Int /\ n \in Int
    BY Positions
<1>4. ~(Nth(K, n) < Nth(K, m))
    BY <1>1, <1>2, <1>3, RankGrows
<1>5. Nth(K, m) # Nth(K, n)
    BY <1>1, <1>3
<1>q. QED
    BY <1>2, <1>4, <1>5

-----------------------------------------------------------------------------
(* Without.                                                                *)

\* The positions of a file of l lines that are kept.
Rest(l, drop) == (1..l) \ drop

LEMMA WithoutIs ==
    ASSUME NEW l \in Nat, NEW lines, DOMAIN lines = 1..l, NEW drop
    PROVE  Without(lines, drop) =
             [n \in 1..Cardinality(Rest(l, drop)) |-> lines[Nth(Rest(l, drop), n)]]
<1>1. Without(lines, drop) = [n \in 1..Cardinality(DOMAIN lines \ drop) |->
                                lines[Nth(DOMAIN lines \ drop, n)]]
    BY Zenon DEF Without, Nth, Rank, UpTo
<1>2. DOMAIN lines \ drop = Rest(l, drop)
    BY DEF Rest
<1>q. QED
    BY <1>1, <1>2

\* What comes out is a sequence of lines that were there.
LEMMA WithoutType ==
    ASSUME NEW S, NEW lines \in Seq(S), NEW drop
    PROVE  /\ Without(lines, drop) \in Seq(S)
           /\ Len(Without(lines, drop)) = Cardinality(Rest(Len(lines), drop))
           /\ \A n \in 1..Len(Without(lines, drop)) :
                 /\ Nth(Rest(Len(lines), drop), n) \in Rest(Len(lines), drop)
                 /\ Without(lines, drop)[n] = lines[Nth(Rest(Len(lines), drop), n)]
<1> DEFINE K == Rest(Len(lines), drop)
           c == Cardinality(K)
           new == Without(lines, drop)
<1>1. Len(lines) \in Nat /\ DOMAIN lines = 1..Len(lines) /\ \A i \in 1..Len(lines) : lines[i] \in S
    OBVIOUS
<1>2. K \in SUBSET (1..Len(lines))
    BY DEF Rest
<1>3. new = [n \in 1..c |-> lines[Nth(K, n)]]
    BY <1>1, WithoutIs
<1>4. c \in Nat /\ \A n \in 1..c : Nth(K, n) \in K
    BY <1>1, <1>2, Positions, NthIs
<1> HIDE DEF K, c, new
<1>5. new \in [1..c -> S]
    BY <1>1, <1>2, <1>3, <1>4
<1>6. new \in Seq(S) /\ Len(new) = c
    BY <1>4, <1>5
<1>7. \A n \in 1..Len(new) : Nth(K, n) \in K /\ new[n] = lines[Nth(K, n)]
    BY <1>3, <1>4, <1>6
<1>q. QED
    BY <1>6, <1>7 DEF K, c, new

\* One file begins with all lines of another.
Continues(old, new) == Len(old) <= Len(new) /\ SubSeq(new, 1, Len(old)) = old

LEMMA ContinuesIs ==
    ASSUME NEW S, NEW old \in Seq(S), NEW new \in Seq(S), Len(old) <= Len(new),
           \A n \in 1..Len(old) : new[n] = old[n]
    PROVE  Continues(old, new)
<1>1. SubSeq(new, 1, Len(old)) \in Seq(S) /\ Len(SubSeq(new, 1, Len(old))) = Len(old)
    OBVIOUS
<1>2. \A n \in 1..Len(old) : SubSeq(new, 1, Len(old))[n] = old[n]
    OBVIOUS
<1>q. QED
    BY <1>1, <1>2 DEF Continues

\* If the lines that are kept stay, and others only come after them, what is
\* kept of the new file continues what was kept of the old one.
LEMMA WithoutGrows ==
    ASSUME NEW S, NEW lines \in Seq(S), NEW drop, NEW lines2 \in Seq(S), NEW drop2,
           Len(lines) <= Len(lines2),
           \A i \in 1..Len(lines) : i \in drop <=> i \in drop2,
           \A i \in (1..Len(lines)) \ drop : lines2[i] = lines[i]
    PROVE  Continues(Without(lines, drop), Without(lines2, drop2))
<1> DEFINE l == Len(lines)
           l2 == Len(lines2)
           K == Rest(l, drop)
           K2 == Rest(l2, drop2)
<1>1. l \in Nat /\ l2 \in Nat /\ l <= l2
    OBVIOUS
<1> HIDE DEF l, l2
<1>2. K \in SUBSET (1..l) /\ K2 \in SUBSET (1..l2) /\ K \subseteq K2
    <2>1. 1..l \subseteq 1..l2
        BY <1>1
    <2>2. \A i \in 1..l : i \in drop <=> i \in drop2
        BY DEF l
    <2>q. QED
        BY <2>1, <2>2 DEF Rest
<1>3. \A i \in K2 : i <= l => i \in K
    <2>1. \A i \in 1..l2 : i <= l => i \in 1..l
        BY <1>1
    <2>2. \A i \in 1..l : i \in drop <=> i \in drop2
        BY DEF l
    <2>q. QED
        BY <2>1, <2>2 DEF Rest
<1>4. \A i \in K : lines2[i] = lines[i]
    BY DEF Rest, l
<1> HIDE DEF K, K2
<1>5. Cardinality(K) <= Cardinality(K2) /\ Cardinality(K) \in Nat /\ Cardinality(K2) \in Nat
    BY <1>1, <1>2, Positions, FS_Subset
<1>6. ASSUME NEW n \in 1..Cardinality(K) PROVE Nth(K2, n) = Nth(K, n)
    <2>1. Nth(K, n) \in K /\ Rank(K, Nth(K, n)) = n
        BY <1>1, <1>2, NthIs
    <2>2. UpTo(K2, Nth(K, n)) = UpTo(K, Nth(K, n))
        <3>1. \A j \in K2 : j <= Nth(K, n) => j <= l
            <4>1. \A j \in K2 : j \in Int
                BY <1>1, <1>2
            <4>2. Nth(K, n) \in 1..l
                BY <1>2, <2>1
            <4>3. Nth(K, n) \in Int /\ Nth(K, n) <= l
                BY <1>1, <4>2
            <4>q. QED
                BY <1>1, <4>1, <4>3
        <3>q. QED
            BY <1>2, <1>3, <3>1 DEF UpTo
    <2>3. Rank(K2, Nth(K, n)) = n
        BY <2>1, <2>2 DEF Rank
    <2>4. Nth(K2, Rank(K2, Nth(K, n))) = Nth(K, n)
        BY <1>1, <1>2, <2>1, NthIs
    <2>q. QED
        BY <2>3, <2>4
<1> DEFINE old == Without(lines, drop)
           new == Without(lines2, drop2)
<1>7. /\ old \in Seq(S) /\ Len(old) = Cardinality(K)
      /\ \A n \in 1..Len(old) : Nth(K, n) \in K /\ old[n] = lines[Nth(K, n)]
    BY WithoutType DEF K, l
<1>8. /\ new \in Seq(S) /\ Len(new) = Cardinality(K2)
      /\ \A n \in 1..Len(new) : new[n] = lines2[Nth(K2, n)]
    BY WithoutType DEF K2, l2
<1> HIDE DEF old, new
<1>9. ASSUME NEW n \in 1..Len(old) PROVE new[n] = old[n]
    <2>1. n \in 1..Cardinality(K) /\ n \in 1..Len(new)
        BY <1>5, <1>7, <1>8
    <2>q. QED
        BY <1>4, <1>6, <1>7, <1>8, <2>1
<1>10. Continues(old, new)
    BY <1>5, <1>7, <1>8, <1>9, ContinuesIs
<1>q. QED
    BY <1>10 DEF old, new

\* Counting through a bijection.
LEMMA SameCount ==
    ASSUME NEW S, NEW T, IsFiniteSet(S), NEW f \in [S -> T],
           \A x \in S, y \in S : f[x] = f[y] => x = y,
           \A y \in T : \E x \in S : f[x] = y
    PROVE  Cardinality(T) = Cardinality(S)
<1>1. f \in Bijection(S, T)
    BY DEF Bijection, Injection, Surjection, IsInjective
<1>2. ExistsBijection(S, T)
    BY <1>1 DEF ExistsBijection
<1>q. QED
    BY <1>2, FS_Bijection

\* Of the positions K let K3 remain; in the numbering of K these are K2.  The
\* n-th of K2 is the number of the n-th of K3.
LEMMA Renumbered ==
    ASSUME NEW l \in Nat, NEW K \in SUBSET (1..l), NEW K3 \in SUBSET K,
           NEW K2 \in SUBSET (1..Cardinality(K)),
           \A n \in 1..Cardinality(K) : n \in K2 <=> Nth(K, n) \in K3
    PROVE  /\ Cardinality(K2) = Cardinality(K3)
           /\ \A n \in 1..Cardinality(K3) : Nth(K2, n) = Rank(K, Nth(K3, n))
<1> DEFINE m == Cardinality(K)
<1>1. m \in Nat /\ IsFiniteSet(K) /\ IsFiniteSet(K3) /\ K3 \in SUBSET (1..l) /\ K2 \in SUBSET (1..m)
    BY Positions, FS_Subset
<1>2. \A n \in 1..m : Nth(K, n) \in K /\ Rank(K, Nth(K, n)) = n
    BY NthIs
<1>3. \A i \in K : Rank(K, i) \in 1..m /\ Nth(K, Rank(K, i)) = i
    BY NthIs
<1>4. \A i \in K, j \in K : Rank(K, j) = Rank(K, i) => j = i
    BY NthIs
<1> HIDE DEF m
<1>5. \A i \in K3 : Rank(K, i) \in K2
    BY <1>3 DEF m
<1>6. \A n \in K2 : Nth(K, n) \in K3 /\ Rank(K, Nth(K, n)) = n
    BY <1>2 DEF m
<1>7. Cardinality(K2) = Cardinality(K3)
    <2> DEFINE f == [i \in K3 |-> Rank(K, i)]
    <2>1. f \in [K3 -> K2]
        BY <1>5
    <2>2. \A x \in K3, y \in K3 : f[x] = f[y] => x = y
        BY <1>4
    <2>3. \A y \in K2 : \E x \in K3 : f[x] = y
        BY <1>6
    <2> HIDE DEF f
    <2>q. QED
        BY <1>1, <2>1, <2>2, <2>3, SameCount
<1>8. ASSUME NEW i \in K3, NEW j \in K3 PROVE j <= i <=> Rank(K, j) <= Rank(K, i)
    <2>1. i \in 1..l /\ j \in 1..l /\ i \in K /\ j \in K
        BY <1>1
    <2>2. i \in 0..l /\ j \in 0..l
        BY <2>1
    <2>3. Rank(K, i) \in Nat /\ Rank(K, j) \in Nat
        BY <2>2, Positions
    <2>4. CASE j < i
        BY <2>1, <2>2, <2>3, <2>4, RankGrows
    <2>5. CASE i < j
        BY <2>1, <2>2, <2>3, <2>5, RankGrows
    <2>6. CASE i = j
        BY <2>1, <2>3, <2>6
    <2>q. QED
        BY <2>1, <2>4, <2>5, <2>6
<1>9. ASSUME NEW i \in K3 PROVE Rank(K2, Rank(K, i)) = Rank(K3, i)
    <2> DEFINE f == [j \in UpTo(K3, i) |-> Rank(K, j)]
               S == UpTo(K3, i)
               T == UpTo(K2, Rank(K, i))
    <2>1. IsFiniteSet(S)
        <3>1. i \in 0..l
            BY <1>1
        <3>q. QED
            BY <1>1, <3>1, Positions
    <2>2. f \in [S -> T]
        BY <1>5, <1>8 DEF UpTo
    <2>3. \A x \in S, y \in S : f[x] = f[y] => x = y
        BY <1>4 DEF UpTo
    <2>4. ASSUME NEW y \in T PROVE \E x \in S : f[x] = y
        <3>1. y \in K2 /\ y <= Rank(K, i)
            BY <2>4 DEF UpTo
        <3>2. Nth(K, y) \in K3 /\ Rank(K, Nth(K, y)) = y
            BY <1>6, <3>1
        <3>3. Nth(K, y) <= i
            BY <1>8, <3>1, <3>2
        <3>4. Nth(K, y) \in S
            BY <3>2, <3>3 DEF UpTo
        <3>q. QED
            BY <3>2, <3>4
    <2> HIDE DEF f, S, T
    <2>5. Cardinality(T) = Cardinality(S)
        BY <2>1, <2>2, <2>3, <2>4, SameCount
    <2>q. QED
        BY <2>5 DEF Rank, S, T
<1>10. ASSUME NEW n \in 1..Cardinality(K3) PROVE Nth(K2, n) = Rank(K, Nth(K3, n))
    <2>1. Nth(K3, n) \in K3 /\ Rank(K3, Nth(K3, n)) = n
        BY <1>1, NthIs
    <2>2. Rank(K, Nth(K3, n)) \in K2 /\ Rank(K2, Rank(K, Nth(K3, n))) = n
        BY <1>5, <1>9, <2>1
    <2>3. \A r \in K2 : Nth(K2, Rank(K2, r)) = r
        BY <1>1, NthIs
    <2>q. QED
        BY <2>2, <2>3
<1>q. QED
    BY <1>7, <1>10

\* Dropping some lines and then the rest of them is dropping all at once.
LEMMA WithoutTwice ==
    ASSUME NEW S, NEW lines \in Seq(S), NEW drop, NEW all, NEW rest,
           drop \subseteq all,
           \A n \in 1..Len(Without(lines, drop)) :
               n \in rest <=> Nth(Rest(Len(lines), drop), n) \in all
    PROVE  Without(Without(lines, drop), rest) = Without(lines, all)
<1> DEFINE l == Len(lines)
           K == Rest(l, drop)
           K3 == Rest(l, all)
           mid == Without(lines, drop)
           K2 == Rest(Len(mid), rest)
           new == Without(mid, rest)
           want == Without(lines, all)
<1>1. l \in Nat /\ K \in SUBSET (1..l) /\ K3 \in SUBSET K /\ K3 \in SUBSET (1..l)
    BY DEF Rest
<1>2. /\ mid \in Seq(S) /\ Len(mid) = Cardinality(K)
      /\ \A n \in 1..Len(mid) : Nth(K, n) \in K /\ mid[n] = lines[Nth(K, n)]
    BY WithoutType, ZenonT(30)
<1>3. /\ want \in Seq(S) /\ Len(want) = Cardinality(K3)
      /\ \A n \in 1..Len(want) : Nth(K3, n) \in K3 /\ want[n] = lines[Nth(K3, n)]
    BY WithoutType, ZenonT(30)
<1>4. /\ new \in Seq(S) /\ Len(new) = Cardinality(K2)
      /\ \A n \in 1..Len(new) : Nth(K2, n) \in K2 /\ new[n] = mid[Nth(K2, n)]
    <2>1. mid \in Seq(S)
        BY <1>2
    <2> HIDE DEF mid
    <2>q. QED
        BY <2>1, WithoutType, ZenonT(60)
<1>5. \A n \in 1..Len(mid) : n \in rest <=> Nth(K, n) \in all
    OBVIOUS
<1>6. /\ K2 \in SUBSET (1..Cardinality(K))
      /\ \A n \in 1..Cardinality(K) : n \in K2 <=> Nth(K, n) \in K3
    <2> HIDE DEF mid, l
    <2>q. QED
        BY <1>1, <1>2, <1>5 DEF Rest
<1> HIDE DEF l, K, K3, mid, K2, new, want
<1>7. Cardinality(K2) = Cardinality(K3) /\ \A n \in 1..Cardinality(K3) : Nth(K2, n) = Rank(K, Nth(K3, n))
    BY <1>1, <1>6, Renumbered
<1>8. \A i \in K3 : Nth(K, Rank(K, i)) = i
    BY <1>1, NthIs
<1>9. ASSUME NEW n \in 1..Len(want) PROVE new[n] = want[n]
    <2>1. n \in 1..Cardinality(K3) /\ n \in 1..Len(new)
        BY <1>3, <1>4, <1>7
    <2>2. Nth(K2, n) = Rank(K, Nth(K3, n)) /\ Nth(K3, n) \in K3
        BY <1>3, <1>7, <2>1
    <2>3. Nth(K2, n) \in K2 /\ new[n] = mid[Nth(K2, n)]
        BY <1>4, <2>1
    <2>4. Nth(K2, n) \in 1..Len(mid)
        BY <1>2, <1>6, <2>3
    <2>5. mid[Nth(K2, n)] = lines[Nth(K, Nth(K2, n))]
        BY <1>2, <2>4
    <2>6. Nth(K, Nth(K2, n)) = Nth(K3, n)
        BY <1>8, <2>2
    <2>q. QED
        BY <1>3, <2>3, <2>5, <2>6
<1>10. Len(new) = Len(want)
    BY <1>3, <1>4, <1>7
<1>11. new = want
    BY <1>3, <1>4, <1>9, <1>10
<1>q. QED
    BY <1>11 DEF new, want, mid

-----------------------------------------------------------------------------
(* Without, by saying where each of the lines that are left comes from.    *)

\* An increasing function that reaches all of K counts it.
Counts(h, c, K) ==
    /\ h \in [1..c -> K]
    /\ \A m \in 1..c, n \in 1..c : m < n => h[m] < h[n]
    /\ \A k \in K : \E n \in 1..c : h[n] = k

LEMMA Numbered ==
    ASSUME NEW l \in Nat, NEW K \in SUBSET (1..l), NEW c \in Nat, NEW h, Counts(h, c, K)
    PROVE  Cardinality(K) = c /\ \A n \in 1..c : Nth(K, n) = h[n]
<1> USE DEF Counts
<1>0. \A k \in K : k \in Int
    OBVIOUS
<1>1. \A m \in 1..c, n \in 1..c : h[m] = h[n] => m = n
    <2>1. \A m \in 1..c, n \in 1..c : ~(m < n) /\ ~(n < m) => m = n
        OBVIOUS
    <2>2. \A m \in 1..c : h[m] \in Int
        BY <1>0
    <2>q. QED
        BY <2>1, <2>2
<1>2. IsFiniteSet(1..c) /\ Cardinality(1..c) = c
    BY FS_Interval
<1>3. Cardinality(K) = c
    BY <1>1, <1>2, SameCount
<1>4. ASSUME NEW n \in 1..c PROVE Nth(K, n) = h[n]
    <2> DEFINE S == 1..n
               T == UpTo(K, h[n])
               g == [m \in S |-> h[m]]
    <2>0. \A m \in 1..c : h[m] \in K /\ h[m] \in Int
        BY <1>0
    <2>1. n \in Nat /\ \A m \in S : m \in 1..c /\ (m < n \/ m = n)
        OBVIOUS
    <2>2. g \in [S -> T]
        <3>1. \A m \in S : h[m] \in K /\ h[m] <= h[n]
            <4>1. \A m \in 1..c : m < n \/ m = n => h[m] <= h[n]
                BY <2>0
            <4>q. QED
                BY <2>0, <2>1, <4>1
        <3>q. QED
            BY <3>1 DEF UpTo
    <2>3. \A x \in S, y \in S : g[x] = g[y] => x = y
        BY <1>1, <2>1
    <2>4. ASSUME NEW y \in T PROVE \E x \in S : g[x] = y
        <3>1. y \in K /\ y <= h[n]
            BY DEF UpTo
        <3>2. PICK m \in 1..c : h[m] = y
            BY <3>1
        <3>3. ~(n < m)
            BY <2>0, <3>1, <3>2
        <3>4. m \in S
            BY <3>3
        <3>q. QED
            BY <3>2, <3>4
    <2>5. IsFiniteSet(S) /\ Cardinality(S) = n
        BY <2>1, FS_Interval
    <2> HIDE DEF S, T, g
    <2>6. Cardinality(T) = n
        BY <2>2, <2>3, <2>4, <2>5, SameCount
    <2>7. Rank(K, h[n]) = n
        BY <2>6 DEF Rank, T
    <2>8. Nth(K, Rank(K, h[n])) = h[n]
        BY NthIs
    <2>q. QED
        BY <2>7, <2>8
<1>q. QED
    BY <1>3, <1>4

\* The lines `new` come from the places h.
Picks(new, lines, h) == \A n \in 1..Len(new) : new[n] = lines[h[n]]

LEMMA WithoutBy ==
    ASSUME NEW S, NEW lines \in Seq(S), NEW drop, NEW new \in Seq(S), NEW h,
           Counts(h, Len(new), (1..Len(lines)) \ drop), Picks(new, lines, h)
    PROVE  Without(lines, drop) = new
<1> DEFINE K == Rest(Len(lines), drop)
           c == Len(new)
           out == Without(lines, drop)
<1>1. Len(lines) \in Nat /\ c \in Nat /\ K \in SUBSET (1..Len(lines)) /\ Counts(h, c, K)
    BY DEF Rest
<1>3. Cardinality(K) = c /\ \A n \in 1..c : Nth(K, n) = h[n]
    <2> HIDE DEF K, c
    <2>q. QED
        BY <1>1, Numbered
<1>4. /\ out \in Seq(S) /\ Len(out) = Cardinality(K)
      /\ \A n \in 1..Len(out) : out[n] = lines[Nth(K, n)]
    BY WithoutType
<1> HIDE DEF out, K
<1>5. \A n \in 1..Len(new) : out[n] = new[n]
    BY <1>3, <1>4 DEF Picks
<1>6. out = new
    BY <1>3, <1>4, <1>5
<1>q. QED
    BY <1>6 DEF out

LEMMA Concatenated ==
    ASSUME NEW S, NEW a \in Seq(S), NEW b \in Seq(S)
    PROVE  /\ a \o b \in Seq(S) /\ Len(a \o b) = Len(a) + Len(b)
           /\ Len(a) \in Nat /\ Len(b) \in Nat
           /\ \A n \in 1..Len(a) : (a \o b)[n] = a[n]
           /\ \A n \in 1..Len(b) : (a \o b)[Len(a) + n] = b[n]
OBVIOUS

\* Nothing is dropped.
LEMMA WithoutNothing ==
    ASSUME NEW S, NEW lines \in Seq(S), NEW drop, \A i \in 1..Len(lines) : i \notin drop
    PROVE  Without(lines, drop) = lines
<1> DEFINE h == [n \in 1..Len(lines) |-> n]
<1>1. h \in [1..Len(lines) -> (1..Len(lines)) \ drop]
    OBVIOUS
<1>2. \A m \in 1..Len(lines), n \in 1..Len(lines) : m < n => h[m] < h[n]
    OBVIOUS
<1>3. \A k \in (1..Len(lines)) \ drop : \E n \in 1..Len(lines) : h[n] = k
    OBVIOUS
<1>4. \A n \in 1..Len(lines) : lines[n] = lines[h[n]]
    OBVIOUS
<1> HIDE DEF h
<1>5. Counts(h, Len(lines), (1..Len(lines)) \ drop) /\ Picks(lines, lines, h)
    BY <1>1, <1>2, <1>3, <1>4 DEF Counts, Picks
<1>q. QED
    BY <1>5, WithoutBy

\* Everything up to a place, and everything after it.
LEMMA WithoutSplit ==
    ASSUME NEW S, NEW lines \in Seq(S), NEW drop, NEW low, NEW high, NEW at \in Int,
           \A i \in 1..Len(lines) : i \in low <=> i \in drop \/ i >= at,
           \A i \in 1..Len(lines) : i \in high <=> i \in drop \/ i < at
    PROVE  Without(lines, low) \o Without(lines, high) = Without(lines, drop)
<1> DEFINE l == Len(lines)
           K1 == Rest(l, low)
           K2 == Rest(l, high)
           a == Without(lines, low)
           b == Without(lines, high)
           new == a \o b
           h == [n \in 1..Len(new) |-> IF n <= Len(a) THEN Nth(K1, n) ELSE Nth(K2, n - Len(a))]
<1>1. l \in Nat /\ K1 \in SUBSET (1..l) /\ K2 \in SUBSET (1..l)
    BY DEF Rest
<1>2. /\ a \in Seq(S) /\ Len(a) = Cardinality(K1) /\ Len(a) \in Nat
      /\ \A n \in 1..Len(a) : Nth(K1, n) \in K1 /\ a[n] = lines[Nth(K1, n)]
    BY WithoutType
<1>3. /\ b \in Seq(S) /\ Len(b) = Cardinality(K2) /\ Len(b) \in Nat
      /\ \A n \in 1..Len(b) : Nth(K2, n) \in K2 /\ b[n] = lines[Nth(K2, n)]
    BY WithoutType
<1>4. \A i \in K1 : i \in (1..l) \ drop /\ i < at
    BY <1>1 DEF Rest
<1>5. \A i \in K2 : i \in (1..l) \ drop /\ i >= at
    BY <1>1 DEF Rest
<1>6. \A i \in (1..l) \ drop : i \in K1 \/ i \in K2
    <2>1. \A i \in 1..l : i < at \/ i >= at
        BY <1>1
    <2>q. QED
        BY <2>1 DEF Rest
<1>7. \A m \in 1..Len(a), n \in 1..Len(a) : m < n => Nth(K1, m) < Nth(K1, n)
    BY <1>1, <1>2, NthGrows
<1>8. \A m \in 1..Len(b), n \in 1..Len(b) : m < n => Nth(K2, m) < Nth(K2, n)
    BY <1>1, <1>3, NthGrows
<1>9. \A i \in K1 : \E n \in 1..Len(a) : Nth(K1, n) = i
    BY <1>1, <1>2, NthIs
<1>10. \A i \in K2 : \E n \in 1..Len(b) : Nth(K2, n) = i
    BY <1>1, <1>3, NthIs
<1> HIDE DEF a, b, K1, K2, l
<1>11. /\ new \in Seq(S) /\ Len(new) = Len(a) + Len(b)
       /\ \A n \in 1..Len(a) : new[n] = a[n]
       /\ \A n \in 1..Len(b) : new[Len(a) + n] = b[n]
    <2>1. a \in Seq(S) /\ b \in Seq(S)
        BY <1>2, <1>3
    <2>q. QED
        BY <2>1, Concatenated
<1> HIDE DEF new
<1>12. ASSUME NEW n \in 1..Len(new)
       PROVE  \/ n <= Len(a) /\ n \in 1..Len(a) /\ h[n] = Nth(K1, n)
              \/ ~(n <= Len(a)) /\ n - Len(a) \in 1..Len(b) /\ h[n] = Nth(K2, n - Len(a))
    BY <1>2, <1>3, <1>11
<1>13. \A n \in 1..Len(a) : n \in 1..Len(new) /\ h[n] = Nth(K1, n)
    BY <1>2, <1>3, <1>11
<1>14. \A n \in 1..Len(b) : Len(a) + n \in 1..Len(new) /\ h[Len(a) + n] = Nth(K2, n)
    BY <1>2, <1>3, <1>11
<1> HIDE DEF h
<1>15. h \in [1..Len(new) -> (1..l) \ drop]
    <2>1. DOMAIN h = 1..Len(new) /\ h = [n \in 1..Len(new) |-> h[n]]
        BY DEF h
    <2>2. \A n \in 1..Len(new) : h[n] \in (1..l) \ drop
        BY <1>2, <1>3, <1>4, <1>5, <1>12
    <2>q. QED
        BY <2>1, <2>2
<1>16. ASSUME NEW m \in 1..Len(new), NEW n \in 1..Len(new), m < n PROVE h[m] < h[n]
    <2>0. m \in Int /\ n \in Int /\ Len(a) \in Int
        BY <1>2
    <2>1. CASE n <= Len(a)
        <3>1. m <= Len(a)
            BY <1>16, <2>0, <2>1
        <3>q. QED
            BY <1>7, <1>12, <1>16, <2>1, <3>1
    <2>2. CASE ~(n <= Len(a)) /\ m <= Len(a)
        <3>1. h[m] \in K1 /\ h[n] \in K2
            BY <1>2, <1>3, <1>12, <2>2
        <3>2. h[m] < at /\ h[n] >= at /\ h[m] \in 1..l /\ h[n] \in 1..l
            BY <1>4, <1>5, <3>1
        <3>3. h[m] \in Int /\ h[n] \in Int
            BY <1>1, <3>2
        <3>q. QED
            BY <3>2, <3>3
    <2>3. CASE ~(n <= Len(a)) /\ ~(m <= Len(a))
        <3>1. m - Len(a) < n - Len(a)
            BY <1>16, <2>0
        <3>q. QED
            BY <1>8, <1>12, <2>3, <3>1
    <2>q. QED
        BY <2>1, <2>2, <2>3
<1>17. ASSUME NEW k \in (1..l) \ drop PROVE \E n \in 1..Len(new) : h[n] = k
    BY <1>6, <1>9, <1>10, <1>13, <1>14
<1>18. ASSUME NEW n \in 1..Len(new) PROVE new[n] = lines[h[n]]
    <2>1. CASE n <= Len(a)
        BY <1>2, <1>11, <1>12, <2>1
    <2>2. CASE ~(n <= Len(a))
        <3>1. n - Len(a) \in 1..Len(b) /\ h[n] = Nth(K2, n - Len(a))
            BY <1>12, <2>2
        <3>2. Len(a) + (n - Len(a)) = n
            BY <1>2
        <3>q. QED
            BY <1>3, <1>11, <3>1, <3>2
    <2>q. QED
        BY <2>1, <2>2
<1>19. Counts(h, Len(new), (1..Len(lines)) \ drop) /\ Picks(new, lines, h)
    BY <1>15, <1>16, <1>17, <1>18, Zenon DEF Counts, Picks, l
<1>20. Without(lines, drop) = new
    BY <1>11, <1>19, WithoutBy
<1>q. QED
    BY <1>20 DEF new, a, b

\* What stands in the middle is dropped.
LEMMA WithoutMiddle ==
    ASSUME NEW S, NEW a \in Seq(S), NEW x \in Seq(S), NEW b \in Seq(S), NEW drop,
           \A i \in 1..Len(a \o x \o b) :
               i \in drop <=> Len(a) + 1 <= i /\ i <= Len(a) + Len(x)
    PROVE  Without(a \o x \o b, drop) = a \o b
<1> DEFINE lines == a \o x \o b
           new == a \o b
           h == [n \in 1..Len(new) |-> IF n <= Len(a) THEN n ELSE n + Len(x)]
<1>1. Len(a) \in Nat /\ Len(x) \in Nat /\ Len(b) \in Nat
    OBVIOUS
<1>2. /\ lines \in Seq(S) /\ Len(lines) = Len(a) + Len(x) + Len(b)
      /\ \A n \in 1..Len(a) : lines[n] = a[n]
      /\ \A n \in 1..Len(b) : lines[Len(a) + Len(x) + n] = b[n]
    <2> DEFINE c == a \o x
    <2>1. c \in Seq(S)
        OBVIOUS
    <2>2. Len(c) = Len(a) + Len(x) /\ \A n \in 1..Len(a) : c[n] = a[n]
        BY Concatenated
    <2> HIDE DEF c
    <2>3. /\ c \o b \in Seq(S) /\ Len(c \o b) = Len(c) + Len(b)
          /\ \A n \in 1..Len(c) : (c \o b)[n] = c[n]
          /\ \A n \in 1..Len(b) : (c \o b)[Len(c) + n] = b[n]
        BY <2>1, Concatenated
    <2>4. \A n \in 1..Len(a) : n \in 1..Len(c)
        BY <1>1, <2>2
    <2>5. lines = c \o b
        BY DEF c
    <2> HIDE DEF lines
    <2>q. QED
        BY <2>2, <2>3, <2>4, <2>5
<1>3. /\ new \in Seq(S) /\ Len(new) = Len(a) + Len(b)
      /\ \A n \in 1..Len(a) : new[n] = a[n]
      /\ \A n \in 1..Len(b) : new[Len(a) + n] = b[n]
    OBVIOUS
<1>4. \A i \in 1..Len(lines) : i \in drop <=> Len(a) + 1 <= i /\ i <= Len(a) + Len(x)
    OBVIOUS
<1> HIDE DEF lines, new
<1>5. h \in [1..Len(new) -> (1..Len(lines)) \ drop]
    <2>1. ASSUME NEW n \in 1..Len(new), n <= Len(a) PROVE n \in (1..Len(lines)) \ drop
        BY <1>1, <1>2, <1>3, <1>4, <2>1
    <2>2. ASSUME NEW n \in 1..Len(new), ~(n <= Len(a)) PROVE n + Len(x) \in (1..Len(lines)) \ drop
        BY <1>1, <1>2, <1>3, <1>4, <2>2
    <2>q. QED
        BY <2>1, <2>2
<1>6. \A m \in 1..Len(new), n \in 1..Len(new) : m < n => h[m] < h[n]
    BY <1>1, <1>3
<1>7. ASSUME NEW k \in (1..Len(lines)) \ drop PROVE \E n \in 1..Len(new) : h[n] = k
    <2>1. CASE k <= Len(a)
        BY <1>1, <1>2, <1>3, <2>1
    <2>2. CASE ~(k <= Len(a))
        <3>1. k > Len(a) + Len(x) /\ k \in Int
            BY <1>1, <1>2, <1>4, <2>2
        <3>2. k - Len(x) \in 1..Len(new) /\ ~(k - Len(x) <= Len(a))
            BY <1>1, <1>2, <1>3, <3>1
        <3>3. h[k - Len(x)] = k
            BY <1>1, <3>1, <3>2
        <3>q. QED
            BY <3>2, <3>3
    <2>q. QED
        BY <2>1, <2>2
<1>8. ASSUME NEW n \in 1..Len(new) PROVE new[n] = lines[h[n]]
    <2>1. CASE n <= Len(a)
        <3>1. n \in 1..Len(a) /\ h[n] = n
            BY <1>1, <2>1
        <3>q. QED
            BY <1>2, <1>3, <3>1
    <2>2. CASE ~(n <= Len(a))
        <3>1. n - Len(a) \in 1..Len(b) /\ h[n] = Len(a) + Len(x) + (n - Len(a))
            BY <1>1, <1>3, <2>2
        <3>2. Len(a) + (n - Len(a)) = n
            BY <1>1
        <3>3. new[Len(a) + (n - Len(a))] = lines[Len(a) + Len(x) + (n - Len(a))]
            BY <1>2, <1>3, <3>1
        <3>q. QED
            BY <3>1, <3>2, <3>3
    <2>q. QED
        BY <2>1, <2>2
<1> HIDE DEF h
<1>9. Counts(h, Len(new), (1..Len(lines)) \ drop) /\ Picks(new, lines, h)
    BY <1>5, <1>6, <1>7, <1>8, Zenon DEF Counts, Picks
<1>10. Without(lines, drop) = new
    BY <1>2, <1>3, <1>9, WithoutBy
<1>q. QED
    BY <1>10 DEF lines, new
=============================================================================
