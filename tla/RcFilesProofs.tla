--------------------------- MODULE RcFilesProofs ---------------------------
(***************************************************************************)
(* That fileMu protects the start-up files, that the user's own lines stay *)
(* and that SetMulti calls in parallel lose nothing, for any number of     *)
(* goroutines, files of any length, operations, failures, edits and        *)
(* crashes; and what Set, Unset, a restore and a new file come to when one *)
(* goroutine works.                                                        *)
(*                                                                         *)
(* First what FindBlocks finds and the rewriting of a block leaves, on the *)
(* lines of one file; then what an operation makes of one file; then the   *)
(* types of the operations under way; then one section per property; and   *)
(* last what the functions of managed blocks promise of any file at all,   *)
(* the files of BlockFiles.                                                *)
(* TidyHomes, where a theorem assumes it, says that no file of the user's  *)
(* has a begin marker that a later end marker would close.                 *)
(***************************************************************************)
EXTENDS RcFiles, BlockFiles, LinesProofs

-----------------------------------------------------------------------------
(* What FindBlocks finds.                                                  *)

\* A block: a begin and an end marker with no marker in between.
Block(ls, b, e) ==
    /\ b \in 1..Len(ls) /\ e \in 1..Len(ls) /\ b < e
    /\ ls[b].kind = "begin" /\ ls[e].kind = "end"
    /\ \A k \in 1..Len(ls) : b < k /\ k < e => ~Marker(ls[k])

NoBlock(ls) == \A b, e : ~Block(ls, b, e)

\* The begin marker that is open after i lines.
Open(ls, i, b) ==
    /\ b \in 1..i /\ ls[b].kind = "begin"
    /\ \A k \in 1..i : b < k => ~Marker(ls[k])

Closers(ls)   == {e \in 1..Len(ls) : \E b : Block(ls, b, e)}
Opener(ls, e) == CHOOSE b : Block(ls, b, e)

\* The n-th block, and what the loop knows after i lines.
NthBlock(ls, n) == [start |-> Opener(ls, Nth(Closers(ls), n)), end |-> Nth(Closers(ls), n)]

Known(ls, i) ==
    [start  |-> IF \E b : Open(ls, i, b) THEN CHOOSE b : Open(ls, i, b) ELSE 0,
     blocks |-> [n \in 1..Rank(Closers(ls), i) |-> NthBlock(ls, n)]]

LEMMA OneOpen ==
    ASSUME NEW ls, NEW i \in Nat, NEW b, NEW c, Open(ls, i, b), Open(ls, i, c) PROVE b = c
<1>1. b \in 1..i /\ c \in 1..i /\ Marker(ls[b]) /\ Marker(ls[c])
    BY DEF Open, Marker
<1>2. ~(b < c) /\ ~(c < b)
    BY <1>1 DEF Open
<1>q. QED
    BY <1>1, <1>2

LEMMA OpenIs ==
    ASSUME NEW ls, NEW i \in Nat, NEW b, Open(ls, i, b)
    PROVE  Known(ls, i).start = b /\ b \in 1..i
<1>1. (CHOOSE c : Open(ls, i, c)) = b
    BY OneOpen
<1>q. QED
    BY <1>1 DEF Known, Open

LEMMA OneOpener ==
    ASSUME NEW ls, Len(ls) \in Nat, NEW e, NEW b, NEW c, Block(ls, b, e), Block(ls, c, e)
    PROVE  b = c
<1>1. b \in 1..Len(ls) /\ c \in 1..Len(ls) /\ Marker(ls[b]) /\ Marker(ls[c]) /\ b < e /\ c < e
    BY DEF Block, Marker
<1>2. ~(b < c) /\ ~(c < b)
    BY <1>1 DEF Block
<1>q. QED
    BY <1>1, <1>2

LEMMA OpenerIs ==
    ASSUME NEW ls, Len(ls) \in Nat, NEW e, NEW b, Block(ls, b, e) PROVE Opener(ls, e) = b
BY OneOpener DEF Opener

\* One line more.
LEMMA ScanIs ==
    ASSUME NEW ls \in Seq(Line), NEW i \in 1..Len(ls)
    PROVE  Scan(Known(ls, i - 1), ls[i], i) = Known(ls, i)
<1> DEFINE K == Closers(ls)
<1>1. /\ Len(ls) \in Nat /\ K \in SUBSET (1..Len(ls)) /\ i \in Nat /\ i - 1 \in Nat
      /\ i - 1 \in 0..Len(ls) /\ i \in 0..Len(ls) /\ i \in Int
    BY DEF Closers
<1>2. \A k \in 1..i : k \in 1..(i - 1) \/ k = i
    BY <1>1
<1>3. \A k \in 1..(i - 1) : k \in 1..i /\ k < i /\ ~(i < k) /\ k # i
    BY <1>1
<1>4. Rank(K, i) = Rank(K, i - 1) + (IF i \in K THEN 1 ELSE 0) /\ Rank(K, i - 1) \in Nat
    <2> HIDE DEF K
    <2>1. Rank(K, i) = Rank(K, i - 1) + (IF i \in K THEN 1 ELSE 0)
        BY <1>1, RankStep
    <2>2. Rank(K, i - 1) \in Nat
        BY <1>1, Positions
    <2>q. QED
        BY <2>1, <2>2
\* An end marker closes what is open before it.
<1>5. \A b : Block(ls, b, i) <=> ls[i].kind = "end" /\ Open(ls, i - 1, b)
    <2>1. ASSUME NEW b, Block(ls, b, i) PROVE Open(ls, i - 1, b)
        <3>1. b \in 1..(i - 1)
            BY <1>1, <2>1 DEF Block
        <3>2. \A k \in 1..(i - 1) : k \in 1..Len(ls)
            BY <1>1
        <3>q. QED
            BY <1>3, <2>1, <3>1, <3>2 DEF Block, Open
    <2>2. ASSUME NEW b, ls[i].kind = "end", Open(ls, i - 1, b) PROVE Block(ls, b, i)
        <3>1. b \in 1..Len(ls) /\ b < i
            BY <1>1, <2>2 DEF Open
        <3>2. \A k \in 1..Len(ls) : k < i => k \in 1..(i - 1)
            BY <1>1
        <3>q. QED
            BY <2>2, <3>1, <3>2 DEF Block, Open
    <2>q. QED
        BY <2>1, <2>2 DEF Block
<1>6. i \in K <=> ls[i].kind = "end" /\ \E b : Open(ls, i - 1, b)
    BY <1>5 DEF Closers
<1>7. CASE ls[i].kind = "begin"
    <2>1. Open(ls, i, i)
        <3>1. \A k \in 1..i : ~(i < k)
            BY <1>1
        <3>2. i \in 1..i
            BY <1>1
        <3>q. QED
            BY <1>7, <3>1, <3>2 DEF Open
    <2>2. Known(ls, i).start = i
        BY <1>1, <2>1, OpenIs
    <2>3. Known(ls, i).blocks = Known(ls, i - 1).blocks
        BY <1>4, <1>6, <1>7 DEF Known
    <2>4. Scan(Known(ls, i - 1), ls[i], i) = [Known(ls, i - 1) EXCEPT !.start = i]
        BY <1>7 DEF Scan
    <2>q. QED
        BY <2>2, <2>3, <2>4 DEF Known
<1>8. CASE ls[i].kind = "end"
    <2>1. ~\E b : Open(ls, i, b)
        <3>1. ASSUME NEW b, Open(ls, i, b) PROVE FALSE
            <4>1. b \in 1..i /\ b # i
                BY <1>8, <3>1 DEF Open
            <4>2. b < i /\ i \in 1..i
                BY <1>1, <4>1
            <4>q. QED
                BY <1>8, <3>1, <4>2 DEF Open, Marker
        <3>q. QED
            BY <3>1
    <2>2. Known(ls, i).start = 0
        BY <2>1 DEF Known
    <2>3. CASE \E b : Open(ls, i - 1, b)
        <3>1. PICK b : Open(ls, i - 1, b)
            BY <2>3
        <3>2. Known(ls, i - 1).start = b /\ b \in 1..(i - 1)
            BY <1>1, <3>1, OpenIs
        <3>3. b > 0
            BY <1>1, <3>2
        <3>4. Scan(Known(ls, i - 1), ls[i], i) =
                [start |-> 0, blocks |-> Append(Known(ls, i - 1).blocks, [start |-> b, end |-> i])]
            BY <1>8, <3>2, <3>3 DEF Scan
        <3>5. Opener(ls, i) = b /\ i \in K
            BY <1>1, <1>5, <1>8, <3>1, OpenerIs DEF Closers
        <3>6. Rank(K, i) = Rank(K, i - 1) + 1 /\ Nth(K, Rank(K, i)) = i
            BY <1>1, <1>4, <3>5, NthIs
        <3> DEFINE r == Rank(K, i - 1)
        <3>7. NthBlock(ls, r + 1) = [start |-> b, end |-> i]
            BY <3>5, <3>6 DEF NthBlock
        <3>8. r \in Nat /\ Rank(K, i) = r + 1
            BY <1>4, <3>6
        <3>9. Append([n \in 1..r |-> NthBlock(ls, n)], NthBlock(ls, r + 1))
              = [n \in 1..(r + 1) |-> NthBlock(ls, n)]
            <4> HIDE DEF r
            <4>q. QED
                BY <3>8
        <3> HIDE DEF r
        <3>10. /\ Known(ls, i - 1).blocks = [n \in 1..r |-> NthBlock(ls, n)]
               /\ Known(ls, i).blocks = [n \in 1..(r + 1) |-> NthBlock(ls, n)]
            BY <3>8 DEF Known, r
        <3>q. QED
            BY <2>2, <3>4, <3>7, <3>9, <3>10 DEF Known
    <2>4. CASE ~\E b : Open(ls, i - 1, b)
        <3>1. Known(ls, i - 1).start = 0
            BY <2>4 DEF Known
        <3>2. Scan(Known(ls, i - 1), ls[i], i) = Known(ls, i - 1)
            BY <1>8, <3>1 DEF Scan
        <3>3. Known(ls, i).blocks = Known(ls, i - 1).blocks
            BY <1>4, <1>6, <2>4 DEF Known
        <3>q. QED
            BY <2>2, <3>1, <3>2, <3>3 DEF Known
    <2>q. QED
        BY <2>3, <2>4
<1>9. CASE ~Marker(ls[i])
    <2>0. \A k \in 1..i : ls[k].kind = "begin" => k \in 1..(i - 1)
        BY <1>2, <1>9 DEF Marker
    <2>1. ASSUME NEW b PROVE Open(ls, i, b) <=> Open(ls, i - 1, b)
        <3>1. Open(ls, i, b) => Open(ls, i - 1, b)
            BY <1>3, <2>0 DEF Open
        <3>2. Open(ls, i - 1, b) => Open(ls, i, b)
            BY <1>2, <1>3, <1>9 DEF Open
        <3>q. QED
            BY <3>1, <3>2
    <2>2. Known(ls, i).start = Known(ls, i - 1).start
        <3>1. CASE \E b : Open(ls, i, b)
            BY <1>1, <2>1, <3>1, OpenIs
        <3>2. CASE ~\E b : Open(ls, i, b)
            BY <2>1, <3>2 DEF Known
        <3>q. QED
            BY <3>1, <3>2
    <2>3. Known(ls, i).blocks = Known(ls, i - 1).blocks
        BY <1>4, <1>6, <1>9 DEF Known, Marker
    <2>4. Scan(Known(ls, i - 1), ls[i], i) = Known(ls, i - 1)
        BY <1>9 DEF Scan, Marker
    <2>q. QED
        BY <2>2, <2>3, <2>4 DEF Known
<1>q. QED
    BY <1>7, <1>8, <1>9 DEF Marker

LEMMA FindBlocksIs ==
    ASSUME NEW ls \in Seq(Line)
    PROVE  FindBlocks(ls) = [n \in 1..Cardinality(Closers(ls)) |-> NthBlock(ls, n)]
<1> DEFINE L == Len(ls)
           Scanned[i \in 0..L] ==
             IF i = 0 THEN [start |-> 0, blocks |-> <<>>] ELSE Scan(Scanned[i - 1], ls[i], i)
           G == [i \in 0..L |-> Known(ls, i)]
<1>1. L \in Nat /\ Closers(ls) \in SUBSET (1..L)
    BY DEF Closers
<1>2. Known(ls, 0) = [start |-> 0, blocks |-> <<>>]
    <2>1. \A b : ~Open(ls, 0, b)
        BY DEF Open
    <2>2. Rank(Closers(ls), 0) = 0
        BY <1>1, Positions
    <2>3. [n \in 1..0 |-> NthBlock(ls, n)] = <<>>
        OBVIOUS
    <2>q. QED
        BY <2>1, <2>2, <2>3 DEF Known
<1>3. G = [i \in 0..L |-> IF i = 0 THEN [start |-> 0, blocks |-> <<>>] ELSE Scan(G[i - 1], ls[i], i)]
    <2>1. ASSUME NEW i \in 0..L
          PROVE  G[i] = IF i = 0 THEN [start |-> 0, blocks |-> <<>>] ELSE Scan(G[i - 1], ls[i], i)
        <3>1. CASE i = 0
            BY <1>2, <3>1
        <3>2. CASE i # 0
            <4>1. i \in 1..L /\ i - 1 \in 0..L
                BY <1>1, <3>2
            <4>2. Scan(Known(ls, i - 1), ls[i], i) = Known(ls, i)
                BY <4>1, ScanIs
            <4>q. QED
                BY <3>2, <4>1, <4>2
        <3>q. QED
            BY <3>1, <3>2
    <2>2. G = [i \in 0..L |-> G[i]]
        OBVIOUS
    <2> HIDE DEF G
    <2>q. QED
        BY <2>1, <2>2
<1> HIDE DEF G
<1>4. Scanned = [i \in 0..L |-> IF i = 0 THEN [start |-> 0, blocks |-> <<>>]
                                ELSE Scan(Scanned[i - 1], ls[i], i)]
    BY <1>3
<1> HIDE DEF Scanned
<1> DEFINE T == {i \in 0..L : Scanned[i] # G[i]}
<1>5. T = {}
    <2> SUFFICES ASSUME T # {} PROVE FALSE
        OBVIOUS
    <2>1. T \in SUBSET Nat
        BY <1>1
    <2>2. PICK x \in T : \A y \in T : x <= y
        BY <2>1, Least
    <2>3. x \in 0..L /\ Scanned[x] # G[x]
        BY <2>2
    <2>4. x # 0
        BY <1>1, <1>3, <1>4, <2>3
    <2>5. x - 1 \in 0..L /\ ~(x <= x - 1)
        BY <1>1, <2>3, <2>4
    <2>6. Scanned[x - 1] = G[x - 1]
        BY <2>2, <2>5
    <2>7. Scanned[x] = Scan(Scanned[x - 1], ls[x], x) /\ G[x] = Scan(G[x - 1], ls[x], x)
        BY <1>3, <1>4, <2>3, <2>4
    <2>q. QED
        BY <2>3, <2>6, <2>7
<1>6. Scanned[L] = Known(ls, L)
    <2>1. L \in 0..L
        BY <1>1
    <2>2. Scanned[L] = G[L]
        BY <1>5, <2>1
    <2>q. QED
        BY <2>1, <2>2 DEF G
<1>7. FindBlocks(ls) = Scanned[L].blocks
    BY DEF FindBlocks, Scanned
<1>8. Rank(Closers(ls), L) = Cardinality(Closers(ls))
    BY <1>1, Positions
<1>q. QED
    BY <1>6, <1>7, <1>8 DEF Known

-----------------------------------------------------------------------------
(* Which lines are ours, and what is inside the first block.               *)

LEMMA IsSequence ==
    ASSUME NEW S, NEW n \in Nat, NEW f \in [1..n -> S] PROVE f \in Seq(S) /\ Len(f) = n
OBVIOUS

LEMMA BlocksFound ==
    ASSUME NEW ls \in Seq(Line)
    PROVE  /\ FindBlocks(ls) \in Seq([start : 1..Len(ls), end : 1..Len(ls)])
           /\ \A n \in 1..Len(FindBlocks(ls)) : Block(ls, FindBlocks(ls)[n].start, FindBlocks(ls)[n].end)
           /\ \A b, e : Block(ls, b, e) =>
                \E n \in 1..Len(FindBlocks(ls)) : FindBlocks(ls)[n] = [start |-> b, end |-> e]
           /\ \A n, m \in 1..Len(FindBlocks(ls)) : n < m => FindBlocks(ls)[n].end < FindBlocks(ls)[m].end
<1> DEFINE K == Closers(ls)
           c == Cardinality(K)
           F == FindBlocks(ls)
<1>1. Len(ls) \in Nat /\ K \in SUBSET (1..Len(ls))
    BY DEF Closers
<1>2. F = [n \in 1..c |-> NthBlock(ls, n)]
    BY FindBlocksIs
<1>3. c \in Nat /\ \A n \in 1..c : Nth(K, n) \in K
    BY <1>1, Positions, NthIs
<1>4. ASSUME NEW n \in 1..c
      PROVE  /\ F[n] = [start |-> Opener(ls, Nth(K, n)), end |-> Nth(K, n)]
             /\ Block(ls, F[n].start, F[n].end)
    <2>1. PICK b : Block(ls, b, Nth(K, n))
        BY <1>3 DEF Closers
    <2>2. Opener(ls, Nth(K, n)) = b
        BY <1>1, <2>1, OpenerIs
    <2>q. QED
        BY <1>2, <2>1, <2>2 DEF NthBlock
<1>5. ASSUME NEW b, NEW e, Block(ls, b, e)
      PROVE  \E n \in 1..c : F[n] = [start |-> b, end |-> e]
    <2>1. e \in K
        BY <1>5 DEF Closers, Block
    <2>2. Rank(K, e) \in 1..c /\ Nth(K, Rank(K, e)) = e
        BY <1>1, <2>1, NthIs
    <2>3. Opener(ls, e) = b
        BY <1>1, <1>5, OpenerIs
    <2>q. QED
        BY <1>4, <2>2, <2>3
<1>6. \A n, m \in 1..c : n < m => Nth(K, n) < Nth(K, m)
    BY <1>1, NthGrows
<1> HIDE DEF K, c, F
<1>7. ASSUME NEW n \in 1..c PROVE F[n] \in [start : 1..Len(ls), end : 1..Len(ls)]
    <2>1. F[n].start \in 1..Len(ls) /\ F[n].end \in 1..Len(ls)
        BY <1>4 DEF Block
    <2>2. PICK x, y : F[n] = [start |-> x, end |-> y]
        BY <1>4
    <2>q. QED
        BY <2>1, <2>2
<1>8. DOMAIN F = 1..c
    BY <1>2
<1>9. F \in Seq([start : 1..Len(ls), end : 1..Len(ls)]) /\ Len(F) = c
    <2>1. F \in [1..c -> [start : 1..Len(ls), end : 1..Len(ls)]]
        BY <1>2, <1>7
    <2>q. QED
        BY <1>3, <2>1, IsSequence
<1>10. \A n, m \in 1..c : n < m => F[n].end < F[m].end
    <2>1. ASSUME NEW n \in 1..c PROVE F[n].end = Nth(K, n)
        <3>1. F[n] = [start |-> Opener(ls, Nth(K, n)), end |-> Nth(K, n)]
            BY <1>4
        <3>q. QED
            BY <3>1
    <2>q. QED
        BY <1>6, <2>1
<1>q. QED
    BY <1>4, <1>5, <1>9, <1>10 DEF F

LEMMA OursIs ==
    ASSUME NEW ls \in Seq(Line)
    PROVE  \A i : i \in Ours(ls) <=> \E b, e : Block(ls, b, e) /\ i \in b..e
<1>1. Ours(ls) = UNION {b.start..b.end : b \in ToSet(FindBlocks(ls))}
    BY DEF Ours
<1> DEFINE F == FindBlocks(ls)
<1>2. ToSet(F) = {F[n] : n \in 1..Len(F)}
    <2>1. F \in Seq([start : 1..Len(ls), end : 1..Len(ls)])
        BY BlocksFound
    <2> HIDE DEF F
    <2>q. QED
        BY <2>1 DEF ToSet
<1> HIDE DEF F
<1>3. /\ \A n \in 1..Len(F) : Block(ls, F[n].start, F[n].end)
      /\ \A b, e : Block(ls, b, e) => \E n \in 1..Len(F) : F[n] = [start |-> b, end |-> e]
    BY BlocksFound DEF F
<1>4. \A i : i \in Ours(ls) <=> \E n \in 1..Len(F) : i \in F[n].start..F[n].end
    BY <1>1, <1>2 DEF F
<1>5. ASSUME NEW i, i \in Ours(ls) PROVE \E b, e : Block(ls, b, e) /\ i \in b..e
    <2>1. PICK n \in 1..Len(F) : i \in F[n].start..F[n].end
        BY <1>4, <1>5
    <2>q. QED
        BY <1>3, <2>1
<1>6. ASSUME NEW i, NEW b, NEW e, Block(ls, b, e), i \in b..e PROVE i \in Ours(ls)
    <2>1. PICK n \in 1..Len(F) : F[n] = [start |-> b, end |-> e]
        BY <1>3, <1>6
    <2>2. i \in F[n].start..F[n].end
        BY <1>6, <2>1
    <2>q. QED
        BY <1>4, <2>2
<1>q. QED
    BY <1>5, <1>6

\* The first block begins before all others.
LEMMA FirstBlock ==
    ASSUME NEW ls \in Seq(Line), FindBlocks(ls) # <<>>
    PROVE  /\ Block(ls, FindBlocks(ls)[1].start, FindBlocks(ls)[1].end)
           /\ \A b, e : Block(ls, b, e) => FindBlocks(ls)[1].start <= b
<1> DEFINE F == FindBlocks(ls)
<1>1. /\ F \in Seq([start : 1..Len(ls), end : 1..Len(ls)])
      /\ \A n \in 1..Len(F) : Block(ls, F[n].start, F[n].end)
      /\ \A b, e : Block(ls, b, e) => \E n \in 1..Len(F) : F[n] = [start |-> b, end |-> e]
      /\ \A n, m \in 1..Len(F) : n < m => F[n].end < F[m].end
    BY BlocksFound
<1>2. F # <<>> /\ Len(ls) \in Nat
    OBVIOUS
<1> HIDE DEF F
<1>3. 1 \in 1..Len(F)
    BY <1>1, <1>2
<1>4. ASSUME NEW b, NEW e, Block(ls, b, e) PROVE F[1].start <= b
    <2>1. PICK n \in 1..Len(F) : F[n] = [start |-> b, end |-> e]
        BY <1>1, <1>4
    <2>2. n = 1 \/ 1 < n
        BY <1>1
    <2>3. /\ F[1].start \in 1..Len(ls) /\ F[1].end \in 1..Len(ls) /\ b \in 1..Len(ls) /\ e \in 1..Len(ls)
          /\ Marker(ls[b]) /\ Marker(ls[F[1].start]) /\ Marker(ls[F[1].end])
          /\ ls[b].kind # ls[F[1].end].kind
          /\ F[1].start < F[1].end /\ b < e
        BY <1>1, <1>3, <1>4 DEF Block, Marker
    <2>4. F[1].end <= e
        <3>1. F[n].end = e
            BY <2>1
        <3>2. 1 < n => F[1].end < F[n].end
            BY <1>1, <1>3
        <3>q. QED
            BY <2>2, <2>3, <3>1, <3>2
    <2>5. ~(F[1].start > b)
        <3>1. SUFFICES ASSUME F[1].start > b PROVE FALSE
            OBVIOUS
        <3>2. b < F[1].start /\ F[1].start < e
            BY <1>2, <2>3, <2>4, <3>1
        <3>q. QED
            BY <1>4, <2>3, <3>2 DEF Block
    <2>q. QED
        BY <1>2, <2>3, <2>5
<1>q. QED
    BY <1>1, <1>3, <1>4 DEF F

LEMMA NothingFound ==
    ASSUME NEW ls \in Seq(Line)
    PROVE  FindBlocks(ls) = <<>> <=> NoBlock(ls)
<1> DEFINE F == FindBlocks(ls)
<1>1. /\ F \in Seq([start : 1..Len(ls), end : 1..Len(ls)])
      /\ \A n \in 1..Len(F) : Block(ls, F[n].start, F[n].end)
      /\ \A b, e : Block(ls, b, e) => \E n \in 1..Len(F) : F[n] = [start |-> b, end |-> e]
    BY BlocksFound
<1> HIDE DEF F
<1>2. F = <<>> \/ 1 \in 1..Len(F)
    BY <1>1
<1>3. F = <<>> => \A n \in 1..Len(F) : FALSE
    OBVIOUS
<1>q. QED
    BY <1>1, <1>2, <1>3 DEF NoBlock, F

\* The only block.
LEMMA OneBlock ==
    ASSUME NEW ls \in Seq(Line), NEW s, NEW t, Block(ls, s, t),
           \A b, e : Block(ls, b, e) => b = s /\ e = t
    PROVE  FindBlocks(ls) = <<[start |-> s, end |-> t]>>
<1> DEFINE F == FindBlocks(ls)
<1>1. /\ F \in Seq([start : 1..Len(ls), end : 1..Len(ls)])
      /\ \A n \in 1..Len(F) : Block(ls, F[n].start, F[n].end)
      /\ \A b, e : Block(ls, b, e) => \E n \in 1..Len(F) : F[n] = [start |-> b, end |-> e]
      /\ \A n, m \in 1..Len(F) : n < m => F[n].end < F[m].end
    BY BlocksFound
<1> HIDE DEF F
<1>2. \A n \in 1..Len(F) : F[n].end = t /\ t \in Int
    <2>1. t \in 1..Len(ls) /\ Len(ls) \in Nat
        BY DEF Block
    <2>2. \A n \in 1..Len(F) : Block(ls, F[n].start, F[n].end)
        BY <1>1
    <2>q. QED
        BY <2>1, <2>2
<1>3. PICK n \in 1..Len(F) : F[n] = [start |-> s, end |-> t]
    BY <1>1
<1>4. \A m \in 1..Len(F) : m = n
    <2>1. \A m \in 1..Len(F) : ~(m < n) /\ ~(n < m)
        BY <1>1, <1>2
    <2>2. \A m \in 1..Len(F) : m \in Int
        OBVIOUS
    <2>q. QED
        BY <2>1, <2>2
<1>5. Len(F) = 1 /\ n = 1
    <2>1. Len(F) \in Nat
        BY <1>1
    <2>2. 1 \in 1..Len(F) /\ Len(F) \in 1..Len(F)
        BY <2>1
    <2>q. QED
        BY <1>4, <2>2
<1>6. F = <<[start |-> s, end |-> t]>>
    BY <1>1, <1>3, <1>5
<1>q. QED
    BY <1>6 DEF F

-----------------------------------------------------------------------------
(* What UpdateBlock makes of a file.                                       *)

OwnOf(ls) == Outside(ls, 1, Len(ls))

\* Nothing, or one block.
Whole(x) ==
    x # <<>> => /\ 1 < Len(x) /\ x[1].kind = "begin" /\ x[Len(x)].kind = "end"
                /\ \A k \in 1..Len(x) : 1 < k /\ k < Len(x) => ~Marker(x[k])

\* Three parts of a file.
LEMMA ThreeParts ==
    ASSUME NEW S, NEW a \in Seq(S), NEW x \in Seq(S), NEW b \in Seq(S)
    PROVE  /\ a \o x \o b \in Seq(S) /\ Len(a \o x \o b) = Len(a) + Len(x) + Len(b)
           /\ a \o b \in Seq(S) /\ Len(a \o b) = Len(a) + Len(b)
           /\ \A n \in 1..Len(a) : (a \o x \o b)[n] = (a \o b)[n]
           /\ \A n \in 1..Len(x) : (a \o x \o b)[Len(a) + n] = x[n]
           /\ \A n \in 1..Len(b) : (a \o x \o b)[Len(a) + Len(x) + n] = (a \o b)[Len(a) + n]
<1> DEFINE c == a \o x
<1>1. c \in Seq(S)
    OBVIOUS
<1>2. /\ Len(c) = Len(a) + Len(x) /\ Len(a) \in Nat /\ Len(x) \in Nat /\ Len(b) \in Nat
      /\ \A n \in 1..Len(a) : c[n] = a[n]
      /\ \A n \in 1..Len(x) : c[Len(a) + n] = x[n]
    BY Concatenated
<1> HIDE DEF c
<1>3. /\ c \o b \in Seq(S) /\ Len(c \o b) = Len(c) + Len(b)
      /\ \A n \in 1..Len(c) : (c \o b)[n] = c[n]
      /\ \A n \in 1..Len(b) : (c \o b)[Len(c) + n] = b[n]
    BY <1>1, Concatenated
<1>4. /\ a \o b \in Seq(S) /\ Len(a \o b) = Len(a) + Len(b)
      /\ \A n \in 1..Len(a) : (a \o b)[n] = a[n]
      /\ \A n \in 1..Len(b) : (a \o b)[Len(a) + n] = b[n]
    BY Concatenated
<1>5. \A n \in 1..Len(a) : n \in 1..Len(c)
    BY <1>2
<1>6. \A n \in 1..Len(x) : Len(a) + n \in 1..Len(c)
    BY <1>2
<1> DEFINE d == c \o b
           e == a \o b
<1>7. /\ d \in Seq(S) /\ Len(d) = Len(a) + Len(x) + Len(b)
      /\ \A n \in 1..Len(c) : d[n] = c[n]
      /\ \A n \in 1..Len(b) : d[Len(a) + Len(x) + n] = b[n]
    BY <1>2, <1>3
<1>8. /\ e \in Seq(S) /\ Len(e) = Len(a) + Len(b)
      /\ \A n \in 1..Len(a) : e[n] = a[n]
      /\ \A n \in 1..Len(b) : e[Len(a) + n] = b[n]
    BY <1>4
<1> HIDE DEF d, e
<1>9. /\ \A n \in 1..Len(a) : d[n] = e[n]
      /\ \A n \in 1..Len(x) : d[Len(a) + n] = x[n]
      /\ \A n \in 1..Len(b) : d[Len(a) + Len(x) + n] = e[Len(a) + n]
    BY <1>2, <1>5, <1>6, <1>7, <1>8
<1>q. QED
    BY <1>7, <1>8, <1>9 DEF c, d, e

\* A block between lines without one is the only one.
LEMMA Inserted ==
    ASSUME NEW a \in Seq(Line), NEW x \in Seq(Line), NEW b \in Seq(Line),
           NoBlock(a \o b), Whole(x), NEW s, NEW e
    PROVE  Block(a \o x \o b, s, e) <=> x # <<>> /\ s = Len(a) + 1 /\ e = Len(a) + Len(x)
<1> DEFINE d == a \o x \o b
           y == a \o b
<1>1. /\ Len(a) \in Nat /\ Len(x) \in Nat /\ Len(b) \in Nat
      /\ Len(d) = Len(a) + Len(x) + Len(b) /\ Len(y) = Len(a) + Len(b)
      /\ \A n \in 1..Len(a) : d[n] = y[n]
      /\ \A n \in 1..Len(x) : d[Len(a) + n] = x[n]
      /\ \A n \in 1..Len(b) : d[Len(a) + Len(x) + n] = y[Len(a) + n]
    BY ThreeParts
<1>2. NoBlock(y)
    OBVIOUS
<1> HIDE DEF d, y
<1>3. CASE x = <<>>
    <2>1. Len(x) = 0 /\ Len(d) = Len(y)
        BY <1>1, <1>3
    <2>2. \A n \in 1..Len(d) : d[n] = y[n]
        <3>1. ASSUME NEW n \in 1..Len(d), ~(n <= Len(a)) PROVE d[n] = y[n]
            <4>1. n - Len(a) \in 1..Len(b) /\ Len(a) + (n - Len(a)) = n /\ Len(a) + Len(x) + (n - Len(a)) = n
                BY <1>1, <2>1, <3>1
            <4>q. QED
                BY <1>1, <4>1
        <3>2. ASSUME NEW n \in 1..Len(d), n <= Len(a) PROVE d[n] = y[n]
            BY <1>1, <3>2
        <3>q. QED
            BY <3>1, <3>2
    <2>3. Block(d, s, e) => Block(y, s, e)
        BY <2>1, <2>2 DEF Block
    <2>q. QED
        BY <1>2, <1>3, <2>3 DEF NoBlock, d
<1>4. CASE x # <<>>
    <2> DEFINE p == Len(a) + 1
               q == Len(a) + Len(x)
    <2>1. 1 < Len(x) /\ 1 \in 1..Len(x) /\ Len(x) \in 1..Len(x)
        BY <1>1, <1>4 DEF Whole
    <2>2. p \in 1..Len(d) /\ q \in 1..Len(d) /\ p < q /\ d[p].kind = "begin" /\ d[q].kind = "end"
        BY <1>1, <1>4, <2>1 DEF Whole
    <2>3. ASSUME NEW k \in 1..Len(d), p < k, k < q PROVE ~Marker(d[k])
        <3>1. k - Len(a) \in 1..Len(x) /\ 1 < k - Len(a) /\ k - Len(a) < Len(x) /\ Len(a) + (k - Len(a)) = k
            BY <1>1, <2>3
        <3>q. QED
            BY <1>1, <1>4, <3>1 DEF Whole
    <2>4. Block(d, p, q)
        BY <2>2, <2>3 DEF Block
    <2>5. \A k \in 1..Len(d) : k <= Len(a) => k \in 1..Len(y) /\ d[k] = y[k]
        BY <1>1
    <2>6. ASSUME NEW k \in 1..Len(d), k > q PROVE k - Len(x) \in 1..Len(y) /\ d[k] = y[k - Len(x)]
        <3>1. k - q \in 1..Len(b) /\ Len(a) + Len(x) + (k - q) = k /\ Len(a) + (k - q) = k - Len(x)
            BY <1>1, <2>6
        <3>2. d[Len(a) + Len(x) + (k - q)] = y[Len(a) + (k - q)]
            BY <1>1, <3>1
        <3>q. QED
            BY <1>1, <3>1, <3>2
    <2>7. p \in Int /\ q \in Int /\ p = Len(a) + 1 /\ q = Len(a) + Len(x) /\ \A k \in 1..Len(d) : k \in Int
        BY <1>1
    <2> HIDE DEF p, q
    <2>8. ASSUME Block(d, s, e) PROVE s = p /\ e = q
        <3>1. /\ s \in 1..Len(d) /\ e \in 1..Len(d) /\ s < e /\ d[s].kind = "begin" /\ d[e].kind = "end"
              /\ \A k \in 1..Len(d) : s < k /\ k < e => ~Marker(d[k])
            BY <2>8 DEF Block
        <3>2. Marker(d[p]) /\ Marker(d[q]) /\ Marker(d[s]) /\ Marker(d[e])
            BY <2>2, <3>1 DEF Marker
        <3>3. s # q /\ e # p
            BY <2>2, <3>1
        <3>4. ~(s < p /\ p < e) /\ ~(s < q /\ q < e)
            BY <2>2, <3>1, <3>2
        <3>5. ~(p < s /\ s < q) /\ ~(p < e /\ e < q)
            BY <2>3, <3>1, <3>2
        <3>6. s \in Int /\ e \in Int
            BY <2>7, <3>1
        <3>7. \/ s = p /\ e = q
              \/ e < p
              \/ s > q
            BY <2>2, <2>7, <3>1, <3>3, <3>4, <3>5, <3>6
        <3>8. CASE e < p
            <4>1. \A k \in 1..Len(y) : s < k /\ k < e => k \in 1..Len(d) /\ k <= Len(a)
                BY <1>1, <2>7, <3>6, <3>8
            <4>2. s <= Len(a) /\ e <= Len(a)
                BY <1>1, <2>7, <3>1, <3>6, <3>8
            <4>3. Block(y, s, e)
                BY <2>5, <3>1, <4>1, <4>2 DEF Block
            <4>q. QED
                BY <1>2, <4>3 DEF NoBlock
        <3>9. CASE s > q
            <4> DEFINE t == s - Len(x)
                       f == e - Len(x)
            <4>1. e > q
                BY <2>7, <3>1, <3>6, <3>9
            <4>2. t \in 1..Len(y) /\ d[s] = y[t] /\ f \in 1..Len(y) /\ d[e] = y[f] /\ t < f
                BY <1>1, <2>6, <3>1, <3>6, <3>9, <4>1
            <4>3. ASSUME NEW k \in 1..Len(y), t < k, k < f PROVE ~Marker(y[k])
                <5>1. k + Len(x) \in 1..Len(d) /\ s < k + Len(x) /\ k + Len(x) < e /\ k + Len(x) > q
                    BY <1>1, <2>7, <3>1, <3>6, <3>9, <4>3
                <5>2. (k + Len(x)) - Len(x) = k
                    BY <1>1
                <5>3. d[k + Len(x)] = y[(k + Len(x)) - Len(x)]
                    BY <2>6, <5>1
                <5>q. QED
                    BY <3>1, <5>1, <5>2, <5>3
            <4>4. Block(y, t, f)
                BY <3>1, <4>2, <4>3 DEF Block
            <4>q. QED
                BY <1>2, <4>4 DEF NoBlock
        <3>q. QED
            BY <3>7, <3>8, <3>9
    <2>q. QED
        BY <1>4, <2>4, <2>7, <2>8 DEF d
<1>q. QED
    BY <1>3, <1>4

\* Without a block everything is the user's.
LEMMA AllOwn ==
    ASSUME NEW ls \in Seq(Line), NoBlock(ls) PROVE OwnOf(ls) = ls
<1>1. \A i : i \notin Ours(ls)
    BY OursIs DEF NoBlock
<1>2. \A i \in 1..Len(ls) : i \notin Ours(ls) \cup (DOMAIN ls \ (1..Len(ls)))
    BY <1>1
<1>q. QED
    BY <1>2, WithoutNothing DEF OwnOf, Outside

LEMMA InsertedOwn ==
    ASSUME NEW a \in Seq(Line), NEW x \in Seq(Line), NEW b \in Seq(Line),
           NoBlock(a \o b), Whole(x)
    PROVE  OwnOf(a \o x \o b) = a \o b
<1> DEFINE d == a \o x \o b
           drop == Ours(d) \cup (DOMAIN d \ (1..Len(d)))
<1>1. /\ d \in Seq(Line) /\ Len(a) \in Nat /\ Len(x) \in Nat /\ Len(b) \in Nat
      /\ Len(d) = Len(a) + Len(x) + Len(b)
    BY ThreeParts
<1>2. \A s, e : Block(d, s, e) <=> x # <<>> /\ s = Len(a) + 1 /\ e = Len(a) + Len(x)
    BY Inserted
<1> HIDE DEF d
<1>3. \A i : i \in Ours(d) <=> x # <<>> /\ i \in (Len(a) + 1)..(Len(a) + Len(x))
    BY <1>1, <1>2, OursIs
<1>4. x = <<>> => Len(x) = 0
    OBVIOUS
<1>5. \A i \in 1..Len(d) : i \in drop <=> Len(a) + 1 <= i /\ i <= Len(a) + Len(x)
    BY <1>1, <1>3, <1>4
<1>6. OwnOf(d) = Without(d, drop)
    BY DEF OwnOf, Outside
<1>7. Without(a \o x \o b, drop) = a \o b
    <2> HIDE DEF drop
    <2>q. QED
        BY <1>5, WithoutMiddle DEF d
<1>q. QED
    BY <1>6, <1>7 DEF d

\* The block that is written, with the line ends of the file.
Framed(body, cr) ==
    LET all == <<Plain("begin")>> \o body \o <<Plain("end")>>
    IN  [i \in DOMAIN all |-> WithCR(all[i], cr)]

LEMMA LineIs ==
    ASSUME NEW l \in Line, NEW cr \in BOOLEAN
    PROVE  /\ WithCR(l, cr) \in Line /\ WithCR(l, cr).kind = l.kind
           /\ NoCR(l) \in Line /\ NoCR(l).kind = l.kind /\ NoCR(l).cr = FALSE
           /\ ~l.cr => NoCR(WithCR(l, cr)) = l /\ NoCR(l) = l
<1>1. PICK k, v, w, r : l = [kind |-> k, var |-> v, val |-> w, cr |-> r]
    BY DEF Line
<1>q. QED
    BY <1>1 DEF Line, WithCR, NoCR

LEMMA FramedIs ==
    ASSUME NEW body \in Seq(Inner), body # <<>>, NEW cr \in BOOLEAN
    PROVE  /\ Framed(body, cr) \in Seq(Line) /\ Len(Framed(body, cr)) = Len(body) + 2
           /\ Whole(Framed(body, cr))
           /\ \A n \in 1..Len(body) : NoCR(Framed(body, cr)[n + 1]) = body[n]
<1> DEFINE x == <<Plain("begin")>>
           y == <<Plain("end")>>
           all == x \o body \o y
           f == Framed(body, cr)
<1>1. /\ Plain("begin") \in Line /\ Plain("end") \in Line
      /\ Plain("begin").kind = "begin" /\ Plain("end").kind = "end"
    BY DEF Plain, Line, Vars
<1>2. body \in Seq(Line) /\ Len(body) \in Nat /\ Len(body) > 0
    <2>1. /\ body \in [1..Len(body) -> Inner] /\ Len(body) \in Nat /\ Len(body) > 0
        OBVIOUS
    <2>2. body \in [1..Len(body) -> Line]
        BY <2>1 DEF Inner
    <2>q. QED
        BY <2>1, <2>2, IsSequence
<1>3. /\ x \in Seq(Line) /\ Len(x) = 1 /\ x[1] = Plain("begin")
      /\ y \in Seq(Line) /\ Len(y) = 1 /\ y[1] = Plain("end")
    BY <1>1
<1> HIDE DEF x, y
<1>4. /\ all \in Seq(Line) /\ Len(all) = Len(body) + 2
      /\ all[1] = Plain("begin") /\ all[Len(body) + 2] = Plain("end")
      /\ \A n \in 1..Len(body) : all[n + 1] = body[n]
    <2> DEFINE z == x \o body
    <2>1. /\ z \in Seq(Line) /\ Len(z) = Len(body) + 1 /\ z[1] = Plain("begin")
          /\ \A n \in 1..Len(body) : z[1 + n] = body[n]
        <3>1. /\ z \in Seq(Line) /\ Len(z) = Len(x) + Len(body)
              /\ \A n \in 1..Len(x) : z[n] = x[n]
              /\ \A n \in 1..Len(body) : z[Len(x) + n] = body[n]
            BY <1>2, <1>3, Concatenated
        <3>2. 1 \in 1..Len(x)
            BY <1>3
        <3> HIDE DEF z
        <3>q. QED
            BY <1>2, <1>3, <3>1, <3>2
    <2> HIDE DEF z
    <2>2. /\ z \o y \in Seq(Line) /\ Len(z \o y) = Len(z) + Len(y)
          /\ \A n \in 1..Len(z) : (z \o y)[n] = z[n]
          /\ \A n \in 1..Len(y) : (z \o y)[Len(z) + n] = y[n]
        <3>1. z \in Seq(Line) /\ y \in Seq(Line)
            BY <1>3, <2>1
        <3>q. QED
            BY <3>1, Concatenated
    <2>3. /\ 1 \in 1..Len(z) /\ 1 \in 1..Len(y) /\ Len(body) + 2 = Len(z) + 1
          /\ \A n \in 1..Len(body) : n + 1 \in 1..Len(z) /\ n + 1 = 1 + n
        BY <1>2, <1>3, <2>1
    <2> DEFINE v == z \o y
    <2>4. v = all
        BY DEF z
    <2> HIDE DEF v, all
    <2>5. /\ v \in Seq(Line) /\ Len(v) = Len(body) + 2 /\ v[1] = z[1] /\ v[Len(z) + 1] = y[1]
          /\ \A n \in 1..Len(body) : v[n + 1] = z[n + 1]
        BY <1>2, <1>3, <2>1, <2>2, <2>3 DEF v
    <2>q. QED
        BY <1>3, <2>1, <2>3, <2>4, <2>5
<1>5. f = [i \in 1..(Len(body) + 2) |-> WithCR(all[i], cr)]
    <2>1. DOMAIN all = 1..(Len(body) + 2)
        BY <1>4
    <2>q. QED
        BY <2>1 DEF Framed, x, y
<1> HIDE DEF all, f
<1>6. \A i \in 1..(Len(body) + 2) : all[i] \in Line
    BY <1>4
<1>7. f \in Seq(Line) /\ Len(f) = Len(body) + 2
    <2>1. f \in [1..(Len(body) + 2) -> Line]
        BY <1>5, <1>6, LineIs
    <2>q. QED
        BY <1>2, <2>1, IsSequence
<1>8. f[1].kind = "begin" /\ f[Len(body) + 2].kind = "end"
    <2>1. 1 \in 1..(Len(body) + 2) /\ Len(body) + 2 \in 1..(Len(body) + 2)
        BY <1>2
    <2>2. f[1] = WithCR(Plain("begin"), cr) /\ f[Len(body) + 2] = WithCR(Plain("end"), cr)
        BY <1>4, <1>5, <2>1
    <2>3. WithCR(Plain("begin"), cr).kind = "begin" /\ WithCR(Plain("end"), cr).kind = "end"
        BY DEF WithCR, Plain
    <2>q. QED
        BY <2>2, <2>3
<1>9. ASSUME NEW n \in 1..Len(body)
      PROVE  NoCR(f[n + 1]) = body[n] /\ ~Marker(f[n + 1])
    <2>1. n + 1 \in 1..(Len(body) + 2) /\ body[n] \in Inner /\ body[n] \in Line
        BY <1>2 DEF Inner
    <2>2. f[n + 1] = WithCR(body[n], cr)
        BY <1>4, <1>5, <2>1
    <2>3. ~body[n].cr /\ ~Marker(body[n])
        BY <2>1 DEF Inner
    <2>4. NoCR(WithCR(body[n], cr)) = body[n] /\ WithCR(body[n], cr).kind = body[n].kind
        BY <2>1, <2>3, LineIs
    <2>q. QED
        BY <2>2, <2>3, <2>4 DEF Marker
<1>10. ASSUME NEW k \in 1..Len(f), 1 < k, k < Len(f) PROVE ~Marker(f[k])
    <2>1. k - 1 \in 1..Len(body) /\ (k - 1) + 1 = k
        BY <1>2, <1>7, <1>10
    <2>2. ~Marker(f[(k - 1) + 1])
        BY <1>9, <2>1
    <2>q. QED
        BY <2>1, <2>2
<1>11. Whole(f)
    BY <1>2, <1>7, <1>8, <1>10 DEF Whole
<1>q. QED
    BY <1>7, <1>9, <1>11 DEF f

\* The user's lines, with the block or without one in between.
Written(c, body) == IF body = <<>> THEN <<>> ELSE Framed(body, HasCRLF(c))

LEMMA WrittenIs ==
    ASSUME NEW c \in Content, NEW body \in Seq(Inner)
    PROVE  Written(c, body) \in Seq(Line) /\ Whole(Written(c, body))
<1>1. CASE body = <<>>
    BY <1>1 DEF Written, Whole
<1>2. CASE body # <<>>
    <2>1. HasCRLF(c) \in BOOLEAN
        BY DEF HasCRLF
    <2>q. QED
        BY <1>2, <2>1, FramedIs DEF Written
<1>q. QED
    BY <1>1, <1>2

LEMMA UpdateIs ==
    ASSUME NEW c \in Content, NEW body \in Seq(Inner),
           ~(FindBlocks(c.lines) = <<>> /\ body = <<>>)
    PROVE  \E a \in Seq(Line), b \in Seq(Line) :
              /\ a \o b = OwnOf(c.lines)
              /\ UpdateBlock(c, body) = Joined(a \o Written(c, body) \o b)
<1> DEFINE ls == c.lines
           at == IF FindBlocks(ls) = <<>> THEN Len(ls) + 1 ELSE FindBlocks(ls)[1].start
           low == Ours(ls) \cup (DOMAIN ls \ (1..(at - 1)))
           high == Ours(ls) \cup (DOMAIN ls \ (at..Len(ls)))
           all == Ours(ls) \cup (DOMAIN ls \ (1..Len(ls)))
           a == Outside(ls, 1, at - 1)
           b == Outside(ls, at, Len(ls))
<1>1. ls \in Seq(Line) /\ Len(ls) \in Nat /\ DOMAIN ls = 1..Len(ls)
    BY DEF Content
<1>2. at \in Int
    <2>1. CASE FindBlocks(ls) # <<>>
        BY <1>1, <2>1, FirstBlock DEF Block
    <2>q. QED
        BY <1>1, <2>1
<1>3. UpdateBlock(c, body) = Joined(a \o Written(c, body) \o b)
    BY DEF UpdateBlock, Written, Framed, Each
<1> HIDE DEF at
<1>4. /\ \A i \in 1..Len(ls) : i \in low <=> i \in all \/ i >= at
      /\ \A i \in 1..Len(ls) : i \in high <=> i \in all \/ i < at
    BY <1>1, <1>2
<1>5. a = Without(ls, low) /\ b = Without(ls, high) /\ OwnOf(ls) = Without(ls, all)
    BY DEF Outside, OwnOf
<1> HIDE DEF low, high, all, a, b, ls
<1>6. a \o b = OwnOf(ls)
    <2>1. Without(ls, low) \o Without(ls, high) = Without(ls, all)
        BY <1>1, <1>2, <1>4, WithoutSplit
    <2>q. QED
        BY <1>5, <2>1
<1>7. a \in Seq(Line) /\ b \in Seq(Line)
    BY <1>1, <1>5, WithoutType
<1>q. QED
    BY <1>3, <1>6, <1>7 DEF ls

LEMMA JoinedIs ==
    ASSUME NEW ls \in Seq(Line) PROVE Joined(ls) \in Content /\ Joined(ls).lines = ls
BY DEF Joined, Empty, Content

LEMMA OwnIs ==
    ASSUME NEW ls \in Seq(Line) PROVE OwnOf(ls) \in Seq(Line)
BY WithoutType DEF OwnOf, Outside

LEMMA NothingOwned == OwnOf(<<>>) = <<>> /\ NoBlock(<<>>) /\ BlockBody(Empty) = <<>>
<1>1. <<>> \in Seq(Line) /\ Len(<<>>) = 0 /\ Empty.lines = <<>>
    BY DEF Empty
<1>2. NoBlock(<<>>)
    BY <1>1 DEF NoBlock, Block
<1>q. QED
    BY <1>1, <1>2, AllOwn, NothingFound DEF BlockBody

LEMMA SubSeqIs ==
    ASSUME NEW ls \in Seq(Line), NEW a \in Int, NEW z \in Int
    PROVE  SubSeq(ls, a, z) = [n \in 1..(z - a + 1) |-> ls[a + n - 1]]
OBVIOUS

\* What is inside the first block.
LEMMA BodyIs ==
    ASSUME NEW c \in Content, NEW s, NEW t, FindBlocks(c.lines) # <<>>,
           FindBlocks(c.lines)[1] = [start |-> s, end |-> t],
           NEW body \in Seq(Inner), s \in Nat, t = s + Len(body) + 1,
           \A n \in 1..Len(body) : NoCR(c.lines[s + n]) = body[n]
    PROVE  BlockBody(c) = body
<1> DEFINE F == FindBlocks(c.lines)
           m == SubSeq(c.lines, F[1].start + 1, F[1].end - 1)
<1>1. F # <<>> /\ F[1].start = s /\ F[1].end = t
    OBVIOUS
<1>2. BlockBody(c) = [i \in DOMAIN m |-> NoCR(m[i])]
    BY <1>1 DEF BlockBody, Each
<1>3. m = SubSeq(c.lines, s + 1, t - 1)
    BY <1>1
<1> HIDE DEF F, m
<1>4. Len(body) \in Nat /\ t - 1 = s + Len(body) /\ c.lines \in Seq(Line)
    BY DEF Content
<1>5. m = [n \in 1..Len(body) |-> c.lines[s + n]]
    <2>1. m = [n \in 1..((t - 1) - (s + 1) + 1) |-> c.lines[(s + 1) + n - 1]]
        <3>1. PICK a, z : a = s + 1 /\ z = t - 1
            OBVIOUS
        <3>2. a \in Int /\ z \in Int
            BY <1>4, <3>1
        <3>3. SubSeq(c.lines, a, z) = [n \in 1..(z - a + 1) |-> c.lines[a + n - 1]]
            BY <1>4, <3>2, SubSeqIs
        <3>q. QED
            BY <1>3, <3>1, <3>3
    <2>2. (t - 1) - (s + 1) + 1 = Len(body) /\ \A n \in 1..Len(body) : (s + 1) + n - 1 = s + n
        BY <1>4
    <2>q. QED
        BY <2>1, <2>2
<1>6. BlockBody(c) = [n \in 1..Len(body) |-> body[n]]
    BY <1>2, <1>5
<1>q. QED
    BY <1>6

\* UpdateBlock writes that block and leaves the user's lines as they are.
LEMMA UpdateKeeps ==
    ASSUME NEW c \in Content, NEW body \in Seq(Inner), NoBlock(OwnOf(c.lines))
    PROVE  /\ UpdateBlock(c, body) \in Content
           /\ OwnOf(UpdateBlock(c, body).lines) = OwnOf(c.lines)
           /\ BlockBody(UpdateBlock(c, body)) = body
           /\ body = <<>> => /\ UpdateBlock(c, body).lines = OwnOf(c.lines)
                             /\ NoBlock(UpdateBlock(c, body).lines)
<1> DEFINE out == UpdateBlock(c, body)
<1>1. c.lines \in Seq(Line) /\ OwnOf(c.lines) \in Seq(Line)
    BY OwnIs DEF Content
<1>2. CASE FindBlocks(c.lines) = <<>> /\ body = <<>>
    <2>1. out = c
        BY <1>2 DEF UpdateBlock
    <2>2. NoBlock(c.lines) /\ OwnOf(c.lines) = c.lines
        BY <1>1, <1>2, NothingFound, AllOwn
    <2>3. BlockBody(c) = <<>>
        BY <1>2 DEF BlockBody
    <2>q. QED
        BY <1>2, <2>1, <2>2, <2>3
<1>3. CASE ~(FindBlocks(c.lines) = <<>> /\ body = <<>>)
    <2> DEFINE x == Written(c, body)
    <2>1. PICK a \in Seq(Line), b \in Seq(Line) :
              a \o b = OwnOf(c.lines) /\ out = Joined(a \o x \o b)
        BY <1>3, UpdateIs
    <2>2. x \in Seq(Line) /\ Whole(x)
        BY WrittenIs
    <2> DEFINE d == a \o x \o b
    <2>3. body = <<>> => x = <<>>
        BY DEF Written
    <2>4. body # <<>> => /\ x # <<>> /\ Len(x) = Len(body) + 2
                         /\ \A n \in 1..Len(body) : NoCR(x[n + 1]) = body[n]
        <3>1. SUFFICES ASSUME body # <<>>
                       PROVE  /\ Len(x) = Len(body) + 2 /\ Len(body) \in Nat
                              /\ \A n \in 1..Len(body) : NoCR(x[n + 1]) = body[n]
            OBVIOUS
        <3>2. HasCRLF(c) \in BOOLEAN /\ x = Framed(body, HasCRLF(c))
            BY <3>1 DEF HasCRLF, Written
        <3>q. QED
            BY <3>1, <3>2, FramedIs
    <2> HIDE DEF x, out
    <2>5. d \in Seq(Line) /\ Len(d) = Len(a) + Len(x) + Len(b)
          /\ \A n \in 1..Len(x) : d[Len(a) + n] = x[n]
        BY <2>2, ThreeParts
    <2>6. OwnOf(d) = OwnOf(c.lines)
        BY <2>1, <2>2, InsertedOwn
    <2>7. ASSUME NEW s, NEW e
          PROVE  Block(d, s, e) <=> x # <<>> /\ s = Len(a) + 1 /\ e = Len(a) + Len(x)
        <3>1. NoBlock(a \o b)
            BY <2>1
        <3>q. QED
            BY <2>2, <3>1, Inserted
    <2> HIDE DEF d
    <2>8. out \in Content /\ out.lines = d
        BY <2>1, <2>5, JoinedIs DEF d
    <2>9. CASE body = <<>>
        <3>1. NoBlock(d)
            BY <2>3, <2>7, <2>9 DEF NoBlock
        <3>2. OwnOf(d) = d /\ FindBlocks(d) = <<>>
            BY <2>5, <3>1, AllOwn, NothingFound
        <3>3. BlockBody(out) = <<>>
            BY <2>8, <3>2 DEF BlockBody
        <3>q. QED
            BY <2>6, <2>8, <2>9, <3>1, <3>2, <3>3 DEF out
    <2>10. CASE body # <<>>
        <3> DEFINE s == Len(a) + 1
                   t == Len(a) + Len(x)
        <3>1. Len(a) \in Nat /\ Len(body) \in Nat /\ Len(x) = Len(body) + 2
            BY <2>4, <2>10
        <3>2. s \in Nat /\ t = s + Len(body) + 1
            BY <3>1
        <3>3. FindBlocks(d) = <<[start |-> s, end |-> t]>>
            BY <2>4, <2>5, <2>7, <2>10, OneBlock
        <3>4. \A n \in 1..Len(body) : NoCR(d[s + n]) = body[n]
            <4>1. ASSUME NEW n \in 1..Len(body) PROVE NoCR(d[s + n]) = body[n]
                <5>1. s + n = Len(a) + (n + 1) /\ n + 1 \in 1..Len(x)
                    BY <3>1
                <5>2. d[Len(a) + (n + 1)] = x[n + 1]
                    BY <2>5, <5>1
                <5>3. NoCR(x[n + 1]) = body[n]
                    BY <2>4, <2>10
                <5> HIDE DEF s
                <5>q. QED
                    BY <5>1, <5>2, <5>3
            <4>q. QED
                BY <4>1
        <3> HIDE DEF s, t
        <3>5. BlockBody(out) = body
            <4>1. FindBlocks(d) # <<>> /\ FindBlocks(d)[1] = [start |-> s, end |-> t]
                BY <3>3
            <4>q. QED
                BY <2>8, <3>2, <3>4, <4>1, BodyIs
        <3>q. QED
            BY <2>6, <2>8, <2>10, <3>5 DEF out
    <2>q. QED
        BY <2>9, <2>10
<1>q. QED
    BY <1>2, <1>3

LEMMA BodyInner ==
    ASSUME NEW c \in Content PROVE BlockBody(c) \in Seq(Inner)
<1> DEFINE F == FindBlocks(c.lines)
           m == SubSeq(c.lines, F[1].start + 1, F[1].end - 1)
<1>1. c.lines \in Seq(Line) /\ Len(c.lines) \in Nat
    BY DEF Content
<1>2. CASE F = <<>>
    BY <1>2 DEF BlockBody
<1>3. CASE F # <<>>
    <2>1. Block(c.lines, F[1].start, F[1].end)
        BY <1>1, <1>3, FirstBlock
    <2>2. PICK s, t : s = F[1].start /\ t = F[1].end
        OBVIOUS
    <2>3. BlockBody(c) = [i \in DOMAIN m |-> NoCR(m[i])]
        BY <1>3 DEF BlockBody, Each
    <2>4. m = SubSeq(c.lines, s + 1, t - 1) /\ Block(c.lines, s, t)
        BY <2>1, <2>2
    <2> HIDE DEF F, m
    <2>5. s \in 1..Len(c.lines) /\ t \in 1..Len(c.lines) /\ s < t
        BY <2>4 DEF Block
    <2>6. m = [n \in 1..((t - 1) - (s + 1) + 1) |-> c.lines[(s + 1) + n - 1]]
        BY <1>1, <2>4, <2>5
    <2>7. (t - 1) - (s + 1) + 1 \in Nat
        BY <1>1, <2>5
    <2>8. ASSUME NEW n \in 1..((t - 1) - (s + 1) + 1) PROVE NoCR(m[n]) \in Inner
        <3>1. (s + 1) + n - 1 \in 1..Len(c.lines) /\ s < (s + 1) + n - 1 /\ (s + 1) + n - 1 < t
            BY <1>1, <2>5
        <3>2. m[n] \in Line /\ ~Marker(m[n])
            BY <1>1, <2>4, <2>6, <3>1 DEF Block
        <3>3. NoCR(m[n]) \in Line /\ NoCR(m[n]).kind = m[n].kind /\ NoCR(m[n]).cr = FALSE
            BY <3>2, LineIs
        <3>q. QED
            BY <3>2, <3>3 DEF Inner, Marker
    <2>9. BlockBody(c) \in [1..((t - 1) - (s + 1) + 1) -> Inner]
        BY <2>3, <2>6, <2>8
    <2>q. QED
        BY <2>7, <2>9, IsSequence
<1>q. QED
    BY <1>2, <1>3

\* Dropping other lines than markers makes no block.
LEMMA DropPlain ==
    ASSUME NEW ls \in Seq(Line), NoBlock(ls), NEW drop,
           \A i \in 1..Len(ls) : Marker(ls[i]) => i \notin drop
    PROVE  NoBlock(Without(ls, drop))
<1> DEFINE l == Len(ls)
           K == Rest(l, drop)
           new == Without(ls, drop)
<1>1. l \in Nat /\ K \in SUBSET (1..l) /\ \A k \in K : k \in Int
    BY DEF Rest
<1>2. /\ new \in Seq(Line) /\ Len(new) = Cardinality(K)
      /\ \A n \in 1..Len(new) : new[n] = ls[Nth(K, n)]
    BY WithoutType
<1>3. \A i \in 1..l : Marker(ls[i]) => i \in K
    BY DEF Rest
<1> HIDE DEF K, new
<1>4. SUFFICES ASSUME NEW b, NEW e, Block(new, b, e) PROVE FALSE
    BY DEF NoBlock, new
<1>5. b \in 1..Cardinality(K) /\ e \in 1..Cardinality(K) /\ b < e
    BY <1>2, <1>4 DEF Block
<1> DEFINE B == Nth(K, b)
           E == Nth(K, e)
<1>6. B \in K /\ E \in K /\ Rank(K, B) = b /\ Rank(K, E) = e
    BY <1>1, <1>5, NthIs
<1>7. B < E
    BY <1>1, <1>5, NthGrows
<1>8. ls[B].kind = "begin" /\ ls[E].kind = "end"
    BY <1>2, <1>4 DEF Block
<1>9. PICK k \in 1..l : B < k /\ k < E /\ Marker(ls[k])
    <2>1. B \in 1..l /\ E \in 1..l /\ ~Block(ls, B, E)
        BY <1>1, <1>6 DEF NoBlock
    <2>q. QED
        BY <1>7, <1>8, <2>1 DEF Block
<1> HIDE DEF B, E
<1>10. k \in K /\ B \in 0..l /\ k \in 0..l
    BY <1>1, <1>3, <1>6, <1>9
<1>11. Rank(K, B) < Rank(K, k) /\ Rank(K, k) < Rank(K, E)
    BY <1>1, <1>6, <1>9, <1>10, RankGrows
<1>12. Rank(K, k) \in 1..Len(new) /\ Nth(K, Rank(K, k)) = k
    BY <1>1, <1>2, <1>10, NthIs
<1>13. ~Marker(new[Rank(K, k)])
    BY <1>4, <1>6, <1>11, <1>12 DEF Block
<1>q. QED
    BY <1>2, <1>9, <1>12, <1>13

\* One line more that is not a marker.
LEMMA AppendPlain ==
    ASSUME NEW ls \in Seq(Line), NEW l \in Line, ~Marker(l)
    PROVE  /\ Append(ls, l) \in Seq(Line)
           /\ FindBlocks(Append(ls, l)) = FindBlocks(ls)
           /\ OwnOf(Append(ls, l)) = Append(OwnOf(ls), l)
<1> DEFINE new == Append(ls, l)
           L == Len(ls)
<1>1. /\ L \in Nat /\ new \in Seq(Line) /\ Len(new) = L + 1 /\ new[L + 1] = l
      /\ \A k \in 1..L : new[k] = ls[k]
    OBVIOUS
<1>2. ASSUME NEW b, NEW e PROVE Block(new, b, e) <=> Block(ls, b, e)
    <2> HIDE DEF new, L
    <2>1. \A k \in 1..Len(new) : k \in 1..L \/ k = L + 1
        BY <1>1
    <2>2. \A k \in 1..L : k \in 1..Len(new)
        BY <1>1
    <2>3. ASSUME Block(new, b, e) PROVE Block(ls, b, e)
        <3>1. b # L + 1 /\ e # L + 1
            BY <1>1, <2>3 DEF Block, Marker
        <3>2. b \in 1..L /\ e \in 1..L
            BY <2>1, <2>3, <3>1 DEF Block
        <3>q. QED
            BY <1>1, <2>2, <2>3, <3>2 DEF Block, L
    <2>4. ASSUME Block(ls, b, e) PROVE Block(new, b, e)
        <3>1. b \in 1..L /\ e \in 1..L
            BY <2>4 DEF Block, L
        <3>2. \A k \in 1..Len(new) : k < e => k \in 1..L
            BY <1>1, <2>1, <3>1
        <3>q. QED
            BY <1>1, <2>2, <2>4, <3>1, <3>2 DEF Block, L
    <2>q. QED
        BY <2>3, <2>4
<1>3. FindBlocks(new) = FindBlocks(ls)
    <2>1. Closers(new) = Closers(ls)
        <3>1. \A e : e \in Closers(new) <=> \E b : Block(ls, b, e)
            BY <1>2 DEF Closers, Block
        <3>2. \A e : e \in Closers(ls) <=> \E b : Block(ls, b, e)
            BY DEF Closers, Block
        <3>q. QED
            BY <3>1, <3>2
    <2> DEFINE c == Cardinality(Closers(ls))
    <2>2. Closers(ls) \in SUBSET (1..L) /\ L \in Nat
        BY DEF Closers
    <2>3. ASSUME NEW n \in 1..c PROVE NthBlock(new, n) = NthBlock(ls, n)
        <3>1. Nth(Closers(ls), n) \in Closers(ls)
            BY <2>2, NthIs
        <3>2. PICK b : Block(ls, b, Nth(Closers(ls), n))
            BY <3>1 DEF Closers
        <3>3. Opener(ls, Nth(Closers(ls), n)) = b /\ Opener(new, Nth(Closers(ls), n)) = b
            <4>1. Len(new) \in Nat /\ Len(ls) \in Nat /\ Block(new, b, Nth(Closers(ls), n))
                BY <1>1, <1>2, <3>2
            <4> HIDE DEF new
            <4>q. QED
                BY <3>2, <4>1, OpenerIs
        <3>q. QED
            BY <2>1, <3>3 DEF NthBlock
    <2>q. QED
        <3>1. FindBlocks(ls) = [n \in 1..c |-> NthBlock(ls, n)]
            BY FindBlocksIs
        <3>2. FindBlocks(new) = [n \in 1..c |-> NthBlock(new, n)]
            BY <1>1, <2>1, FindBlocksIs
        <3> HIDE DEF new, c
        <3>q. QED
            BY <2>3, <3>1, <3>2
<1>4. OwnOf(new) = Append(OwnOf(ls), l)
    <2> DEFINE drop == Ours(new) \cup (DOMAIN new \ (1..Len(new)))
               low == Ours(ls) \cup (DOMAIN ls \ (1..Len(ls)))
               own == OwnOf(ls)
               want == Append(own, l)
               K == Rest(L, low)
               h == [n \in 1..(Len(own) + 1) |-> IF n <= Len(own) THEN Nth(K, n) ELSE L + 1]
    <2>1. \A i : i \in Ours(new) <=> i \in Ours(ls)
        BY <1>1, <1>2, OursIs
    <2>2. \A i \in Ours(ls) : i \in 1..L
        <3>1. ASSUME NEW i \in Ours(ls) PROVE i \in 1..L
            <4>1. PICK b, e : Block(ls, b, e) /\ i \in b..e
                BY OursIs
            <4>q. QED
                BY <1>1, <4>1 DEF Block
        <3>q. QED
            BY <3>1
    <2>3. DOMAIN new = 1..(L + 1) /\ DOMAIN ls = 1..L
        BY <1>1
    <2> HIDE DEF new
    <2>4. /\ \A i \in 1..L : i \in drop <=> i \in low
          /\ L + 1 \notin drop
        BY <1>1, <2>1, <2>2, <2>3
    <2>5. /\ own \in Seq(Line) /\ Len(own) = Cardinality(K)
          /\ \A n \in 1..Len(own) : Nth(K, n) \in K /\ own[n] = ls[Nth(K, n)]
        <3> HIDE DEF low
        <3>1. own = Without(ls, low)
            BY DEF OwnOf, Outside, low
        <3>q. QED
            BY <3>1, WithoutType
    <2>6. K \in SUBSET (1..L) /\ \A i \in 1..L : i \in K <=> i \notin low
        BY DEF Rest
    <2>7. /\ Len(own) \in Nat /\ want \in Seq(Line) /\ Len(want) = Len(own) + 1
          /\ want[Len(own) + 1] = l /\ \A n \in 1..Len(own) : want[n] = own[n]
        <3>1. own \in Seq(Line)
            BY <2>5
        <3> HIDE DEF own
        <3>q. QED
            BY <3>1
    <2> HIDE DEF own, want, low, drop, K
    <2>0. h = [n \in 1..Len(want) |-> h[n]]
        BY <2>7
    <2>8. /\ \A n \in 1..Len(own) : h[n] = Nth(K, n) /\ Nth(K, n) \in 1..L
          /\ h[Len(own) + 1] = L + 1
          /\ \A n \in 1..(Len(own) + 1) : n \in 1..Len(own) \/ n = Len(own) + 1
        <3>1. \A n \in 1..Len(own) : n \in 1..(Len(own) + 1) /\ n <= Len(own)
            BY <2>7
        <3>2. Len(own) + 1 \in 1..(Len(own) + 1) /\ ~(Len(own) + 1 <= Len(own))
            BY <2>7
        <3>3. \A n \in 1..(Len(own) + 1) : n \in 1..Len(own) \/ n = Len(own) + 1
            BY <2>7
        <3>4. \A n \in 1..Len(own) : Nth(K, n) \in 1..L
            BY <2>5, <2>6
        <3>q. QED
            BY <2>7, <3>1, <3>2, <3>3, <3>4
    <2> HIDE DEF h
    <2>9. Picks(want, new, h)
        <3>1. ASSUME NEW n \in 1..Len(want) PROVE want[n] = new[h[n]]
            <4>1. CASE n \in 1..Len(own)
                BY <1>1, <2>5, <2>7, <2>8, <4>1
            <4>2. CASE n = Len(own) + 1
                BY <1>1, <2>7, <2>8, <4>2
            <4>q. QED
                BY <2>7, <2>8, <4>1, <4>2
        <3>q. QED
            BY <3>1 DEF Picks
    <2>10. Counts(h, Len(want), (1..Len(new)) \ drop)
        <3>1. ASSUME NEW n \in 1..Len(want) PROVE h[n] \in (1..Len(new)) \ drop
            <4>1. CASE n = Len(own) + 1
                BY <1>1, <2>4, <2>8, <4>1
            <4>2. CASE n \in 1..Len(own)
                BY <1>1, <2>4, <2>5, <2>6, <2>8, <4>2
            <4>q. QED
                BY <2>7, <2>8, <4>1, <4>2
        <3>2. ASSUME NEW m \in 1..Len(want), NEW n \in 1..Len(want), m < n PROVE h[m] < h[n]
            <4>1. m \in 1..Len(own)
                BY <2>7, <3>2
            <4>2. CASE n \in 1..Len(own)
                <5>1. m \in 1..Cardinality(K) /\ n \in 1..Cardinality(K)
                    BY <2>5, <4>1, <4>2
                <5>2. Nth(K, m) < Nth(K, n)
                    BY <1>1, <2>6, <3>2, <5>1, NthGrows
                <5>q. QED
                    BY <2>8, <4>1, <4>2, <5>2
            <4>3. CASE n = Len(own) + 1
                BY <1>1, <2>8, <4>1, <4>3
            <4>q. QED
                BY <2>7, <2>8, <4>2, <4>3
        <3>3. ASSUME NEW i \in (1..Len(new)) \ drop PROVE \E n \in 1..Len(want) : h[n] = i
            <4>1. CASE i = L + 1
                <5>1. Len(own) + 1 \in 1..Len(want)
                    BY <2>7
                <5>q. QED
                    BY <2>8, <4>1, <5>1
            <4>2. CASE i # L + 1
                <5>1. i \in K
                    BY <1>1, <2>4, <2>6, <3>3, <4>2
                <5>2. Rank(K, i) \in 1..Len(own) /\ Nth(K, Rank(K, i)) = i
                    BY <1>1, <2>5, <2>6, <5>1, NthIs
                <5>3. Rank(K, i) \in 1..Len(want) /\ h[Rank(K, i)] = i
                    BY <2>7, <2>8, <5>2
                <5>q. QED
                    BY <5>3
            <4>q. QED
                BY <4>1, <4>2
        <3>q. QED
            BY <2>0, <3>1, <3>2, <3>3 DEF Counts
    <2>11. Without(new, drop) = want
        BY <1>1, <2>7, <2>9, <2>10, WithoutBy
    <2>q. QED
        BY <2>11 DEF OwnOf, Outside, drop, want, own
<1>q. QED
    BY <1>1, <1>3, <1>4

-----------------------------------------------------------------------------
(* fileMu.                                                                 *)

\* The mutex has a holder or is free, and there is one buffer per goroutine.
\* That is all the argument needs besides the property itself: which files
\* an operation works on, and what it makes of them, does not matter.
Holders == mutex \in Proc \cup {Free} /\ DOMAIN buf = Proc

MutexInv == Holders /\ LockProtects

\* Nobody has read anything while the mutex is free.
LEMMA NobodyReads ==
    ASSUME MutexInv, mutex = Free, NEW p \in Proc PROVE buf[p] = Unread
BY RcAssumption DEF MutexInv, LockProtects

\* Only one goroutine is between the read and the write of a file.
LEMMA OneReader ==
    ASSUME MutexInv, NEW p \in Proc, NEW q \in Proc, buf[p] # Unread, q # p PROVE buf[q] = Unread
BY DEF MutexInv, LockProtects

LEMMA MutexInit == Init => MutexInv
<1>1. Free \notin Proc
    BY RcAssumption
<1>2. Init => mutex = Free /\ buf = [p \in Proc |-> Unread]
    BY DEF Init
<1>q. QED
    BY <1>1, <1>2 DEF MutexInv, Holders, LockProtects

\* A step that takes no part in it: the mutex, the buffers and the files stay,
\* and who is between a read and a write keeps its place.
LEMMA ApartStep ==
    ASSUME MutexInv, UNCHANGED <<mutex, buf, file>>,
           \A q \in Proc : buf[q] # Unread => todo'[q] = todo[q]
    PROVE  MutexInv'
BY DEF MutexInv, Holders, LockProtects

\* A goroutine that is idle has no file left, and without one nothing is read.
Orderly == /\ DOMAIN op = Proc /\ DOMAIN todo = Proc
           /\ \A p \in Proc : /\ op[p] = Idle => todo[p] = <<>>
                              /\ todo[p] = <<>> => buf[p] = Unread

Inv == MutexInv /\ Orderly

\* An operation begins in a goroutine that was idle.
LEMMA BeginStep ==
    ASSUME Inv, NEW p \in Proc, NEW o, NEW paths, op[p] = Idle, o # Idle, Begin(p, o, paths)
    PROVE  Inv'
<1>1. \A q \in Proc : buf[q] # Unread => todo'[q] = todo[q]
    BY DEF Inv, Orderly, Begin
<1>2. MutexInv'
    BY <1>1, ApartStep DEF Begin, Inv
<1>3. Orderly'
    BY DEF Inv, Orderly, Begin
<1>q. QED
    BY <1>2, <1>3 DEF Inv

\* Lock and read: what is read is what the file holds.
LEMMA ReadStep ==
    ASSUME Inv, NEW p \in Proc, ReadFile(p) PROVE Inv'
<1>1. \A q \in Proc : buf[q] = Unread
    BY NobodyReads DEF Inv, ReadFile
<1>2. buf'[p] = <<file[Head(todo[p])]>> /\ \A q \in Proc \ {p} : buf'[q] = Unread
    BY <1>1 DEF Inv, MutexInv, Holders, ReadFile
<1>3. buf'[p] # Unread /\ Head(buf'[p]) = file'[Head(todo'[p])]
    BY <1>2 DEF ReadFile, Unread
<1>4. LockProtects'
    BY <1>2, <1>3 DEF LockProtects, ReadFile
<1>5. Holders' /\ Orderly'
    BY <1>2 DEF Inv, MutexInv, Holders, Orderly, ReadFile
<1>q. QED
    BY <1>4, <1>5 DEF Inv, MutexInv

\* The write, or its failure, unlocks; the others had not read anything.
LEMMA UnlockStep ==
    ASSUME Inv, NEW p \in Proc, buf[p] # Unread, NextFile(p), UNCHANGED op PROVE Inv'
<1>1. \A q \in Proc : buf'[q] = Unread
    BY OneReader DEF Inv, MutexInv, Holders, NextFile
<1>2. LockProtects'
    BY <1>1, RcAssumption DEF LockProtects, NextFile
<1>3. Holders' /\ Orderly'
    BY <1>1 DEF Inv, MutexInv, Holders, Orderly, NextFile
<1>q. QED
    BY <1>2, <1>3 DEF Inv, MutexInv

\* Between the mutex is free again; the editor and the death of the process
\* find, or leave, nobody with a file in hand.
LEMMA FreeStep ==
    ASSUME Inv, mutex' = Free, DOMAIN op' = Proc, DOMAIN todo' = Proc,
           DOMAIN buf' = Proc,
           \A p \in Proc : buf'[p] = Unread /\ (op'[p] = Idle => todo'[p] = <<>>)
    PROVE  Inv'
BY RcAssumption DEF Inv, Orderly, MutexInv, Holders, LockProtects

LEMMA NextStep == Inv /\ [Next]_vars => Inv'
<1> SUFFICES ASSUME Inv, [Next]_vars PROVE Inv'
    OBVIOUS
<1> USE DEF local, bounds
<1>1. ASSUME NEW p \in Proc, NEW o \in Operations, Start(p, o) PROVE Inv'
    <2>1. o # Idle
        BY DEF Operations, Idle
    <2>q. QED
        BY <1>1, <2>1, BeginStep DEF Start
<1>2. ASSUME NEW p \in Proc, Restore(p) PROVE Inv'
    BY <1>2, BeginStep DEF Restore, Idle
<1>3. ASSUME NEW p \in Proc, ReadFile(p) PROVE Inv'
    BY <1>3, ReadStep
<1>4. ASSUME NEW p \in Proc, WriteFile(p) \/ FileFails(p) PROVE Inv'
    BY <1>4, UnlockStep DEF WriteFile, FileFails
<1>5. ASSUME NEW p \in Proc, Return(p) PROVE Inv'
    <2>1. MutexInv'
        BY <1>5, ApartStep DEF Return, Inv
    <2>2. Orderly'
        BY <1>5 DEF Return, Inv, Orderly
    <2>q. QED
        BY <2>1, <2>2 DEF Inv
<1>6. ASSUME NEW p \in Proc, Snapshot(p) \/ SnapshotFails(p) PROVE Inv'
    <2>1. UNCHANGED <<mutex, buf, file, op, todo>>
        BY <1>6 DEF Snapshot, SnapshotFails
    <2>q. QED
        BY <2>1, ApartStep DEF Inv, Orderly
<1>7. ASSUME NEW f \in Path, UserAdds(f) PROVE Inv'
    BY <1>7, FreeStep, NobodyReads DEF UserAdds, Inv, Orderly, MutexInv, Holders
<1>8. CASE Crash
    BY <1>8, FreeStep DEF Crash
<1>9. CASE UNCHANGED vars
    BY <1>9, ApartStep DEF vars, Inv, Orderly
<1>q. QED
    BY <1>1, <1>2, <1>3, <1>4, <1>5, <1>6, <1>7, <1>8, <1>9 DEF Next, Work

\* "fileMu serialises read-modify-write cycles on config files within this
\* process": whoever holds it finds the file as it has read it, and gives it
\* up whatever becomes of the write.
THEOREM MutexProtects == Spec => []LockProtects
<1>1. Init => Inv
    BY MutexInit DEF Init, Inv, Orderly
<1>2. Inv => LockProtects
    BY DEF Inv, MutexInv
<1>q. QED
    BY <1>1, <1>2, NextStep, PTL DEF Spec

-----------------------------------------------------------------------------
(* What an operation makes of one file.                                    *)

Contents == Content \cup {Missing}

LEMMA ReadIs ==
    ASSUME NEW c \in Contents
    PROVE  /\ Read(c) \in Content /\ Read(c).lines \in Seq(Line)
           /\ Own(c) = OwnOf(Read(c).lines) /\ Own(c) \in Seq(Line)
           /\ Tidy(c) <=> NoBlock(Own(c))
<1>1. Read(c) \in Content
    BY DEF Read, Contents, Empty, Content
<1>2. Read(c).lines \in Seq(Line)
    BY <1>1 DEF Content
<1>3. Own(c) = OwnOf(Read(c).lines)
    <2>1. CASE c = Missing
        BY <2>1, NothingOwned DEF Own, Read, Empty
    <2>2. CASE c # Missing
        BY <2>2 DEF Own, Read, OwnOf
    <2>q. QED
        BY <2>1, <2>2
<1>4. Own(c) \in Seq(Line)
    BY <1>2, <1>3, OwnIs
<1>q. QED
    BY <1>1, <1>2, <1>3, <1>4, NothingFound DEF Tidy

\* The lines that operations put in a block.
LEMMA ExportInner ==
    ASSUME NEW var \in Vars, NEW v \in Val \cup {""} PROVE Export(var, v) \in Inner
<1>1. Export(var, v) \in Line
    BY DEF Export, Line
<1>2. Export(var, v).kind = "quoted" /\ Export(var, v).cr = FALSE
    BY DEF Export
<1>q. QED
    BY <1>1, <1>2 DEF Inner, Marker

LEMMA PairsInner ==
    ASSUME NEW names \in Seq(Vars), NEW v \in Val
    PROVE  Pairs(names, v) \in Seq(Inner) /\ Len(Pairs(names, v)) = Len(names)
<1>1. \A i \in 1..Len(names) : Export(names[i], v) \in Inner
    <2>1. \A i \in 1..Len(names) : names[i] \in Vars
        OBVIOUS
    <2>q. QED
        BY <2>1, ExportInner
<1>2. Pairs(names, v) \in [1..Len(names) -> Inner] /\ Len(names) \in Nat
    BY <1>1 DEF Pairs
<1>q. QED
    BY <1>2, IsSequence

LEMMA BodyType ==
    ASSUME NEW o \in Operations, o.name # "unset" PROVE Body(o) \in Seq(Inner)
<1>1. CASE o.name = "set"
    <2>1. o.arg \in Val
        BY <1>1, RcAssumption DEF Operations
    <2>2. <<"http_proxy", "https_proxy", "all_proxy">> \in Seq(Vars) /\ <<"no_proxy">> \in Seq(Vars)
        BY DEF Vars
    <2>3. /\ Pairs(<<"http_proxy", "https_proxy", "all_proxy">>, o.arg) \in Seq(Inner)
          /\ Pairs(<<"no_proxy">>, DefaultNoProxy) \in Seq(Inner)
        BY <2>1, <2>2, PairsInner, DefaultAssumption
    <2>q. QED
        BY <1>1, <2>3, Concatenated DEF Body
<1>2. CASE o.name = "pac"
    <2>1. o.arg \in Val
        BY <1>2, RcAssumption DEF Operations
    <2>2. <<"AUTOPROXY">> \in Seq(Vars)
        BY DEF Vars
    <2>q. QED
        BY <1>2, <2>1, <2>2, PairsInner DEF Body
<1>3. CASE o.name = "multi"
    <2> DEFINE names == <<"http_proxy", "https_proxy", "all_proxy", "no_proxy">>
               given == Without(names, {i \in DOMAIN names : o.arg[names[i]] = ""})
               N == Vars \ {"AUTOPROXY"}
    <2>1. o.arg \in [N -> Val \cup {""}]
        BY <1>3, RcAssumption DEF Operations
    <2>2. names \in Seq(N)
        BY DEF Vars
    <2>3. given \in Seq(N)
        <3> HIDE DEF names, N
        <3>q. QED
            BY <2>2, WithoutType
    <2>4. Body(o) = [i \in DOMAIN given |-> Export(given[i], o.arg[given[i]])]
        BY <1>3 DEF Body
    <2> HIDE DEF given
    <2>5. \A i \in 1..Len(given) : Export(given[i], o.arg[given[i]]) \in Inner
        <3>1. \A i \in 1..Len(given) : given[i] \in Vars /\ o.arg[given[i]] \in Val \cup {""}
            <4>1. N \subseteq Vars
                OBVIOUS
            <4> HIDE DEF N
            <4>2. \A i \in 1..Len(given) : given[i] \in N
                BY <2>3
            <4>q. QED
                BY <2>1, <4>1, <4>2
        <3>q. QED
            BY <3>1, ExportInner
    <2>6. Body(o) \in [1..Len(given) -> Inner] /\ Len(given) \in Nat
        BY <2>3, <2>4, <2>5
    <2>q. QED
        BY <2>6, IsSequence
<1>q. QED
    BY <1>1, <1>2, <1>3 DEF Operations

LEMMA YieldInner ==
    ASSUME NEW body \in Seq(Inner), NEW c, NEW names
    PROVE  DropIfUserDefined(body, c, names) \in Seq(Inner)
BY WithoutType DEF DropIfUserDefined

LEMMA MergeInner ==
    ASSUME NEW old \in Seq(Inner), NEW updated \in Seq(Inner)
    PROVE  MergeBody(old, updated) \in Seq(Inner)
<1> DEFINE drop == {i \in DOMAIN old : VarName(old[i]) \in ({VarName(l) : l \in ToSet(updated)} \ {""})}
<1>1. MergeBody(old, updated) = Without(old, drop) \o updated
    BY DEF MergeBody
<1> HIDE DEF drop
<1>2. Without(old, drop) \in Seq(Inner)
    BY WithoutType
<1>q. QED
    BY <1>1, <1>2, Concatenated

\* The body of the block that is written.
NewBody(o, c) ==
    LET body == DropIfUserDefined(Body(o), Read(c), Yield(o))
    IN  IF o.name = "multi" THEN MergeBody(BlockBody(Read(c)), body) ELSE body

\* Set, SetMulti and SetPAC.
LEMMA AppliedIs ==
    ASSUME NEW o \in Operations, o.name # "unset", NEW c \in Contents, Tidy(c)
    PROVE  /\ Applied(o, c) \in Content /\ Applied(o, c) # Missing /\ Applied(o, c) \in Contents
           /\ Own(Applied(o, c)) = Own(c) /\ Tidy(Applied(o, c))
           /\ BlockBody(Applied(o, c)) = NewBody(o, c)
<1>1. NewBody(o, c) \in Seq(Inner)
    <2>1. DropIfUserDefined(Body(o), Read(c), Yield(o)) \in Seq(Inner)
        BY BodyType, YieldInner
    <2>2. BlockBody(Read(c)) \in Seq(Inner)
        BY ReadIs, BodyInner
    <2>q. QED
        BY <2>1, <2>2, MergeInner DEF NewBody
<1>2. Applied(o, c) = UpdateBlock(Read(c), NewBody(o, c))
    BY DEF Applied, NewBody
<1>3. /\ Applied(o, c) \in Content
      /\ OwnOf(Applied(o, c).lines) = OwnOf(Read(c).lines)
      /\ BlockBody(Applied(o, c)) = NewBody(o, c)
    BY <1>1, <1>2, ReadIs, UpdateKeeps
<1>4. Applied(o, c) # Missing
    BY <1>3, RcAssumption
<1>5. Applied(o, c) \in Contents /\ Read(Applied(o, c)) = Applied(o, c)
    BY <1>3, <1>4 DEF Contents, Read
<1>6. Own(Applied(o, c)) = Own(c)
    BY <1>3, <1>5, ReadIs
<1>q. QED
    BY <1>3, <1>4, <1>5, <1>6 DEF Tidy

LEMMA FirstNumbers == ASSUME NEW n \in Nat PROVE IsFiniteSet(1..n) /\ Cardinality(1..n) = n
BY FS_Interval

LEMMA AllKept ==
    ASSUME NEW ls \in Seq(Line), NEW drop, Len(Without(ls, drop)) = Len(ls)
    PROVE  Without(ls, drop) = ls
<1>1. Cardinality(Rest(Len(ls), drop)) = Len(ls) /\ Len(ls) \in Nat
    BY WithoutType
<1>2. Rest(Len(ls), drop) \in SUBSET (1..Len(ls))
    BY DEF Rest
<1> DEFINE L == Len(ls)
<1>5. L \in Nat
    BY <1>1
<1> HIDE DEF L
<1>6. IsFiniteSet(1..L) /\ Cardinality(1..L) = L
    BY <1>5, FirstNumbers
<1>3. 1..Len(ls) = Rest(Len(ls), drop)
    BY <1>1, <1>2, <1>6, FS_Subset DEF L
<1>4. \A i \in 1..Len(ls) : i \notin drop
    BY <1>3 DEF Rest
<1>q. QED
    BY <1>4, WithoutNothing

\* The lines of old versions go.
LEMMA NotLegacyIs ==
    ASSUME NEW ls \in Seq(Line), NoBlock(ls)
    PROVE  /\ NotLegacy(ls) \in Seq(Line) /\ NoBlock(NotLegacy(ls))
           /\ \A l \in ToSet(NotLegacy(ls)) : ~Legacy(l) /\ l \in ToSet(ls)
           /\ \A l \in ToSet(ls) : Legacy(l) \/ l \in ToSet(NotLegacy(ls))
<1> DEFINE drop == {i \in DOMAIN ls : Legacy(ls[i])}
           K == Rest(Len(ls), drop)
           new == Without(ls, drop)
<1>1. NotLegacy(ls) = new
    BY DEF NotLegacy
<1>2. \A i \in 1..Len(ls) : (i \in drop <=> Legacy(ls[i])) /\ (Marker(ls[i]) => i \notin drop)
    BY DEF Legacy, Marker
<1>3. Len(ls) \in Nat /\ DOMAIN ls = 1..Len(ls)
    OBVIOUS
<1> HIDE DEF drop
<1>4. NoBlock(new)
    BY <1>2, DropPlain
<1>5. /\ new \in Seq(Line) /\ Len(new) = Cardinality(K)
      /\ \A n \in 1..Len(new) : Nth(K, n) \in K /\ new[n] = ls[Nth(K, n)]
    BY WithoutType
<1>6. K \in SUBSET (1..Len(ls)) /\ \A i \in 1..Len(ls) : i \in K <=> i \notin drop
    BY DEF Rest
<1> HIDE DEF K, new
<1>7. DOMAIN new = 1..Len(new)
    BY <1>5
<1>8. ASSUME NEW l \in ToSet(new) PROVE ~Legacy(l) /\ l \in ToSet(ls)
    <2>1. PICK n \in 1..Len(new) : l = new[n]
        BY <1>7 DEF ToSet
    <2>2. Nth(K, n) \in 1..Len(ls) /\ Nth(K, n) \notin drop /\ l = ls[Nth(K, n)]
        BY <1>5, <1>6, <2>1
    <2>q. QED
        BY <1>2, <1>3, <2>2 DEF ToSet
<1>9. ASSUME NEW l \in ToSet(ls), ~Legacy(l) PROVE l \in ToSet(new)
    <2>1. PICK i \in 1..Len(ls) : l = ls[i]
        BY <1>3 DEF ToSet
    <2>2. i \in K
        BY <1>2, <1>6, <1>9, <2>1
    <2>3. Rank(K, i) \in 1..Len(new) /\ Nth(K, Rank(K, i)) = i
        BY <1>3, <1>5, <1>6, <2>2, NthIs
    <2>4. new[Rank(K, i)] = l
        BY <1>5, <2>1, <2>3
    <2>q. QED
        BY <1>7, <2>3, <2>4 DEF ToSet
<1>q. QED
    BY <1>1, <1>4, <1>5, <1>8, <1>9

\* Unset.
LEMMA RemovedIs ==
    ASSUME NEW c \in Contents, Tidy(c)
    PROVE  /\ Removed(c) \in Contents /\ Tidy(Removed(c)) /\ Clean(Removed(c))
           /\ c = Missing => Removed(c) = Missing
           /\ \/ Removed(c) = c
              \/ Removed(c) # Missing /\ Own(Removed(c)) = NotLegacy(Own(c))
              \/ /\ Removed(c) = Missing /\ Own(Removed(c)) = <<>>
                 /\ \A l \in ToSet(NotLegacy(Own(c))) : l.kind = "blank"
<1> DEFINE u == UpdateBlock(c, <<>>)
           kept == NotLegacy(Own(c))
           out == RemoveLegacyLines(u)
<1>1. Own(Missing) = <<>> /\ NoBlock(<<>>) /\ <<>> \in Seq(Line) /\ Missing \in Contents
    BY NothingOwned DEF Own, Contents
<1>2. Tidy(Missing) /\ Clean(Missing)
    BY <1>1, ReadIs DEF Clean
<1>3. CASE c = Missing
    BY <1>1, <1>2, <1>3 DEF Removed
<1>4. CASE c # Missing
    <2>1. c \in Content /\ Read(c) = c
        BY <1>4 DEF Contents, Read
    <2>2. Own(c) = OwnOf(c.lines) /\ Own(c) \in Seq(Line) /\ NoBlock(Own(c))
        BY <2>1, ReadIs
    <2>3. u \in Content /\ u.lines = Own(c)
        <3>1. <<>> \in Seq(Inner)
            OBVIOUS
        <3>q. QED
            BY <2>1, <2>2, <3>1, UpdateKeeps
    <2>4. /\ kept \in Seq(Line) /\ NoBlock(kept)
          /\ \A l \in ToSet(kept) : ~Legacy(l)
        BY <2>2, NotLegacyIs
    <2>5. out \in Content /\ out.lines = kept
        <3>1. CASE Len(kept) = Len(u.lines)
            <4>1. out = u
                BY <2>3, <3>1 DEF RemoveLegacyLines
            <4>2. kept = Own(c)
                BY <2>2, <2>3, <3>1, AllKept DEF NotLegacy
            <4>q. QED
                BY <2>3, <4>1, <4>2
        <3>2. CASE Len(kept) # Len(u.lines)
            <4>1. out = Joined(kept)
                BY <2>3, <3>2 DEF RemoveLegacyLines
            <4>q. QED
                BY <2>4, <4>1, JoinedIs
        <3>q. QED
            BY <3>1, <3>2
    <2> HIDE DEF u, out
    <2>6. out # Missing /\ out \in Contents /\ Read(out) = out
        BY <2>5, RcAssumption DEF Contents, Read
    <2>7. Own(out) = kept
        BY <2>4, <2>5, <2>6, ReadIs, AllOwn
    <2>8. Tidy(out) /\ Clean(out)
        BY <2>4, <2>5, <2>6, <2>7, ReadIs, NothingFound DEF Clean
    <2>9. Removed(c) = IF out = c THEN c ELSE IF OnlyBlank(out) THEN Missing ELSE out
        BY <1>4 DEF Removed, out, u
    <2>10. CASE out = c
        BY <1>4, <2>8, <2>9, <2>10
    <2>11. CASE out # c /\ OnlyBlank(out)
        BY <1>1, <1>2, <1>4, <2>5, <2>9, <2>11 DEF OnlyBlank
    <2>12. CASE out # c /\ ~OnlyBlank(out)
        BY <1>4, <2>6, <2>7, <2>8, <2>9, <2>12
    <2>q. QED
        BY <2>10, <2>11, <2>12
<1>q. QED
    BY <1>3, <1>4

\* What a snapshot says of one file.
Record == {s \in [path : Path, existed : BOOLEAN, body : Seq(Inner)] : s.body # <<>> => s.existed}

\* A restore.
LEMMA RestoredIs ==
    ASSUME NEW s \in Record, NEW c \in Contents, Tidy(c)
    PROVE  /\ Restored(s, c) \in Contents /\ Tidy(Restored(s, c))
           /\ Own(Restored(s, c)) = Own(c)
           /\ BlockBody(Read(Restored(s, c))) = s.body
           /\ c = Missing /\ Restored(s, c) # Missing => s.existed
           /\ Restored(s, c) = Missing => Own(c) = <<>> /\ (c = Missing \/ ~s.existed)
           /\ ~s.existed /\ Own(c) = <<>> /\ c # Empty => Restored(s, c) = Missing
           /\ ~s.existed /\ c # Empty => Restored(s, c) # Empty
<1> DEFINE out == UpdateBlock(Read(c), s.body)
<1>1. s.body \in Seq(Inner) /\ (s.body # <<>> => s.existed)
    BY DEF Record
<1>2. Read(c) \in Content /\ Own(c) = OwnOf(Read(c).lines) /\ NoBlock(Own(c)) /\ Own(c) \in Seq(Line)
    BY ReadIs
<1>3. /\ out \in Content /\ OwnOf(out.lines) = Own(c) /\ BlockBody(out) = s.body
      /\ s.body = <<>> => out.lines = Own(c)
    BY <1>1, <1>2, UpdateKeeps
<1>4. Restored(s, c) = IF out # Empty \/ c = Empty THEN out
                       ELSE IF c = Missing \/ ~s.existed THEN Missing ELSE Empty
    BY DEF Restored
<1>0. /\ Own(Missing) = <<>> /\ Missing \in Contents /\ Tidy(Missing) /\ Read(Missing) = Empty
      /\ BlockBody(Empty) = <<>> /\ Empty.lines = <<>> /\ Missing # Empty
    <2>1. Own(Missing) = <<>> /\ Missing \in Contents /\ Read(Missing) = Empty
        BY DEF Own, Contents, Read
    <2>q. QED
        BY <2>1, NothingOwned, ReadIs, RcAssumption DEF Empty, Content
<1> HIDE DEF out
<1>5. out # Missing /\ out \in Contents /\ Read(out) = out
    BY <1>3, RcAssumption DEF Contents, Read
<1>6. Own(out) = Own(c) /\ Tidy(out)
    BY <1>2, <1>3, <1>5, ReadIs
<1>7. CASE out # Empty
    <2>1. ~s.existed /\ Own(c) = <<>> => FALSE
        <3>1. SUFFICES ASSUME s.body = <<>>, Own(c) = <<>>, ~s.existed PROVE out = Empty
            BY <1>1, <1>7
        <3>4. out.lines = <<>> /\ out \in Content
            BY <1>3, <3>1
        <3>2. out.nl = FALSE
            BY <3>4 DEF Content
        <3>3. PICK ls, n : out = [lines |-> ls, nl |-> n]
            BY <3>4 DEF Content
        <3>q. QED
            BY <3>4, <3>2, <3>3 DEF Empty
    <2>2. Restored(s, c) = out
        BY <1>4, <1>7
    <2>q. QED
        BY <1>0, <1>3, <1>5, <1>6, <2>1, <2>2
<1>8. CASE out = Empty
    <2>1. s.body = <<>> /\ Own(c) = <<>>
        BY <1>0, <1>3, <1>6, <1>8
    <2>q. QED
        BY <1>0, <1>3, <1>4, <1>5, <1>6, <1>8, <2>1
<1>q. QED
    BY <1>7, <1>8

-----------------------------------------------------------------------------
(* Which files an operation goes through.                                  *)

LEMMA SetToSeqIs ==
    ASSUME NEW S, IsFiniteSet(S)
    PROVE  SetToSeq(S) \in Seq(S) /\ ToSet(SetToSeq(S)) = S
<1> DEFINE c == Cardinality(S)
           f == SetToSeq(S)
<1>1. c \in Nat /\ ExistsBijection(1..c, S)
    BY FS_CardinalityType
<1>2. f \in [1..c -> S] /\ IsInjective(f)
    <2>1. PICK g : g \in Bijection(1..c, S)
        BY <1>1 DEF ExistsBijection
    <2>2. g \in [1..c -> S] /\ IsInjective(g)
        BY <2>1 DEF Bijection, Injection
    <2> HIDE DEF c
    <2>q. QED
        BY <2>2 DEF SetToSeq, c
<1> HIDE DEF c, f
<1>3. f \in Injection(1..c, S)
    BY <1>2 DEF Injection
<1>4. Cardinality(1..c) = c
    BY <1>1, FS_Interval
<1>5. f \in Surjection(1..c, S)
    BY <1>3, <1>4, FS_Injection DEF c
<1>6. f \in Seq(S) /\ DOMAIN f = 1..c
    BY <1>1, <1>2
<1>7. ToSet(f) = S
    BY <1>5, <1>6 DEF Surjection, ToSet
<1>q. QED
    BY <1>6, <1>7 DEF f

LEMMA InSet ==
    ASSUME NEW S, NEW s \in Seq(S)
    PROVE  /\ ToSet(s) \subseteq S
           /\ \A x : x \in ToSet(s) <=> \E i \in 1..Len(s) : s[i] = x
           /\ s # <<>> => /\ Head(s) \in ToSet(s) /\ Tail(s) \in Seq(S) /\ Len(Tail(s)) = Len(s) - 1
                          /\ Len(s) > 0 /\ \A x \in ToSet(s) : x = Head(s) \/ x \in ToSet(Tail(s))
                          /\ ToSet(Tail(s)) \subseteq ToSet(s)
<1>1. \A x : x \in ToSet(s) <=> \E i \in 1..Len(s) : s[i] = x
    BY DEF ToSet
<1>2. ToSet(s) \subseteq S
    BY <1>1
<1>3. ASSUME s # <<>>
      PROVE  /\ Head(s) \in ToSet(s) /\ Tail(s) \in Seq(S) /\ Len(Tail(s)) = Len(s) - 1
             /\ Len(s) > 0 /\ \A x \in ToSet(s) : x = Head(s) \/ x \in ToSet(Tail(s))
             /\ ToSet(Tail(s)) \subseteq ToSet(s)
    <2> DEFINE t == Tail(s)
    <2>1. /\ Head(s) = s[1] /\ Len(s) > 0 /\ Len(s) \in Nat
          /\ t \in Seq(S) /\ Len(t) = Len(s) - 1 /\ \A i \in 1..Len(t) : t[i] = s[i + 1]
        BY <1>3
    <2> HIDE DEF t
    <2>2. \A x : x \in ToSet(t) <=> \E i \in 1..Len(t) : t[i] = x
        BY <2>1 DEF ToSet
    <2>3. Head(s) \in ToSet(s)
        <3>1. 1 \in 1..Len(s)
            BY <2>1
        <3>q. QED
            BY <1>1, <2>1, <3>1
    <2>4. ASSUME NEW x \in ToSet(s), x # Head(s) PROVE x \in ToSet(t)
        <3>1. PICK i \in 1..Len(s) : s[i] = x
            BY <1>1
        <3>2. i # 1
            BY <2>1, <2>4, <3>1
        <3>3. i - 1 \in 1..Len(t) /\ (i - 1) + 1 = i
            BY <2>1, <3>2
        <3>4. t[i - 1] = s[(i - 1) + 1]
            BY <2>1, <3>3
        <3>q. QED
            BY <2>2, <3>1, <3>3, <3>4
    <2>5. ASSUME NEW x \in ToSet(t) PROVE x \in ToSet(s)
        <3>1. PICK i \in 1..Len(t) : t[i] = x
            BY <2>2
        <3>2. i + 1 \in 1..Len(s)
            BY <2>1
        <3>q. QED
            BY <1>1, <2>1, <3>1, <3>2
    <2>q. QED
        BY <2>1, <2>3, <2>4, <2>5 DEF t
<1>q. QED
    BY <1>1, <1>2, <1>3

LEMMA Together ==
    ASSUME NEW S, NEW a \in Seq(S), NEW b \in Seq(S)
    PROVE  ToSet(a \o b) = ToSet(a) \cup ToSet(b)
<1> DEFINE c == a \o b
<1>1. /\ c \in Seq(S) /\ Len(c) = Len(a) + Len(b) /\ Len(a) \in Nat /\ Len(b) \in Nat
      /\ \A n \in 1..Len(a) : c[n] = a[n]
      /\ \A n \in 1..Len(b) : c[Len(a) + n] = b[n]
    BY Concatenated
<1> HIDE DEF c
<1>2. /\ \A x : x \in ToSet(a) <=> \E i \in 1..Len(a) : a[i] = x
      /\ \A x : x \in ToSet(b) <=> \E i \in 1..Len(b) : b[i] = x
      /\ \A x : x \in ToSet(c) <=> \E i \in 1..Len(c) : c[i] = x
    BY <1>1, InSet
<1>3. ASSUME NEW x \in ToSet(c) PROVE x \in ToSet(a) \/ x \in ToSet(b)
    <2>1. PICK i \in 1..Len(c) : c[i] = x
        BY <1>2
    <2>2. CASE i <= Len(a)
        <3>1. i \in 1..Len(a)
            BY <1>1, <2>2
        <3>q. QED
            BY <1>1, <1>2, <2>1, <3>1
    <2>3. CASE ~(i <= Len(a))
        <3>1. i - Len(a) \in 1..Len(b) /\ Len(a) + (i - Len(a)) = i
            BY <1>1, <2>3
        <3>2. c[Len(a) + (i - Len(a))] = b[i - Len(a)]
            BY <1>1, <3>1
        <3>q. QED
            BY <1>2, <2>1, <3>1, <3>2
    <2>q. QED
        BY <2>2, <2>3
<1>4. ASSUME NEW x \in ToSet(a) PROVE x \in ToSet(c)
    <2>1. PICK i \in 1..Len(a) : a[i] = x
        BY <1>2
    <2>2. i \in 1..Len(c)
        BY <1>1
    <2>q. QED
        BY <1>1, <1>2, <2>1, <2>2
<1>5. ASSUME NEW x \in ToSet(b) PROVE x \in ToSet(c)
    <2>1. PICK i \in 1..Len(b) : b[i] = x
        BY <1>2
    <2>2. Len(a) + i \in 1..Len(c)
        BY <1>1
    <2>q. QED
        BY <1>1, <1>2, <2>1, <2>2
<1>q. QED
    BY <1>3, <1>4, <1>5 DEF c

LEMMA AppendedSet ==
    ASSUME NEW S, NEW s \in Seq(S), NEW x \in S
    PROVE  ToSet(Append(s, x)) = ToSet(s) \cup {x}
<1> DEFINE t == Append(s, x)
<1>1. t \in Seq(S) /\ Len(t) = Len(s) + 1 /\ t[Len(s) + 1] = x /\ \A i \in 1..Len(s) : t[i] = s[i]
    OBVIOUS
<1> HIDE DEF t
<1>2. /\ \A y : y \in ToSet(t) <=> \E i \in 1..Len(t) : t[i] = y
      /\ \A y : y \in ToSet(s) <=> \E i \in 1..Len(s) : s[i] = y
    BY <1>1, InSet
<1>3. /\ Len(s) \in Nat /\ Len(s) + 1 \in 1..Len(t)
      /\ \A i \in 1..Len(t) : i \in 1..Len(s) \/ i = Len(s) + 1
      /\ \A i \in 1..Len(s) : i \in 1..Len(t)
    <2>1. Len(s) \in Nat
        OBVIOUS
    <2>q. QED
        BY <1>1, <2>1
<1>q. QED
    BY <1>1, <1>2, <1>3 DEF t

LEMMA PathsAre ==
    /\ RcPaths \in Seq(Path) /\ Len(RcPaths) \in Nat /\ Len(RcPaths) > 0
    /\ ToSet(RcPaths) \subseteq Path /\ Zshrc \in Path /\ DefaultRC \in Path
<1>1. RcPaths \in Seq(ToSet(RcPaths)) /\ Zshrc \in ToSet(RcPaths) /\ DefaultRC \in ToSet(RcPaths)
    BY RcAssumption
<1>2. ToSet(RcPaths) \subseteq Path
    BY DEF Path
<1>3. RcPaths # <<>>
    BY <1>1 DEF ToSet
<1> DEFINE S == ToSet(RcPaths)
<1> HIDE DEF S
<1>4. RcPaths \in Seq(S) /\ S \subseteq Path
    BY <1>1, <1>2 DEF S
<1>5. RcPaths \in Seq(Path)
    BY <1>4
<1>q. QED
    BY <1>1, <1>2, <1>3, <1>5

LEMMA RemoveTargetsAre ==
    /\ RemoveTargets \in Seq(Path) /\ ToSet(RemoveTargets) = Path
    /\ Len(RemoveTargets) \in Nat /\ Len(RcPaths) <= Len(RemoveTargets)
<1> DEFINE old == OldZshrc \ ToSet(RcPaths)
           s == SetToSeq(old)
<1>1. IsFiniteSet(old)
    BY RcAssumption, FS_Subset
<1>2. s \in Seq(old) /\ ToSet(s) = old
    BY <1>1, SetToSeqIs
<1>3. old \subseteq Path /\ Path = ToSet(RcPaths) \cup old
    BY DEF Path
<1>4. RemoveTargets = RcPaths \o s
    BY DEF RemoveTargets
<1> HIDE DEF old, s
<1>5. s \in Seq(Path)
    BY <1>2, <1>3
<1>6. /\ RcPaths \o s \in Seq(Path) /\ Len(RcPaths \o s) = Len(RcPaths) + Len(s)
      /\ Len(RcPaths) \in Nat /\ Len(s) \in Nat /\ ToSet(RcPaths \o s) = ToSet(RcPaths) \cup ToSet(s)
    BY <1>5, PathsAre, Concatenated, Together
<1>q. QED
    BY <1>2, <1>3, <1>4, <1>6

\* What rcTargets chooses: every file there is, and at most one that is not.
LEMMA TargetsAre ==
    /\ RcTargets \in Seq(Path) /\ RcTargets # <<>> /\ Len(RcTargets) <= Len(RemoveTargets)
    /\ ToSet(RcTargets) \subseteq ToSet(RcPaths)
    /\ \A f \in ToSet(RcPaths) : file[f] # Missing => f \in ToSet(RcTargets)
    /\ shell = "zsh" => Zshrc \in ToSet(RcTargets)
    /\ \A f \in ToSet(RcTargets) :
          \/ file[f] # Missing
          \/ shell = "zsh" /\ f = Zshrc
          \/ shell # "zsh" /\ f = DefaultRC /\ \A g \in ToSet(RcPaths) : file[g] = Missing
<1> DEFINE drop == {i \in DOMAIN RcPaths : file[RcPaths[i]] = Missing}
           exist == Without(RcPaths, drop)
           zsh == IF shell = "zsh" /\ file[Zshrc] = Missing THEN <<Zshrc>> ELSE <<>>
           K == Rest(Len(RcPaths), drop)
           both == exist \o zsh
<1>1. /\ RcPaths \in Seq(Path) /\ Len(RcPaths) \in Nat /\ Len(RcPaths) > 0
      /\ Zshrc \in Path /\ DefaultRC \in Path
      /\ Zshrc \in ToSet(RcPaths) /\ DefaultRC \in ToSet(RcPaths)
      /\ \A x : x \in ToSet(RcPaths) <=> \E i \in 1..Len(RcPaths) : RcPaths[i] = x
    <2>1. RcPaths \in Seq(Path) /\ Len(RcPaths) \in Nat /\ Len(RcPaths) > 0 /\ Zshrc \in Path /\ DefaultRC \in Path
        BY PathsAre
    <2>2. \A x : x \in ToSet(RcPaths) <=> \E i \in 1..Len(RcPaths) : RcPaths[i] = x
        BY <2>1, InSet
    <2>q. QED
        BY <2>1, <2>2, RcAssumption
<1>2. RcTargets = IF both = <<>> THEN <<DefaultRC>> ELSE both
    BY DEF RcTargets
<1>3. \A i \in 1..Len(RcPaths) : i \in drop <=> file[RcPaths[i]] = Missing
    BY <1>1
<1>4. /\ zsh \in Seq(Path) /\ Len(zsh) \in {0, 1}
      /\ \A x \in ToSet(zsh) : x = Zshrc /\ shell = "zsh" /\ file[Zshrc] = Missing
      /\ Len(zsh) = 1 => shell = "zsh" /\ file[Zshrc] = Missing
      /\ shell = "zsh" /\ file[Zshrc] = Missing => Zshrc \in ToSet(zsh)
    <2>1. CASE shell = "zsh" /\ file[Zshrc] = Missing
        <3>1. zsh = <<Zshrc>>
            BY <2>1
        <3>2. zsh \in Seq(Path) /\ Len(zsh) = 1 /\ ToSet(zsh) = {Zshrc}
            BY <1>1, <3>1 DEF ToSet
        <3>q. QED
            BY <2>1, <3>2
    <2>2. CASE ~(shell = "zsh" /\ file[Zshrc] = Missing)
        <3>1. zsh = <<>>
            BY <2>2
        <3>2. zsh \in Seq(Path) /\ Len(zsh) = 0 /\ ToSet(zsh) = {}
            BY <3>1 DEF ToSet
        <3>q. QED
            BY <2>2, <3>2
    <2>q. QED
        BY <2>1, <2>2
<1> HIDE DEF drop, zsh
<1>5. /\ exist \in Seq(Path) /\ Len(exist) = Cardinality(K)
      /\ \A n \in 1..Len(exist) : Nth(K, n) \in K /\ exist[n] = RcPaths[Nth(K, n)]
    BY <1>1, WithoutType
<1>6. K \in SUBSET (1..Len(RcPaths)) /\ \A i \in 1..Len(RcPaths) : i \in K <=> i \notin drop
    BY DEF Rest
<1> HIDE DEF exist, K
<1>7. /\ Len(exist) \in Nat /\ Len(exist) <= Len(RcPaths)
      /\ Len(exist) = Len(RcPaths) => K = 1..Len(RcPaths)
    <2> DEFINE L == Len(RcPaths)
    <2>1. L \in Nat /\ K \in SUBSET (1..L)
        BY <1>1, <1>6
    <2> HIDE DEF L
    <2>2. IsFiniteSet(1..L) /\ Cardinality(1..L) = L
        BY <2>1, FirstNumbers
    <2>3. Cardinality(K) <= Cardinality(1..L) /\ (Cardinality(1..L) = Cardinality(K) => 1..L = K)
        BY <2>1, <2>2, FS_Subset
    <2>q. QED
        BY <1>5, <2>2, <2>3 DEF L
<1>8. \A x : x \in ToSet(exist) <=> x \in ToSet(RcPaths) /\ file[x] # Missing
    <2>1. \A x : x \in ToSet(exist) <=> \E n \in 1..Len(exist) : exist[n] = x
        BY <1>5, InSet
    <2>2. ASSUME NEW x \in ToSet(exist) PROVE x \in ToSet(RcPaths) /\ file[x] # Missing
        <3>1. PICK n \in 1..Len(exist) : exist[n] = x
            BY <2>1
        <3>2. Nth(K, n) \in 1..Len(RcPaths) /\ Nth(K, n) \notin drop /\ x = RcPaths[Nth(K, n)]
            BY <1>5, <1>6, <3>1
        <3>q. QED
            BY <1>1, <1>3, <3>2
    <2>3. ASSUME NEW x \in ToSet(RcPaths), file[x] # Missing PROVE x \in ToSet(exist)
        <3>1. PICK i \in 1..Len(RcPaths) : RcPaths[i] = x
            BY <1>1
        <3>2. i \in K
            BY <1>3, <1>6, <2>3, <3>1
        <3>3. Rank(K, i) \in 1..Len(exist) /\ Nth(K, Rank(K, i)) = i
            BY <1>1, <1>5, <1>6, <3>2, NthIs
        <3>q. QED
            BY <1>5, <2>1, <3>1, <3>3
    <2>q. QED
        BY <2>2, <2>3
<1>9. /\ both \in Seq(Path) /\ Len(both) = Len(exist) + Len(zsh)
      /\ ToSet(both) = ToSet(exist) \cup ToSet(zsh)
    <2> HIDE DEF zsh
    <2>1. exist \in Seq(Path) /\ zsh \in Seq(Path)
        BY <1>4, <1>5
    <2>2. exist \o zsh \in Seq(Path) /\ Len(exist \o zsh) = Len(exist) + Len(zsh)
        BY <2>1, Concatenated
    <2>3. ToSet(exist \o zsh) = ToSet(exist) \cup ToSet(zsh)
        BY <2>1, Together
    <2>q. QED
        BY <2>2, <2>3
\* A .zshrc that is not there is not among those that are.
<1>10. Len(both) <= Len(RcPaths)
    <2>1. CASE Len(exist) = Len(RcPaths)
        <3>1. \A i \in 1..Len(RcPaths) : file[RcPaths[i]] # Missing
            BY <1>3, <1>6, <1>7, <2>1
        <3>2. file[Zshrc] # Missing
            BY <1>1, <3>1
        <3>q. QED
            BY <1>4, <1>7, <1>9, <3>2
    <2>2. CASE Len(exist) # Len(RcPaths)
        <3>1. Len(exist) + 1 <= Len(RcPaths)
            BY <1>1, <1>7, <2>2
        <3>2. Len(zsh) = 0 \/ Len(zsh) = 1
            BY <1>4
        <3>3. Len(both) = Len(exist) + Len(zsh)
            BY <1>9
        <3>4. Len(exist) \in Nat /\ Len(RcPaths) \in Nat
            BY <1>1, <1>7
        <3>5. PICK x, y, z, l : x = Len(exist) /\ y = Len(zsh) /\ z = Len(both) /\ l = Len(RcPaths)
            OBVIOUS
        <3>6. x \in Nat /\ l \in Nat /\ x + 1 <= l /\ (y = 0 \/ y = 1) /\ z = x + y
            BY <3>1, <3>2, <3>3, <3>4, <3>5
        <3>7. z <= l
            BY <3>6
        <3>q. QED
            BY <3>5, <3>7
    <2>q. QED
        BY <2>1, <2>2
<1> HIDE DEF both
<1>11. Len(RcPaths) <= Len(RemoveTargets) /\ Len(RemoveTargets) \in Nat
    BY RemoveTargetsAre
<1>12. CASE both = <<>>
    <2>1. RcTargets = <<DefaultRC>> /\ ToSet(both) = {}
        BY <1>2, <1>12 DEF ToSet
    <2>2. RcTargets \in Seq(Path) /\ RcTargets # <<>> /\ Len(RcTargets) = 1 /\ ToSet(RcTargets) = {DefaultRC}
        BY <1>1, <2>1 DEF ToSet
    <2>3. \A f \in ToSet(RcPaths) : file[f] = Missing
        BY <1>8, <1>9, <2>1
    <2>4. shell # "zsh"
        BY <1>1, <1>4, <1>9, <2>1, <2>3
    <2>q. QED
        BY <1>1, <1>11, <2>2, <2>3, <2>4
<1>13. CASE both # <<>>
    <2>1. RcTargets = both
        BY <1>2, <1>13
    <2>2. ToSet(both) \subseteq ToSet(RcPaths)
        BY <1>1, <1>4, <1>8, <1>9
    <2>3. Len(both) <= Len(RemoveTargets)
        BY <1>4, <1>7, <1>9, <1>10, <1>11
    <2>4. shell = "zsh" => Zshrc \in ToSet(both)
        BY <1>1, <1>4, <1>8, <1>9
    <2>q. QED
        BY <1>1, <1>4, <1>8, <1>9, <1>13, <2>1, <2>2, <2>3, <2>4
<1>q. QED
    BY <1>12, <1>13

-----------------------------------------------------------------------------
(* Types.                                                                  *)

LEMMA UpdateType ==
    ASSUME NEW c \in Content, NEW body \in Seq(Inner) PROVE UpdateBlock(c, body) \in Content
<1>1. CASE FindBlocks(c.lines) = <<>> /\ body = <<>>
    BY <1>1 DEF UpdateBlock
<1>2. CASE ~(FindBlocks(c.lines) = <<>> /\ body = <<>>)
    <2>1. PICK a \in Seq(Line), b \in Seq(Line) :
              UpdateBlock(c, body) = Joined(a \o Written(c, body) \o b)
        BY <1>2, UpdateIs
    <2>2. Written(c, body) \in Seq(Line)
        BY WrittenIs
    <2>3. a \o Written(c, body) \o b \in Seq(Line)
        BY <2>2, ThreeParts
    <2>q. QED
        BY <2>1, <2>3, JoinedIs
<1>q. QED
    BY <1>1, <1>2

RestoreOps == {[name |-> "restore", arg |-> a] : a \in UNION {[D -> Record] : D \in SUBSET Path}}
Named      == Operations \cup RestoreOps

LEMMA NamesAre ==
    ASSUME NEW o \in Named
    PROVE  /\ o # Idle
           /\ o \in Operations => o.name \in {"set", "unset", "pac", "multi"}
           /\ o \in RestoreOps => o.name = "restore" /\ DOMAIN o.arg \subseteq Path
                                  /\ \A f \in DOMAIN o.arg : o.arg[f] \in Record
<1>1. ASSUME o \in Operations PROVE o.name \in {"set", "unset", "pac", "multi"} /\ o # Idle
    BY <1>1 DEF Operations, Idle
<1>2. ASSUME o \in RestoreOps
      PROVE  /\ o.name = "restore" /\ DOMAIN o.arg \subseteq Path /\ o # Idle
             /\ \A f \in DOMAIN o.arg : o.arg[f] \in Record
    <2>1. PICK a \in UNION {[D -> Record] : D \in SUBSET Path} : o = [name |-> "restore", arg |-> a]
        BY <1>2 DEF RestoreOps
    <2>2. PICK D \in SUBSET Path : a \in [D -> Record]
        OBVIOUS
    <2>q. QED
        BY <2>1, <2>2 DEF Idle
<1>q. QED
    BY <1>1, <1>2 DEF Named

LEMMA TargetType ==
    ASSUME NEW o \in Named, NEW f, o \in RestoreOps => f \in DOMAIN o.arg, NEW c \in Contents
    PROVE  Target(o, f, c) \in Contents
<1>1. Read(c) \in Content /\ Own(c) \in Seq(Line) /\ Missing \in Contents /\ Empty \in Contents
    BY ReadIs DEF Contents, Empty, Content
<1>2. \A b \in Seq(Inner) : UpdateBlock(Read(c), b) \in Content
    BY <1>1, UpdateType
<1>3. CASE o \in RestoreOps
    <2>1. o.name = "restore" /\ o.arg[f] \in Record
        BY <1>3, NamesAre
    <2>2. UpdateBlock(Read(c), o.arg[f].body) \in Content
        BY <1>2, <2>1 DEF Record
    <2>q. QED
        BY <1>1, <2>1, <2>2 DEF Target, Restored, Contents
<1>4. CASE o \in Operations /\ o.name # "unset"
    <2>1. NewBody(o, c) \in Seq(Inner)
        <3>1. DropIfUserDefined(Body(o), Read(c), Yield(o)) \in Seq(Inner)
            BY <1>4, BodyType, YieldInner
        <3>2. BlockBody(Read(c)) \in Seq(Inner)
            BY <1>1, BodyInner
        <3>q. QED
            BY <3>1, <3>2, MergeInner DEF NewBody
    <2>2. Target(o, f, c) = UpdateBlock(Read(c), NewBody(o, c))
        BY <1>4, NamesAre DEF Target, Applied, NewBody
    <2>q. QED
        BY <1>2, <2>1, <2>2 DEF Contents
<1>5. CASE o \in Operations /\ o.name = "unset"
    <2> DEFINE u == UpdateBlock(c, <<>>)
    <2>1. Target(o, f, c) = Removed(c)
        BY <1>5 DEF Target
    <2>2. CASE c = Missing
        BY <2>1, <2>2 DEF Removed
    <2>3. CASE c # Missing
        <3>1. u \in Content
            <4>1. c = Read(c) /\ <<>> \in Seq(Inner)
                BY <2>3 DEF Read
            <4>q. QED
                BY <1>2, <4>1
        <3> HIDE DEF u
        <3>2. u.lines \in Seq(Line)
            BY <3>1 DEF Content
        <3>3. RemoveLegacyLines(u) \in Content
            <4>1. NotLegacy(u.lines) \in Seq(Line)
                BY <3>2, WithoutType DEF NotLegacy
            <4>q. QED
                BY <3>1, <4>1, JoinedIs DEF RemoveLegacyLines
        <3>4. Removed(c) \in {c, Missing, RemoveLegacyLines(u)}
            BY <2>3 DEF Removed, u
        <3>q. QED
            BY <1>1, <2>1, <3>3, <3>4 DEF Contents
    <2>q. QED
        BY <2>2, <2>3
<1>q. QED
    BY <1>3, <1>4, <1>5 DEF Named

Budget == ops \in 0..MaxOps /\ {faults, edits, crashes} \subseteq Nat
          /\ faults + edits + crashes <= MaxTrouble

\* What each goroutine has.
Busy(p) ==
    /\ op[p] \in Named \cup {Idle}
    /\ todo[p] \in Seq(Path)
    /\ op[p] \in RestoreOps => ToSet(todo[p]) \subseteq DOMAIN op[p].arg
    /\ written[p] \in Nat /\ written[p] + Len(todo[p]) <= Len(RemoveTargets)

Remembers(p) == /\ snaps[p].of \in Seq(Record)
                /\ Len(snaps[p].of) <= Len(RemoveTargets)

Typed ==
    /\ shell \in Shells /\ file \in [Path -> Contents]
    /\ errs \in [Proc -> Error] /\ written \in [Proc -> Nat] /\ DOMAIN snaps = Proc /\ DOMAIN last = Proc
    /\ \A p \in Proc : Busy(p) /\ Remembers(p)
    /\ Budget

AllInv == Inv /\ Typed

\* The write of a file, in one line: the targets of a restore and an Unset
\* that change nothing are what is there.
LEMMA WriteIs ==
    ASSUME AllInv, NEW p \in Proc, WriteFile(p)
    PROVE  /\ todo[p] # <<>> /\ Head(todo[p]) \in Path /\ Head(todo[p]) \in ToSet(todo[p])
           /\ op[p] \in Named
           /\ op[p] \in RestoreOps => Head(todo[p]) \in DOMAIN op[p].arg
           /\ file' = [file EXCEPT ![Head(todo[p])] = Target(op[p], Head(todo[p]), file[Head(todo[p])])]
<1> DEFINE f == Head(todo[p])
<1>1. buf[p] # Unread
    BY DEF WriteFile
<1>2. todo[p] # <<>> /\ op[p] # Idle /\ Head(buf[p]) = file[f]
    BY <1>1 DEF AllInv, Inv, Orderly, MutexInv, LockProtects
<1>3. todo[p] \in Seq(Path) /\ op[p] \in Named
    BY <1>2 DEF AllInv, Typed, Busy
<1>4. f \in Path /\ f \in ToSet(todo[p])
    BY <1>2, <1>3, InSet
<1>5. file' = [file EXCEPT ![f] = IF Writes(op[p], f, file[f]) THEN Target(op[p], f, file[f]) ELSE file[f]]
    BY <1>2 DEF WriteFile
<1>6. (IF Writes(op[p], f, file[f]) THEN Target(op[p], f, file[f]) ELSE file[f]) = Target(op[p], f, file[f])
    BY DEF Writes
<1>7. op[p] \in RestoreOps => f \in DOMAIN op[p].arg
    BY <1>4 DEF AllInv, Typed, Busy
<1>q. QED
    BY <1>2, <1>3, <1>4, <1>5, <1>6, <1>7

LEMMA SnapshotType ==
    ASSUME AllInv, NEW p \in Proc, Snapshot(p)
    PROVE  /\ snaps'[p].of \in Seq(Record) /\ Len(snaps'[p].of) = Len(RcTargets)
           /\ snaps'[p].open
           /\ \A i \in 1..Len(RcTargets) :
                 snaps'[p].of[i] = [path |-> RcTargets[i], existed |-> file[RcTargets[i]] # Missing,
                                    body |-> BlockBody(Read(file[RcTargets[i]]))]
<1> DEFINE T == RcTargets
           rec(i) == [path |-> T[i], existed |-> file[T[i]] # Missing, body |-> BlockBody(Read(file[T[i]]))]
<1>1. T \in Seq(Path)
    BY TargetsAre
<1>2. snaps' = [snaps EXCEPT ![p] = [open |-> TRUE, of |-> [i \in DOMAIN T |-> rec(i)]]]
    BY DEF Snapshot
<1>3. DOMAIN snaps = Proc /\ file \in [Path -> Contents]
    BY DEF AllInv, Typed
<1> HIDE DEF T
<1>8. DOMAIN T = 1..Len(T)
    BY <1>1
<1>4. snaps'[p] = [open |-> TRUE, of |-> [i \in 1..Len(T) |-> rec(i)]]
    <2> DEFINE r == [open |-> TRUE, of |-> [i \in 1..Len(T) |-> rec(i)]]
    <2>1. snaps' = [snaps EXCEPT ![p] = r]
        BY <1>2, <1>8
    <2> HIDE DEF r
    <2>2. snaps'[p] = r
        BY <1>3, <2>1
    <2>q. QED
        BY <2>2 DEF r
<1>5. ASSUME NEW i \in 1..Len(T) PROVE rec(i) \in Record
    <2>1. T[i] \in Path /\ file[T[i]] \in Contents
        BY <1>1, <1>3
    <2>2. BlockBody(Read(file[T[i]])) \in Seq(Inner)
        BY <2>1, ReadIs, BodyInner
    <2>3. file[T[i]] = Missing => BlockBody(Read(file[T[i]])) = <<>>
        BY NothingOwned DEF Read
    <2>q. QED
        BY <2>1, <2>2, <2>3 DEF Record
<1>6. [i \in 1..Len(T) |-> rec(i)] \in [1..Len(T) -> Record] /\ Len(T) \in Nat
    BY <1>1, <1>5
<1>7. [i \in 1..Len(T) |-> rec(i)] \in Seq(Record) /\ Len([i \in 1..Len(T) |-> rec(i)]) = Len(T)
    BY <1>6, IsSequence
<1>q. QED
    BY <1>4, <1>7 DEF T

\* What a restore gets from the snapshot.
LEMMA RestoreType ==
    ASSUME AllInv, NEW p \in Proc, Restore(p)
    PROVE  /\ op'[p] \in RestoreOps
           /\ todo'[p] \in Seq(Path) /\ Len(todo'[p]) = Len(snaps[p].of)
           /\ ToSet(todo'[p]) = DOMAIN op'[p].arg
           /\ \A f \in DOMAIN op'[p].arg : op'[p].arg[f] \in ToSet(snaps[p].of) /\ op'[p].arg[f].path = f
<1> DEFINE of == snaps[p].of
           D == {s.path : s \in ToSet(of)}
           a == [f \in D |-> CHOOSE s \in ToSet(of) : s.path = f]
           t == [i \in DOMAIN of |-> of[i].path]
<1>1. of \in Seq(Record)
    BY DEF AllInv, Typed, Remembers
<1>2. op'[p] = [name |-> "restore", arg |-> a] /\ todo'[p] = t
    BY DEF Restore, Begin, AllInv, Inv, Orderly
<1> HIDE DEF of
<1>3. ToSet(of) \subseteq Record /\ \A x : x \in ToSet(of) <=> \E i \in 1..Len(of) : of[i] = x
    BY <1>1, InSet
<1>4. D \in SUBSET Path
    BY <1>3 DEF Record
<1>5. \A f \in D : a[f] \in ToSet(of) /\ a[f].path = f
    OBVIOUS
<1>6. a \in [D -> Record]
    BY <1>3, <1>5
<1>7. op'[p] \in RestoreOps /\ op'[p].arg = a /\ DOMAIN a = D
    <2>1. DOMAIN a = D
        OBVIOUS
    <2> HIDE DEF a, D
    <2>2. op'[p].arg = a
        BY <1>2
    <2>3. a \in UNION {[E -> Record] : E \in SUBSET Path}
        BY <1>4, <1>6
    <2>q. QED
        BY <1>2, <2>1, <2>2, <2>3 DEF RestoreOps
<1>8. /\ t \in Seq(Path) /\ Len(t) = Len(of) /\ \A i \in 1..Len(of) : t[i] = of[i].path
    <2>1. t = [i \in 1..Len(of) |-> of[i].path] /\ Len(of) \in Nat
        BY <1>1
    <2>2. t \in [1..Len(of) -> Path]
        BY <1>1, <2>1 DEF Record
    <2>q. QED
        BY <2>1, <2>2, IsSequence
<1> HIDE DEF t
<1>9. ToSet(t) = D
    <2>1. \A x : x \in ToSet(t) <=> \E i \in 1..Len(t) : t[i] = x
        BY <1>8, InSet
    <2>2. \A x : x \in D <=> \E i \in 1..Len(of) : of[i].path = x
        BY <1>3
    <2>q. QED
        BY <1>8, <2>1, <2>2
<1>q. QED
    BY <1>2, <1>5, <1>7, <1>8, <1>9 DEF of

LEMMA TypedInit == Init => Typed
<1> SUFFICES ASSUME Init PROVE Typed
    OBVIOUS
<1>1. file \in [Path -> Contents] /\ shell \in Shells
    BY RcAssumption DEF Init, Contents
<1>2. Len(RemoveTargets) \in Nat /\ MaxOps \in Nat /\ MaxTrouble \in Nat
    BY RemoveTargetsAre, RcAssumption
<1>3. ASSUME NEW p \in Proc PROVE Busy(p) /\ Remembers(p)
    <2>1. op[p] = Idle /\ todo[p] = <<>> /\ errs[p] = Nil /\ written[p] = 0 /\ snaps[p] = NoSnap
        BY DEF Init
    <2>2. Idle \notin RestoreOps
        BY NamesAre DEF Named
    <2>q. QED
        BY <1>2, <2>1, <2>2 DEF Busy, Remembers, NoSnap, Error, Nil
<1>4. Budget
    BY <1>2 DEF Init, Budget
<1>5. errs \in [Proc -> Error] /\ written \in [Proc -> Nat]
    BY DEF Init, Nil, Error
<1>q. QED
    BY <1>1, <1>3, <1>4, <1>5 DEF Init, Typed

LEMMA BusyStays ==
    ASSUME NEW p \in Proc, Busy(p), op'[p] = op[p], todo'[p] = todo[p], written'[p] = written[p]
    PROVE  Busy(p)'
BY DEF Busy

\* An operation begins.
LEMMA BeginType ==
    ASSUME AllInv, NEW p \in Proc, NEW o \in Named, NEW paths \in Seq(Path), Begin(p, o, paths),
           Len(paths) <= Len(RemoveTargets), o \in RestoreOps => ToSet(paths) \subseteq DOMAIN o.arg
    PROVE  /\ \A q \in Proc : Busy(q)' /\ Remembers(q)'
           /\ errs' \in [Proc -> Error] /\ written' \in [Proc -> Nat] /\ DOMAIN last' = Proc
<1>1. /\ DOMAIN op = Proc /\ DOMAIN todo = Proc /\ errs \in [Proc -> Error] /\ written \in [Proc -> Nat]
      /\ DOMAIN last = Proc /\ \A q \in Proc : Busy(q) /\ Remembers(q)
    BY DEF AllInv, Inv, Orderly, Typed
<1>2. op'[p] = o /\ todo'[p] = paths /\ errs'[p] = Nil /\ written'[p] = 0
    BY <1>1 DEF Begin
<1>3. Busy(p)'
    <2>1. Len(paths) \in Nat /\ Len(RemoveTargets) \in Nat
        BY RemoveTargetsAre
    <2>q. QED
        BY <1>2, <2>1 DEF Busy, Error, Nil
<1>4. ASSUME NEW q \in Proc, q # p PROVE Busy(q)'
    BY <1>1, <1>4, BusyStays DEF Begin
<1>5. \A q \in Proc : Remembers(q)'
    BY <1>1 DEF Begin, Remembers
<1>6. errs' \in [Proc -> Error] /\ written' \in [Proc -> Nat] /\ DOMAIN last' = Proc
    <2>1. Nil \in Error /\ 0 \in Nat
        BY DEF Nil, Error
    <2>q. QED
        BY <1>1, <2>1 DEF Begin
<1>q. QED
    BY <1>3, <1>4, <1>5, <1>6

\* A goroutine goes on to its next file.
LEMMA NextFileType ==
    ASSUME AllInv, NEW p \in Proc, todo[p] # <<>>, NextFile(p), UNCHANGED <<op, snaps>>,
           NEW w \in {0, 1}, written' = [written EXCEPT ![p] = @ + w],
           errs' = errs \/ errs' = [errs EXCEPT ![p] = Hard]
    PROVE  /\ \A q \in Proc : Busy(q)' /\ Remembers(q)'
           /\ errs' \in [Proc -> Error] /\ written' \in [Proc -> Nat]
<1>1. /\ DOMAIN op = Proc /\ DOMAIN todo = Proc /\ errs \in [Proc -> Error] /\ written \in [Proc -> Nat]
      /\ \A q \in Proc : Busy(q) /\ Remembers(q)
    BY DEF AllInv, Inv, Orderly, Typed
<1>2. /\ todo'[p] = Tail(todo[p]) /\ written'[p] = written[p] + w
      /\ errs'[p] = errs[p] \/ errs'[p] = Hard
    BY <1>1 DEF NextFile
<1>3. /\ Tail(todo[p]) \in Seq(Path) /\ Len(Tail(todo[p])) = Len(todo[p]) - 1
      /\ ToSet(Tail(todo[p])) \subseteq ToSet(todo[p]) /\ Len(todo[p]) \in Nat
    <2>1. todo[p] \in Seq(Path)
        BY <1>1 DEF Busy
    <2>q. QED
        BY <2>1, InSet
<1>4. Busy(p)'
    <2>1. written'[p] \in Nat /\ written'[p] + Len(todo'[p]) <= Len(RemoveTargets)
        <3>1. written[p] \in Nat /\ written[p] + Len(todo[p]) <= Len(RemoveTargets) /\ Len(RemoveTargets) \in Nat
            BY <1>1, RemoveTargetsAre DEF Busy
        <3>2. Len(todo'[p]) = Len(todo[p]) - 1
            BY <1>2, <1>3
        <3>3. PICK x, y, z : x = Len(todo[p]) /\ y = Len(todo'[p]) /\ z = Len(RemoveTargets)
            OBVIOUS
        <3>4. x \in Nat /\ z \in Nat /\ y = x - 1 /\ written[p] + x <= z
            BY <1>3, <3>1, <3>2, <3>3
        <3>5. written'[p] \in Nat /\ written'[p] + y <= z
            BY <1>2, <3>1, <3>4
        <3>q. QED
            BY <3>3, <3>5
    <2>2. op'[p] \in RestoreOps => ToSet(todo'[p]) \subseteq DOMAIN op'[p].arg
        BY <1>1, <1>2, <1>3 DEF Busy
    <2>q. QED
        BY <1>1, <1>2, <1>3, <2>1, <2>2 DEF Busy
<1>5. ASSUME NEW q \in Proc, q # p PROVE Busy(q)'
    <2>1. op'[q] = op[q] /\ todo'[q] = todo[q] /\ written'[q] = written[q]
        BY <1>1, <1>5 DEF NextFile
    <2>q. QED
        BY <1>1, <2>1, BusyStays
<1>6. \A q \in Proc : Remembers(q)'
    BY <1>1 DEF Remembers
<1>7. errs' \in [Proc -> Error] /\ written' \in [Proc -> Nat]
    <2>1. Hard \in Error /\ \A n \in Nat : n + w \in Nat
        BY DEF Hard, Error, ErrClass
    <2>q. QED
        BY <1>1, <2>1
<1>q. QED
    BY <1>4, <1>5, <1>6, <1>7

LEMMA FileType ==
    ASSUME file \in [Path -> Contents], NEW f \in Path, NEW c \in Contents, file' = [file EXCEPT ![f] = c]
    PROVE  file' \in [Path -> Contents]
OBVIOUS

LEMMA TypedStep == AllInv /\ [Next]_vars => Typed'
<1> SUFFICES ASSUME AllInv, [Next]_vars PROVE Typed'
    OBVIOUS
<1> USE DEF local, bounds
<1>0. /\ shell \in Shells /\ file \in [Path -> Contents]
      /\ errs \in [Proc -> Error] /\ written \in [Proc -> Nat] /\ DOMAIN snaps = Proc /\ DOMAIN last = Proc
      /\ DOMAIN op = Proc /\ DOMAIN todo = Proc
      /\ \A q \in Proc : Busy(q) /\ Remembers(q)
      /\ Budget /\ MaxOps \in Nat /\ MaxTrouble \in Nat
    BY RcAssumption DEF AllInv, Typed, Inv, Orderly
<1>1. ASSUME NEW p \in Proc, NEW o \in Operations, Start(p, o) PROVE Typed'
    <2> DEFINE paths == IF o.name = "unset" THEN RemoveTargets ELSE RcTargets
    <2>1. paths \in Seq(Path) /\ Len(paths) <= Len(RemoveTargets)
        BY RemoveTargetsAre, TargetsAre
    <2>2. o \in Named /\ o \notin RestoreOps
        BY NamesAre DEF Named
    <2>3. Begin(p, o, paths)
        BY <1>1 DEF Start
    <2> HIDE DEF paths
    <2>4. /\ \A q \in Proc : Busy(q)' /\ Remembers(q)'
          /\ errs' \in [Proc -> Error] /\ written' \in [Proc -> Nat] /\ DOMAIN last' = Proc
        BY <2>1, <2>2, <2>3, BeginType
    <2>5. Budget'
        BY <1>0, <1>1 DEF Start, Begin, Budget
    <2>6. UNCHANGED <<shell, file, snaps>>
        BY <2>3 DEF Begin
    <2>q. QED
        BY <1>0, <2>4, <2>5, <2>6 DEF Typed
<1>2. ASSUME NEW p \in Proc, Restore(p) PROVE Typed'
    <2>1. /\ op'[p] \in RestoreOps /\ todo'[p] \in Seq(Path) /\ Len(todo'[p]) = Len(snaps[p].of)
          /\ ToSet(todo'[p]) = DOMAIN op'[p].arg
        BY <1>2, RestoreType
    <2>2. Begin(p, op'[p], todo'[p])
        BY <1>0, <1>2 DEF Restore, Begin
    <2>3. op'[p] \in Named /\ Len(todo'[p]) <= Len(RemoveTargets)
        BY <1>0, <2>1 DEF Named, Remembers
    <2>4. /\ \A q \in Proc : Busy(q)' /\ Remembers(q)'
          /\ errs' \in [Proc -> Error] /\ written' \in [Proc -> Nat] /\ DOMAIN last' = Proc
        <3>1. PICK o, paths : o = op'[p] /\ paths = todo'[p]
            OBVIOUS
        <3>q. QED
            BY <2>1, <2>2, <2>3, <3>1, BeginType
    <2>5. UNCHANGED <<shell, file, snaps, bounds>>
        BY <1>2, <2>2 DEF Restore, Begin
    <2>q. QED
        BY <1>0, <2>4, <2>5 DEF Typed, Budget
<1>3. ASSUME NEW p \in Proc, ReadFile(p) PROVE Typed'
    <2>1. UNCHANGED <<shell, file, op, todo, errs, written, last, snaps, bounds>>
        BY <1>3 DEF ReadFile
    <2>q. QED
        BY <1>0, <2>1, BusyStays DEF Typed, Remembers, Budget
<1>4. ASSUME NEW p \in Proc, WriteFile(p) PROVE Typed'
    <2> DEFINE f == Head(todo[p])
    <2>1. /\ todo[p] # <<>> /\ f \in Path /\ op[p] \in Named
          /\ op[p] \in RestoreOps => f \in DOMAIN op[p].arg
          /\ file' = [file EXCEPT ![f] = Target(op[p], f, file[f])]
        BY <1>4, WriteIs
    <2> HIDE DEF f
    <2>2. Target(op[p], f, file[f]) \in Contents
        <3>1. file[f] \in Contents
            BY <1>0, <2>1
        <3>q. QED
            BY <2>1, <3>1, TargetType
    <2>3. file' \in [Path -> Contents]
        BY <1>0, <2>1, <2>2, FileType
    <2>4. (\A q \in Proc : Busy(q)' /\ Remembers(q)') /\ written' \in [Proc -> Nat]
        <3>1. UNCHANGED errs /\ UNCHANGED <<op, snaps>> /\ NextFile(p)
              /\ written' = [written EXCEPT ![p] = @ + 1]
            BY <1>4 DEF WriteFile
        <3>q. QED
            BY <2>1, <3>1, NextFileType
    <2>6. UNCHANGED <<shell, errs, last, snaps, bounds>>
        BY <1>4 DEF WriteFile
    <2>q. QED
        BY <1>0, <2>3, <2>4, <2>6 DEF Typed, Budget
<1>5. ASSUME NEW p \in Proc, FileFails(p) PROVE Typed'
    <2>1. todo[p] # <<>>
        BY <1>5 DEF FileFails, AllInv, Inv, Orderly
    <2>2. written' = [written EXCEPT ![p] = @ + 0]
        <3>1. written[p] + 0 = written[p] /\ written' = written
            BY <1>0, <1>5 DEF FileFails
        <3>2. written' = [written EXCEPT ![p] = written[p]]
            BY <1>0, <3>1
        <3>q. QED
            BY <3>1, <3>2
    <2>3. /\ \A q \in Proc : Busy(q)' /\ Remembers(q)'
          /\ errs' \in [Proc -> Error] /\ written' \in [Proc -> Nat]
        BY <1>5, <2>1, <2>2, NextFileType DEF FileFails
    <2>4. Budget'
        BY <1>0, <1>5 DEF FileFails, Fault, MayHappen, Budget
    <2>5. UNCHANGED <<shell, file, last, snaps>>
        BY <1>5 DEF FileFails
    <2>q. QED
        BY <1>0, <2>3, <2>4, <2>5 DEF Typed
<1>6. ASSUME NEW p \in Proc, Return(p) PROVE Typed'
    <2>1. /\ UNCHANGED <<shell, file, todo, errs, written, bounds>>
          /\ op' = [op EXCEPT ![p] = Idle]
          /\ snaps' = snaps \/ snaps' = [snaps EXCEPT ![p] = NoSnap]
          /\ DOMAIN last' = Proc
        BY <1>0, <1>6 DEF Return
    <2>2. ASSUME NEW q \in Proc PROVE Busy(q)'
        <3>1. CASE q = p
            <4>1. op'[q] = Idle /\ Idle \notin RestoreOps
                BY <1>0, <2>1, <3>1, NamesAre DEF Named
            <4>q. QED
                BY <1>0, <2>1, <4>1 DEF Busy
        <3>2. CASE q # p
            BY <1>0, <2>1, <3>2, BusyStays
        <3>q. QED
            BY <3>1, <3>2
    <2>3. ASSUME NEW q \in Proc PROVE Remembers(q)'
        <3>1. snaps'[q] = snaps[q] \/ snaps'[q] = NoSnap
            BY <1>0, <2>1
        <3>2. Len(<<>>) <= Len(RemoveTargets)
            BY RemoveTargetsAre
        <3>3. NoSnap.of = <<>> /\ <<>> \in Seq(Record)
            BY DEF NoSnap
        <3>q. QED
            BY <1>0, <3>1, <3>2, <3>3 DEF Remembers
    <2>4. DOMAIN snaps' = Proc
        BY <1>0, <2>1
    <2>q. QED
        BY <1>0, <2>1, <2>2, <2>3, <2>4 DEF Typed, Budget
<1>7. ASSUME NEW p \in Proc, Snapshot(p) PROVE Typed'
    <2>1. UNCHANGED <<shell, file, op, todo, errs, written, last, bounds>> /\ DOMAIN snaps' = Proc
        BY <1>0, <1>7 DEF Snapshot
    <2>2. ASSUME NEW q \in Proc PROVE Remembers(q)'
        <3>1. CASE q = p
            BY <1>7, <3>1, SnapshotType, TargetsAre DEF Remembers
        <3>2. CASE q # p
            <4>1. snaps'[q] = snaps[q]
                BY <1>0, <1>7, <3>2 DEF Snapshot
            <4>q. QED
                BY <1>0, <4>1 DEF Remembers
        <3>q. QED
            BY <3>1, <3>2
    <2>q. QED
        BY <1>0, <2>1, <2>2, BusyStays DEF Typed, Budget
<1>8. ASSUME NEW p \in Proc, SnapshotFails(p) PROVE Typed'
    <2>1. UNCHANGED <<shell, file, op, todo, errs, written, snaps, ops, edits, crashes>> /\ DOMAIN last' = Proc
        BY <1>0, <1>8 DEF SnapshotFails
    <2>2. Budget'
        BY <1>0, <1>8 DEF SnapshotFails, Fault, MayHappen, Budget
    <2>q. QED
        BY <1>0, <2>1, <2>2, BusyStays DEF Typed, Remembers
<1>9. ASSUME NEW f \in Path, UserAdds(f) PROVE Typed'
    <2>1. UNCHANGED <<shell, op, todo, errs, written, last, snaps, ops, faults, crashes>>
        BY <1>9 DEF UserAdds
    <2>2. file' \in [Path -> Contents]
        <3>1. file[f] \in Content
            BY <1>0, <1>9 DEF UserAdds, Contents
        <3>2. file[f].lines \in Seq(Line)
            BY <3>1 DEF Content
        <3>3. Append(file[f].lines, UserLine) \in Seq(Line)
            <4>1. UserLine \in Line
                BY RcAssumption
            <4>q. QED
                BY <3>2, <4>1
        <3>4. Joined(Append(file[f].lines, UserLine)) \in Contents
            BY <3>3, JoinedIs DEF Contents
        <3>q. QED
            BY <1>0, <1>9, <3>4, FileType DEF UserAdds
    <2>3. Budget'
        BY <1>0, <1>9 DEF UserAdds, MayHappen, Budget
    <2>q. QED
        BY <1>0, <2>1, <2>2, <2>3, BusyStays DEF Typed, Remembers
<1>10. CASE Crash
    <2>1. UNCHANGED <<shell, file, ops, faults, edits>>
        BY <1>10 DEF Crash
    <2>2. Budget'
        BY <1>0, <1>10 DEF Crash, MayHappen, Budget
    <2>3. ASSUME NEW q \in Proc PROVE Busy(q)' /\ Remembers(q)'
        <3>1. op'[q] = Idle /\ todo'[q] = <<>> /\ errs'[q] = Nil /\ written'[q] = 0 /\ snaps'[q] = NoSnap
            BY <1>10 DEF Crash
        <3>2. Idle \notin RestoreOps /\ Len(RemoveTargets) \in Nat
            BY NamesAre, RemoveTargetsAre DEF Named
        <3>q. QED
            BY <3>1, <3>2 DEF Busy, Remembers, NoSnap, Error, Nil
    <2>4. errs' \in [Proc -> Error] /\ written' \in [Proc -> Nat] /\ DOMAIN snaps' = Proc /\ DOMAIN last' = Proc
        BY <1>10 DEF Crash, Nil, Error
    <2>q. QED
        BY <1>0, <2>1, <2>2, <2>3, <2>4 DEF Typed
<1>11. CASE UNCHANGED vars
    BY <1>0, <1>11, BusyStays DEF vars, Typed, Remembers, Budget
<1>q. QED
    BY <1>1, <1>2, <1>3, <1>4, <1>5, <1>6, <1>7, <1>8, <1>9, <1>10, <1>11 DEF Next, Work

LEMMA AllInvInit == Init => AllInv
BY MutexInit, TypedInit DEF AllInv, Inv, Init, Orderly

LEMMA AllInvStep == AllInv /\ [Next]_vars => AllInv'
BY NextStep, TypedStep DEF AllInv

\* Every variable keeps its type, whatever the files hold: what an operation
\* makes of a file is a file, and it writes no more files than there are.
THEOREM RcTypes == Spec => []TypeOK
<1>1. AllInv => TypeOK
    <2> SUFFICES ASSUME AllInv PROVE TypeOK
        OBVIOUS
    <2>1. file \in [Path -> Content \cup {Missing}] /\ mutex \in Proc \cup {Free}
        BY DEF AllInv, Typed, Contents, Inv, MutexInv, Holders
    <2>2. \A p \in Proc : ToSet(todo[p]) \subseteq Path /\ (op[p] = Idle => todo[p] = <<>>)
        BY InSet DEF AllInv, Inv, Orderly, Typed, Busy
    <2>3. errs \in [Proc -> Error]
        BY DEF AllInv, Typed
    <2>4. written \in [Proc -> 0..Len(RemoveTargets)]
        <3>1. ASSUME NEW p \in Proc PROVE written[p] \in 0..Len(RemoveTargets)
            <4>1. PICK x, y, z : x = Len(todo[p]) /\ y = written[p] /\ z = Len(RemoveTargets)
                OBVIOUS
            <4>2. todo[p] \in Seq(Path) /\ y \in Nat /\ y + x <= z
                BY <4>1 DEF AllInv, Typed, Busy
            <4>3. x \in Nat /\ z \in Nat
                BY <4>1, <4>2, RemoveTargetsAre
            <4>4. y \in 0..z
                BY <4>2, <4>3
            <4>q. QED
                BY <4>1, <4>4
        <3>q. QED
            BY <3>1 DEF AllInv, Typed
    <2>5. ops \in 0..MaxOps /\ faults + edits + crashes \in 0..MaxTrouble
        <3>1. Budget /\ MaxOps \in Nat /\ MaxTrouble \in Nat
            BY RcAssumption DEF AllInv, Typed
        <3>2. faults \in Nat /\ edits \in Nat /\ crashes \in Nat /\ faults + edits + crashes <= MaxTrouble
            BY <3>1 DEF Budget
        <3>3. faults + edits + crashes \in 0..MaxTrouble
            BY <3>1, <3>2
        <3>q. QED
            BY <3>1, <3>3 DEF Budget
    <2>q. QED
        BY <2>1, <2>2, <2>3, <2>4, <2>5 DEF TypeOK
<1>q. QED
    BY <1>1, AllInvInit, AllInvStep, PTL DEF Spec

-----------------------------------------------------------------------------
(* The user's own lines.                                                   *)

TidyInv  == \A f \in Path : Tidy(file[f])
LinesInv == AllInv /\ TidyInv

LEMMA TargetKeeps ==
    ASSUME NEW o \in Named, NEW f, o \in RestoreOps => f \in DOMAIN o.arg,
           NEW c \in Contents, Tidy(c)
    PROVE  /\ Tidy(Target(o, f, c))
           /\ o.name # "unset" => Own(Target(o, f, c)) = Own(c)
           /\ o.name = "unset" => Target(o, f, c) = Removed(c)
<1>1. CASE o \in RestoreOps
    <2>1. o.name = "restore" /\ o.arg[f] \in Record
        BY <1>1, NamesAre
    <2>2. Target(o, f, c) = Restored(o.arg[f], c)
        BY <2>1 DEF Target
    <2>q. QED
        BY <2>1, <2>2, RestoredIs
<1>2. CASE o \in Operations /\ o.name = "unset"
    <2>1. Target(o, f, c) = Removed(c)
        BY <1>2 DEF Target
    <2>q. QED
        BY <1>2, <2>1, RemovedIs
<1>3. CASE o \in Operations /\ o.name # "unset"
    <2>1. Target(o, f, c) = Applied(o, c)
        BY <1>3, NamesAre DEF Target
    <2>q. QED
        BY <1>3, <2>1, AppliedIs
<1>q. QED
    BY <1>1, <1>2, <1>3 DEF Named

\* The user adds a line.
LEMMA AddedIs ==
    ASSUME NEW c \in Content
    PROVE  LET new == Joined(Append(c.lines, UserLine))
           IN  /\ new \in Content /\ new # Missing /\ new.lines = Append(c.lines, UserLine)
               /\ FindBlocks(new.lines) = FindBlocks(c.lines)
               /\ BlockBody(new) = BlockBody(c)
               /\ Own(new) = Append(Own(c), UserLine)
               /\ Tidy(c) => Tidy(new)
<1> DEFINE ls == c.lines
           more == Append(c.lines, UserLine)
           new == Joined(Append(c.lines, UserLine))
<1>1. ls \in Seq(Line) /\ UserLine \in Line /\ ~Marker(UserLine) /\ c # Missing /\ c \in Contents /\ Read(c) = c
    BY RcAssumption DEF Content, Marker, Contents, Read
<1>2. /\ more \in Seq(Line) /\ FindBlocks(more) = FindBlocks(ls)
      /\ OwnOf(more) = Append(OwnOf(ls), UserLine)
    BY <1>1, AppendPlain
<1>3. new \in Content /\ new.lines = more
    BY <1>2, JoinedIs
<1>4. new # Missing /\ new \in Contents /\ Read(new) = new
    BY <1>3, RcAssumption DEF Contents, Read
<1>5. Len(ls) \in Nat /\ \A i \in 1..Len(ls) : more[i] = ls[i]
    BY <1>1
<1> HIDE DEF new, more, ls
<1>6. Own(new) = Append(Own(c), UserLine) /\ Own(c) \in Seq(Line)
    BY <1>1, <1>2, <1>3, <1>4, ReadIs DEF ls
<1>7. ASSUME Tidy(c) PROVE Tidy(new)
    <2>1. FindBlocks(Append(Own(c), UserLine)) = FindBlocks(Own(c))
        BY <1>1, <1>6, AppendPlain
    <2>q. QED
        BY <1>6, <1>7, <2>1 DEF Tidy
<1>8. BlockBody(new) = BlockBody(c)
    <2>1. CASE FindBlocks(ls) = <<>>
        BY <1>2, <1>3, <2>1 DEF BlockBody, ls
    <2>2. CASE FindBlocks(ls) # <<>>
        <3>1. PICK s, t : s = FindBlocks(ls)[1].start /\ t = FindBlocks(ls)[1].end
            OBVIOUS
        <3>2. s \in 1..Len(ls) /\ t \in 1..Len(ls) /\ s < t
            BY <1>1, <2>2, <3>1, FirstBlock DEF Block
        <3>3. SubSeq(more, s + 1, t - 1) = SubSeq(ls, s + 1, t - 1)
            <4>1. more \in Seq(Line) /\ ls \in Seq(Line) /\ s \in Int /\ t \in Int
                BY <1>1, <1>2, <3>2
            <4>2. /\ SubSeq(more, s + 1, t - 1) = [n \in 1..((t - 1) - (s + 1) + 1) |-> more[(s + 1) + n - 1]]
                  /\ SubSeq(ls, s + 1, t - 1) = [n \in 1..((t - 1) - (s + 1) + 1) |-> ls[(s + 1) + n - 1]]
                BY <4>1
            <4>3. \A n \in 1..((t - 1) - (s + 1) + 1) : (s + 1) + n - 1 \in 1..Len(ls)
                BY <1>5, <3>2
            <4>4. \A n \in 1..((t - 1) - (s + 1) + 1) : more[(s + 1) + n - 1] = ls[(s + 1) + n - 1]
                BY <1>5, <4>3
            <4>q. QED
                BY <4>2, <4>4
        <3>q. QED
            BY <1>2, <1>3, <2>2, <3>1, <3>3 DEF BlockBody, Each, ls
    <2>q. QED
        BY <2>1, <2>2
<1>q. QED
    BY <1>2, <1>3, <1>4, <1>6, <1>7, <1>8 DEF new, more, ls

\* The files change in two steps only.
LEMMA OthersLeave ==
    ASSUME [Next]_vars, file' # file
    PROVE  (\E p \in Proc : WriteFile(p)) \/ \E f \in Path : UserAdds(f)
<1> USE DEF local, bounds
<1>1. \A p \in Proc : (\E o \in Operations : Start(p, o)) \/ Restore(p) => UNCHANGED file
    BY DEF Start, Restore, Begin
<1>2. \A p \in Proc : ReadFile(p) \/ FileFails(p) \/ Return(p) \/ Snapshot(p) \/ SnapshotFails(p) => UNCHANGED file
    BY DEF ReadFile, FileFails, Return, Snapshot, SnapshotFails
<1>3. Crash \/ UNCHANGED vars => UNCHANGED file
    BY DEF Crash, vars
<1>q. QED
    BY <1>1, <1>2, <1>3 DEF Next, Work

LEMMA TidyStep == LinesInv /\ [Next]_vars => TidyInv'
<1> SUFFICES ASSUME LinesInv, [Next]_vars PROVE TidyInv'
    OBVIOUS
<1>0. AllInv /\ file \in [Path -> Contents] /\ \A f \in Path : Tidy(file[f])
    BY DEF LinesInv, TidyInv, AllInv, Typed
<1>1. CASE file' = file
    BY <1>0, <1>1 DEF TidyInv
<1>2. ASSUME NEW p \in Proc, WriteFile(p) PROVE TidyInv'
    <2> DEFINE f == Head(todo[p])
    <2>1. /\ f \in Path /\ op[p] \in Named /\ (op[p] \in RestoreOps => f \in DOMAIN op[p].arg)
          /\ file' = [file EXCEPT ![f] = Target(op[p], f, file[f])]
        BY <1>0, <1>2, WriteIs
    <2> HIDE DEF f
    <2>2. file[f] \in Contents /\ Tidy(file[f])
        BY <1>0, <2>1
    <2>3. Tidy(Target(op[p], f, file[f]))
        BY <2>1, <2>2, TargetKeeps
    <2>4. \A g \in Path : file'[g] = IF g = f THEN Target(op[p], f, file[f]) ELSE file[g]
        BY <1>0, <2>1
    <2>q. QED
        BY <1>0, <2>3, <2>4 DEF TidyInv
<1>3. ASSUME NEW f \in Path, UserAdds(f) PROVE TidyInv'
    <2>1. file[f] \in Content
        BY <1>0, <1>3 DEF UserAdds, Contents
    <2>2. \A g \in Path : file'[g] = IF g = f THEN Joined(Append(file[f].lines, UserLine)) ELSE file[g]
        BY <1>0, <1>3 DEF UserAdds
    <2>q. QED
        BY <1>0, <2>1, <2>2, AddedIs DEF TidyInv
<1>q. QED
    BY <1>1, <1>2, <1>3, OthersLeave

LEMMA KeepsStep == LinesInv /\ [Next]_vars => KeepsOwn
<1> SUFFICES ASSUME LinesInv, [Next]_vars, NEW f \in Path, file'[f] # file[f], edits' = edits
             PROVE  LET kept == NotLegacy(Own(file[f]))
                        unset == \E p \in Proc : op[p].name = "unset" /\ todo[p] # todo'[p]
                    IN  \/ Own(file'[f]) = Own(file[f])
                        \/ unset /\ Own(file'[f]) = kept
                        \/ unset /\ file'[f] = Missing /\ \A l \in ToSet(kept) : l.kind = "blank"
    BY DEF KeepsOwn
<1>0. /\ AllInv /\ file \in [Path -> Contents] /\ \A g \in Path : Tidy(file[g])
      /\ edits \in Nat /\ DOMAIN todo = Proc /\ \A p \in Proc : todo[p] \in Seq(Path)
    BY DEF LinesInv, TidyInv, AllInv, Typed, Budget, Inv, Orderly, Busy
<1>1. PICK p \in Proc : WriteFile(p)
    <2>1. \A g \in Path : ~UserAdds(g)
        BY <1>0 DEF UserAdds
    <2>q. QED
        BY <2>1, OthersLeave
<1>2. /\ todo[p] # <<>> /\ Head(todo[p]) \in Path /\ op[p] \in Named
      /\ op[p] \in RestoreOps => Head(todo[p]) \in DOMAIN op[p].arg
      /\ file' = [file EXCEPT ![Head(todo[p])] = Target(op[p], Head(todo[p]), file[Head(todo[p])])]
    BY <1>0, <1>1, WriteIs
<1>3. f = Head(todo[p]) /\ file'[f] = Target(op[p], f, file[f])
    BY <1>0, <1>2
<1>4. todo'[p] # todo[p]
    <2>1. todo'[p] = Tail(todo[p])
        BY <1>0, <1>1 DEF WriteFile, NextFile
    <2>2. Len(Tail(todo[p])) = Len(todo[p]) - 1 /\ Len(todo[p]) \in Nat
        BY <1>0, <1>2
    <2>3. Len(Tail(todo[p])) # Len(todo[p])
        BY <2>2
    <2>q. QED
        BY <2>1, <2>3
<1>5. file[f] \in Contents /\ Tidy(file[f]) /\ (op[p] \in RestoreOps => f \in DOMAIN op[p].arg)
    BY <1>0, <1>2, <1>3
<1>6. CASE op[p].name # "unset"
    <2>1. Own(Target(op[p], f, file[f])) = Own(file[f])
        BY <1>2, <1>5, <1>6, TargetKeeps
    <2>q. QED
        BY <1>3, <2>1
<1>7. CASE op[p].name = "unset"
    <2>1. file'[f] = Removed(file[f])
        BY <1>2, <1>3, <1>5, <1>7, TargetKeeps
    <2>2. \/ Own(file'[f]) = NotLegacy(Own(file[f]))
          \/ file'[f] = Missing /\ \A l \in ToSet(NotLegacy(Own(file[f]))) : l.kind = "blank"
        BY <1>5, <2>1, RemovedIs
    <2>q. QED
        BY <1>4, <1>7, <2>2
<1>q. QED
    BY <1>6, <1>7

LEMMA LinesInit == ASSUME TidyHomes PROVE Init => LinesInv
BY AllInvInit DEF TidyHomes, LinesInv, TidyInv, Init

\* "A user's own lines are never touched", whatever the operations, their
\* interleaving, the failures and the crashes, in files whose markers are
\* paired: that without its blocks a file has none is invariant, and that
\* makes it sure that UpdateBlock does not turn lines of the user into a
\* block.
THEOREM UsersLines == ASSUME TidyHomes PROVE Spec => UserLinesKept
<1>1. Init => LinesInv
    BY LinesInit
<1>2. LinesInv /\ [Next]_vars => LinesInv'
    BY AllInvStep, TidyStep DEF LinesInv
<1>q. QED
    BY <1>1, <1>2, KeepsStep, PTL DEF Spec, UserLinesKept

-----------------------------------------------------------------------------
(* One goroutine: an Unset.                                                *)

\* Adding a line of the user's.
LEMMA AddedAlone ==
    ASSUME LinesInv, NEW f \in Path, UserAdds(f)
    PROVE  /\ file[f] \in Content /\ file' \in [Path -> Contents]
           /\ \A g \in Path : file'[g] = IF g = f THEN Joined(Append(file[f].lines, UserLine)) ELSE file[g]
<1>1. file \in [Path -> Contents] /\ file[f] \in Content
    BY DEF LinesInv, AllInv, Typed, UserAdds, Contents
<1>2. file' = [file EXCEPT ![f] = Joined(Append(file[f].lines, UserLine))]
    BY DEF UserAdds
<1>3. Joined(Append(file[f].lines, UserLine)) \in Contents
    BY <1>1, AddedIs DEF Contents
<1>q. QED
    BY <1>1, <1>2, <1>3

LEMMA AddedClean ==
    ASSUME NEW c \in Content, Clean(c) PROVE Clean(Joined(Append(c.lines, UserLine)))
<1> DEFINE new == Joined(Append(c.lines, UserLine))
<1>1. new.lines = Append(c.lines, UserLine) /\ FindBlocks(new.lines) = FindBlocks(c.lines)
    BY AddedIs
<1>2. c # Missing /\ c.lines \in Seq(Line) /\ UserLine \in Line /\ ~Legacy(UserLine)
    BY RcAssumption DEF Content, Legacy
<1>3. ToSet(Append(c.lines, UserLine)) = ToSet(c.lines) \cup {UserLine}
    BY <1>2, AppendedSet
<1>q. QED
    BY <1>1, <1>2, <1>3 DEF Clean

\* While it runs, a file is cleaned or still to come, unless one has failed;
\* when it has returned, all are.
UnsetGoes(p) == op[p].name = "unset" /\ errs[p] = Nil =>
                   \A f \in Path : Clean(file[f]) \/ f \in ToSet(todo[p])
UnsetDone(p) == op[p] = Idle /\ last[p].op.name = "unset" /\ last[p].result = Nil =>
                   \A f \in Path : Clean(file[f])

UnsetInv == \A p \in Proc : Proc = {p} => UnsetGoes(p) /\ UnsetDone(p)

LEMMA UnsetStep == LinesInv /\ UnsetInv /\ [Next]_vars => UnsetInv'
<1> SUFFICES ASSUME LinesInv, UnsetInv, [Next]_vars, NEW p \in Proc, Proc = {p}
             PROVE  UnsetGoes(p)' /\ UnsetDone(p)'
    BY DEF UnsetInv
<1> USE DEF local, bounds
<1>0. /\ UnsetGoes(p) /\ UnsetDone(p) /\ AllInv /\ file \in [Path -> Contents] /\ errs \in [Proc -> Error]
      /\ DOMAIN op = Proc /\ DOMAIN todo = Proc /\ DOMAIN last = Proc
      /\ todo[p] \in Seq(Path) /\ \A f \in Path : Tidy(file[f])
    BY DEF UnsetInv, LinesInv, TidyInv, AllInv, Typed, Inv, Orderly, Busy
<1>a. Idle.name = "idle" /\ NoLast.op.name = "idle" /\ Hard # Nil
    BY DEF Idle, NoLast, Hard, Nil
\* An operation begins: an Unset has every path to do.
<1>1. ASSUME NEW o \in Operations, Start(p, o) PROVE UnsetGoes(p)' /\ UnsetDone(p)'
    <2>1. /\ op'[p] = o /\ todo'[p] = IF o.name = "unset" THEN RemoveTargets ELSE RcTargets
          /\ last'[p] = NoLast
        BY <1>0, <1>1 DEF Start, Begin
    <2>2. ToSet(RemoveTargets) = Path
        BY RemoveTargetsAre
    <2>q. QED
        BY <1>a, <2>1, <2>2 DEF UnsetGoes, UnsetDone
<1>2. ASSUME Restore(p) PROVE UnsetGoes(p)' /\ UnsetDone(p)'
    <2>1. op'[p].name = "restore" /\ last'[p] = NoLast
        BY <1>0, <1>2 DEF Restore, Begin
    <2>q. QED
        BY <1>a, <2>1 DEF UnsetGoes, UnsetDone
<1>3. ASSUME ReadFile(p) \/ Snapshot(p) PROVE UnsetGoes(p)' /\ UnsetDone(p)'
    <2>1. UNCHANGED <<file, op, todo, errs, last>>
        BY <1>3 DEF ReadFile, Snapshot
    <2>q. QED
        BY <1>0, <2>1 DEF UnsetGoes, UnsetDone
\* A file is cleaned.
<1>4. ASSUME WriteFile(p) PROVE UnsetGoes(p)' /\ UnsetDone(p)'
    <2> DEFINE f == Head(todo[p])
    <2>1. /\ todo[p] # <<>> /\ f \in Path /\ op[p] \in Named
          /\ op[p] \in RestoreOps => f \in DOMAIN op[p].arg
          /\ file' = [file EXCEPT ![f] = Target(op[p], f, file[f])]
        BY <1>0, <1>4, WriteIs
    <2>2. \A g \in ToSet(todo[p]) : g = f \/ g \in ToSet(Tail(todo[p]))
        BY <1>0, <2>1, InSet
    <2> HIDE DEF f
    <2>3. op' = op /\ errs' = errs /\ todo'[p] = Tail(todo[p])
        BY <1>0, <1>4 DEF WriteFile, NextFile
    <2>4. op[p] # Idle
        BY <2>1, NamesAre
    <2>5. ASSUME op[p].name = "unset", errs[p] = Nil, NEW g \in Path
          PROVE  Clean(file'[g]) \/ g \in ToSet(todo'[p])
        <3>1. CASE g = f
            <4>1. file[f] \in Contents /\ Tidy(file[f])
                BY <1>0, <2>1
            <4>2. file'[f] = Removed(file[f])
                BY <1>0, <2>1, <2>5, <4>1, TargetKeeps
            <4>q. QED
                BY <3>1, <4>1, <4>2, RemovedIs
        <3>2. CASE g # f
            <4>1. file'[g] = file[g] /\ (Clean(file[g]) \/ g \in ToSet(todo[p]))
                BY <1>0, <2>1, <2>5, <3>2 DEF UnsetGoes
            <4>q. QED
                BY <2>2, <2>3, <3>2, <4>1
        <3>q. QED
            BY <3>1, <3>2
    <2>q. QED
        BY <2>3, <2>4, <2>5 DEF UnsetGoes, UnsetDone
<1>5. ASSUME FileFails(p) PROVE UnsetGoes(p)' /\ UnsetDone(p)'
    <2>1. buf[p] # Unread /\ op' = op /\ errs'[p] = Hard
        BY <1>0, <1>5 DEF FileFails
    <2>2. op[p] # Idle
        BY <2>1 DEF LinesInv, AllInv, Inv, Orderly
    <2>q. QED
        BY <1>a, <2>1, <2>2 DEF UnsetGoes, UnsetDone
\* An Unset returns what it has collected.
<1>6. ASSUME Return(p) PROVE UnsetGoes(p)' /\ UnsetDone(p)'
    <2>1. op'[p] = Idle /\ todo[p] = <<>> /\ UNCHANGED <<file, errs>>
        BY <1>0, <1>6 DEF Return
    <2>2. op[p].name = "unset" => last'[p] = [op |-> op[p], result |-> errs[p]]
        BY <1>0, <1>6 DEF Return
    <2>3. last'[p].op = op[p]
        BY <1>0, <1>6 DEF Return
    <2>4. \A f : f \notin ToSet(<<>>)
        BY DEF ToSet
    <2>5. UnsetGoes(p)'
        BY <1>a, <2>1 DEF UnsetGoes
    <2>6. UnsetDone(p)'
        BY <1>0, <2>1, <2>2, <2>3, <2>4 DEF UnsetGoes, UnsetDone
    <2>q. QED
        BY <2>5, <2>6
<1>7. ASSUME SnapshotFails(p) PROVE UnsetGoes(p)' /\ UnsetDone(p)'
    <2>1. last'[p].op.name = "snapshot" /\ op[p] = Idle /\ op' = op
        BY <1>0, <1>7 DEF SnapshotFails
    <2>q. QED
        BY <1>a, <2>1 DEF UnsetGoes, UnsetDone
<1>8. ASSUME NEW f \in Path, UserAdds(f) PROVE UnsetGoes(p)' /\ UnsetDone(p)'
    <2>1. UNCHANGED <<op, todo, errs, last>>
        BY <1>8 DEF UserAdds
    <2>2. /\ file[f] \in Content
          /\ \A g \in Path : file'[g] = IF g = f THEN Joined(Append(file[f].lines, UserLine)) ELSE file[g]
        BY <1>8, AddedAlone
    <2>3. \A g \in Path : Clean(file[g]) => Clean(file'[g])
        BY <2>2, AddedClean
    <2>q. QED
        BY <1>0, <2>1, <2>3 DEF UnsetGoes, UnsetDone
<1>9. CASE Crash
    <2>1. op'[p] = Idle /\ last'[p] = NoLast
        BY <1>9 DEF Crash
    <2>q. QED
        BY <1>a, <2>1 DEF UnsetGoes, UnsetDone
<1>10. CASE UNCHANGED vars
    <2>1. UNCHANGED <<file, op, todo, errs, last>>
        BY <1>10 DEF vars
    <2>q. QED
        BY <1>0, <2>1 DEF UnsetGoes, UnsetDone
<1>11. \A q \in Proc : q = p
    OBVIOUS
<1>q. QED
    BY <1>1, <1>2, <1>3, <1>4, <1>5, <1>6, <1>7, <1>8, <1>9, <1>10, <1>11 DEF Next, Work

\* "Unset removes the block, plus the unmarked lines", in all of the files,
\* whatever was done before, by this process or by one that crashed half-way,
\* and whatever lines the user adds meanwhile.
THEOREM UnsetCleans == ASSUME TidyHomes PROVE Spec => []UnsetLeavesNothing
<1>1. Init => LinesInv
    BY LinesInit
<1>2. LinesInv /\ [Next]_vars => LinesInv'
    BY AllInvStep, TidyStep DEF LinesInv
<1>3. Init => UnsetInv
    BY DEF Init, UnsetInv, UnsetGoes, UnsetDone, Idle, NoLast
<1>4. UnsetInv => UnsetLeavesNothing
    BY DEF UnsetInv, UnsetDone, UnsetLeavesNothing, Ended
<1>q. QED
    BY <1>1, <1>2, <1>3, <1>4, UnsetStep, PTL DEF Spec

-----------------------------------------------------------------------------
(* One goroutine: new files.                                               *)

Applies(o) == o.name \in {"set", "pac", "multi"}

\* A file is there for good once it is written, unless an Unset or a restore
\* deletes it.
LEMMA AppliedThere ==
    ASSUME NEW o \in Named, Applies(o), NEW f, NEW c \in Contents
    PROVE  o \in Operations /\ Target(o, f, c) # Missing
<1>1. o \in Operations /\ o.name # "unset"
    BY NamesAre DEF Named, Applies
<1>2. NewBody(o, c) \in Seq(Inner)
    <2>1. DropIfUserDefined(Body(o), Read(c), Yield(o)) \in Seq(Inner)
        BY <1>1, BodyType, YieldInner
    <2>2. BlockBody(Read(c)) \in Seq(Inner)
        BY ReadIs, BodyInner
    <2>q. QED
        BY <2>1, <2>2, MergeInner DEF NewBody
<1>3. Target(o, f, c) = UpdateBlock(Read(c), NewBody(o, c))
    BY <1>1 DEF Applies, Target, Applied, NewBody
<1>4. Target(o, f, c) \in Content
    BY <1>2, <1>3, ReadIs, UpdateType
<1>q. QED
    BY <1>1, <1>4, RcAssumption

\* A file that an operation still has to do is there, or the one that it may
\* make.
Expected(p) == Applies(op[p]) =>
    \A f \in ToSet(todo[p]) :
       \/ file[f] # Missing
       \/ shell = "zsh" /\ f = Zshrc
       \/ /\ f = DefaultRC /\ ToSet(todo[p]) \subseteq {f}
          /\ \A g \in ToSet(RcPaths) \ {f} : file[g] = Missing

ShadowInv == \A p \in Proc : Proc = {p} => Expected(p)

LEMMA ShadowStep == AllInv /\ ShadowInv /\ [Next]_vars => ShadowInv'
<1> SUFFICES ASSUME AllInv, ShadowInv, [Next]_vars, NEW p \in Proc, Proc = {p}
             PROVE  Expected(p)'
    BY DEF ShadowInv
<1> USE DEF local, bounds
<1>0. /\ Expected(p) /\ file \in [Path -> Contents]
      /\ DOMAIN op = Proc /\ DOMAIN todo = Proc /\ todo[p] \in Seq(Path)
      /\ todo[p] = <<>> => buf[p] = Unread
    BY DEF ShadowInv, AllInv, Typed, Inv, Orderly, Busy
<1>a. ~Applies(Idle)
    BY DEF Idle, Applies
\* A change leaves the files of the operation there that are there.
<1>b. ASSUME op'[p] = op[p], todo'[p] = todo[p], shell' = shell,
             \A f \in Path : file'[f] = Missing <=> file[f] = Missing
      PROVE  Expected(p)'
    <2>1. ToSet(todo[p]) \subseteq Path /\ ToSet(RcPaths) \subseteq Path
        BY <1>0, InSet, PathsAre
    <2>q. QED
        BY <1>0, <1>b, <2>1 DEF Expected
<1>1. ASSUME NEW o \in Operations, Start(p, o) PROVE Expected(p)'
    <2>1. op'[p] = o /\ file' = file /\ shell' = shell
        BY <1>0, <1>1 DEF Start, Begin
    <2>2. o.name # "unset" => todo'[p] = RcTargets
        BY <1>0, <1>1 DEF Start, Begin
    <2>3. ToSet(RcTargets) \subseteq ToSet(RcPaths)
        BY TargetsAre
    <2>4. ASSUME Applies(o), NEW f \in ToSet(RcTargets), file[f] = Missing,
                 ~(shell = "zsh" /\ f = Zshrc)
          PROVE  /\ f = DefaultRC /\ ToSet(RcTargets) \subseteq {f}
                 /\ \A g \in ToSet(RcPaths) \ {f} : file[g] = Missing
        BY <2>3, <2>4, TargetsAre
    <2>5. Applies(o) => o.name # "unset"
        BY DEF Applies
    <2>q. QED
        BY <2>1, <2>2, <2>4, <2>5 DEF Expected
<1>2. ASSUME Restore(p) PROVE Expected(p)'
    <2>1. op'[p].name = "restore"
        BY <1>0, <1>2 DEF Restore, Begin
    <2>q. QED
        BY <2>1 DEF Expected, Applies
<1>3. ASSUME ReadFile(p) \/ Snapshot(p) \/ SnapshotFails(p) PROVE Expected(p)'
    <2>1. UNCHANGED <<file, op, todo, shell>>
        BY <1>3 DEF ReadFile, Snapshot, SnapshotFails
    <2>q. QED
        BY <1>b, <2>1
\* What is left to do is still there, or the operation had one file only.
<1>4. ASSUME WriteFile(p) PROVE Expected(p)'
    <2> DEFINE f == Head(todo[p])
    <2>1. /\ todo[p] # <<>> /\ f \in Path /\ op[p] \in Named
          /\ file' = [file EXCEPT ![f] = Target(op[p], f, file[f])]
        BY <1>0, <1>4, WriteIs
    <2>2. ToSet(Tail(todo[p])) \subseteq ToSet(todo[p]) /\ ToSet(todo[p]) \subseteq Path
          /\ f \in ToSet(todo[p])
        BY <1>0, <2>1, InSet
    <2>3. op' = op /\ shell' = shell /\ todo'[p] = Tail(todo[p])
        BY <1>0, <1>4 DEF WriteFile, NextFile
    <2> HIDE DEF f
    <2>4. SUFFICES ASSUME Applies(op[p]) PROVE Expected(p)'
        BY <2>3 DEF Expected
    <2>5. file'[f] # Missing
        BY <1>0, <2>1, <2>4, AppliedThere
    <2>6. \A g \in Path : g # f => file'[g] = file[g]
        BY <1>0, <2>1
    <2>7. ASSUME NEW g \in ToSet(todo'[p])
          PROVE  file'[g] # Missing \/ (shell' = "zsh" /\ g = Zshrc)
        <3>1. CASE g = f
            BY <2>5, <3>1
        <3>2. CASE g # f
            <4>1. g \in ToSet(todo[p]) /\ file'[g] = file[g] /\ ~(ToSet(todo[p]) \subseteq {g})
                BY <2>2, <2>3, <2>6, <2>7, <3>2
            <4>q. QED
                BY <1>0, <2>3, <2>4, <4>1 DEF Expected
        <3>q. QED
            BY <3>1, <3>2
    <2>q. QED
        BY <2>7 DEF Expected
<1>5. ASSUME FileFails(p) PROVE Expected(p)'
    <2>1. op' = op /\ shell' = shell /\ file' = file /\ todo'[p] = Tail(todo[p]) /\ todo[p] # <<>>
        BY <1>0, <1>5 DEF FileFails, NextFile
    <2>2. ToSet(Tail(todo[p])) \subseteq ToSet(todo[p])
        BY <1>0, <2>1, InSet
    <2>q. QED
        BY <1>0, <2>1, <2>2 DEF Expected
<1>6. ASSUME Return(p) PROVE Expected(p)'
    <2>1. op'[p] = Idle
        BY <1>0, <1>6 DEF Return
    <2>q. QED
        BY <1>a, <2>1 DEF Expected
<1>7. ASSUME NEW f \in Path, UserAdds(f) PROVE Expected(p)'
    <2>1. UNCHANGED <<op, todo, shell>> /\ file[f] \in Content
        BY <1>0, <1>7 DEF UserAdds, Contents
    <2>2. file' = [file EXCEPT ![f] = Joined(Append(file[f].lines, UserLine))]
        BY <1>7 DEF UserAdds
    <2>3. Joined(Append(file[f].lines, UserLine)) # Missing /\ file[f] # Missing
        BY <1>7, <2>1, AddedIs DEF UserAdds
    <2>4. \A g \in Path : file'[g] = Missing <=> file[g] = Missing
        BY <1>0, <2>2, <2>3
    <2>q. QED
        BY <1>b, <2>1, <2>4
<1>8. CASE Crash
    <2>1. op'[p] = Idle
        BY <1>8 DEF Crash
    <2>q. QED
        BY <1>a, <2>1 DEF Expected
<1>9. CASE UNCHANGED vars
    <2>1. UNCHANGED <<file, op, todo, shell>>
        BY <1>9 DEF vars
    <2>q. QED
        BY <1>b, <2>1
<1>10. \A q \in Proc : q = p
    OBVIOUS
<1>q. QED
    BY <1>1, <1>2, <1>3, <1>4, <1>5, <1>6, <1>7, <1>8, <1>9, <1>10 DEF Next, Work

LEMMA CreateStep ==
    ASSUME NEW p \in Proc, Proc = {p} PROVE AllInv /\ ShadowInv /\ [Next]_vars => MayCreate
<1> SUFFICES ASSUME AllInv, ShadowInv, [Next]_vars, NEW f \in Path, file[f] = Missing, file'[f] # Missing
             PROVE  \/ op[p].name = "restore" /\ op[p].arg[f].existed
                    \/ shell = "zsh" /\ f = Zshrc
                    \/ f = DefaultRC /\ \A g \in ToSet(RcPaths) \ {f} : file[g] = Missing
    BY DEF MayCreate
<1>1. file \in [Path -> Contents] /\ Expected(p)
    BY DEF AllInv, Typed, ShadowInv
<1>2. ~\E g \in Path : UserAdds(g)
    <2>1. SUFFICES ASSUME NEW g \in Path, UserAdds(g) PROVE FALSE
        OBVIOUS
    <2>2. file[g] # Missing /\ file' = [file EXCEPT ![g] = Joined(Append(file[g].lines, UserLine))]
        BY <2>1 DEF UserAdds
    <2>q. QED
        BY <1>1, <2>2
<1>3. WriteFile(p)
    <2>1. \E q \in Proc : WriteFile(q)
        BY <1>2, OthersLeave
    <2>q. QED
        BY <2>1
<1>4. /\ Head(todo[p]) \in ToSet(todo[p]) /\ op[p] \in Named
      /\ op[p] \in RestoreOps => Head(todo[p]) \in DOMAIN op[p].arg
      /\ file' = [file EXCEPT ![Head(todo[p])] = Target(op[p], Head(todo[p]), file[Head(todo[p])])]
    BY <1>3, WriteIs
<1>5. f = Head(todo[p]) /\ file'[f] = Target(op[p], f, Missing)
    BY <1>1, <1>4
<1>6. Missing \in Contents /\ Tidy(Missing)
    BY NothingOwned, ReadIs DEF Contents, Own
<1>7. CASE op[p] \in RestoreOps
    <2>1. op[p].name = "restore" /\ op[p].arg[f] \in Record
        BY <1>4, <1>5, <1>7, NamesAre
    <2>2. file'[f] = Restored(op[p].arg[f], Missing)
        BY <1>5, <2>1 DEF Target
    <2>q. QED
        BY <1>6, <2>1, <2>2, RestoredIs
<1>8. CASE op[p] \in Operations /\ op[p].name = "unset"
    <2>1. file'[f] = Missing
        BY <1>5, <1>8 DEF Target, Removed
    <2>q. QED
        BY <2>1
<1>9. CASE op[p] \in Operations /\ op[p].name # "unset"
    <2>1. Applies(op[p])
        BY <1>4, <1>9, NamesAre DEF Applies
    <2>q. QED
        BY <1>1, <1>4, <1>5, <2>1 DEF Expected
<1>q. QED
    BY <1>4, <1>7, <1>8, <1>9 DEF Named

\* "Creating a file the user does not have can change shell behaviour":
\* whatever failed, crashed or was restored before, a program with one
\* goroutine makes a new start-up file only when there is none at all, for a
\* zsh user the .zshrc, and in a restore one that was there.
THEOREM NewFiles == ASSUME NEW p \in Proc, Proc = {p} PROVE Spec => NoShadowing
<1>1. Init => AllInv
    BY AllInvInit
<1>2. AllInv /\ [Next]_vars => AllInv'
    BY AllInvStep
<1>3. Init => ShadowInv
    BY DEF Init, ShadowInv, Expected, Applies, Idle
<1>4. AllInv /\ ShadowInv /\ [Next]_vars => ShadowInv'
    BY ShadowStep
<1>5. AllInv /\ ShadowInv /\ [Next]_vars => [MayCreate]_vars
    BY CreateStep
<1>q. QED
    BY <1>1, <1>2, <1>3, <1>4, <1>5, PTL DEF Spec, NoShadowing

-----------------------------------------------------------------------------
(* One goroutine: a Set.                                                   *)

\* What the lines of a block say of a variable that one of them defines, and
\* of one that none does.
Defs(body, n) == Without(body, {i \in DOMAIN body : VarName(body[i]) # n})

LEMMA OneDefines ==
    ASSUME NEW body \in Seq(Line), NEW n, NEW k \in 1..Len(body),
           \A i \in 1..Len(body) : VarName(body[i]) = n <=> i = k
    PROVE  Defs(body, n) = <<body[k]>>
<1> DEFINE h == [j \in 1..1 |-> k]
           drop == {i \in DOMAIN body : VarName(body[i]) # n}
           new == <<body[k]>>
<1>1. (1..Len(body)) \ drop = {k}
    OBVIOUS
<1>2. new \in Seq(Line) /\ Len(new) = 1 /\ new[1] = body[k]
    OBVIOUS
<1>3. h \in [1..1 -> {k}] /\ h[1] = k
    OBVIOUS
<1> HIDE DEF h, drop, new
<1>4. \A j \in 1..1 : j = 1
    OBVIOUS
<1>5. Counts(h, Len(new), (1..Len(body)) \ drop)
    BY <1>1, <1>2, <1>3, <1>4 DEF Counts
<1>6. Picks(new, body, h)
    BY <1>2, <1>3, <1>4 DEF Picks
<1>7. Without(body, drop) = new
    BY <1>2, <1>5, <1>6, WithoutBy
<1>q. QED
    BY <1>7 DEF Defs, drop, new

LEMMA NobodyDefines ==
    ASSUME NEW body \in Seq(Line), NEW n, \A i \in 1..Len(body) : VarName(body[i]) # n
    PROVE  Defs(body, n) = <<>>
<1> DEFINE drop == {i \in DOMAIN body : VarName(body[i]) # n}
<1>1. Rest(Len(body), drop) = {}
    BY DEF Rest
<1>2. Without(body, drop) \in Seq(Line) /\ Len(Without(body, drop)) = Cardinality(Rest(Len(body), drop))
    BY WithoutType
<1> HIDE DEF drop
<1>3. Len(Without(body, drop)) = 0
    BY <1>1, <1>2, FS_EmptySet
<1>4. Without(body, drop) = <<>>
    BY <1>2, <1>3
<1>q. QED
    BY <1>4 DEF Defs, drop

\* The value of a variable when the block has one line for it, or none.
ValueOf(body, n) == IF Defs(body, n) = <<>> THEN "" ELSE Defs(body, n)[Len(Defs(body, n))].val

LEMMA ValueIs ==
    ASSUME NEW c \in Content, NEW n PROVE BlockValue(c, n) = ValueOf(BlockBody(c), n)
<1>1. Read(c) = c
    BY RcAssumption DEF Read
<1>q. QED
    BY <1>1 DEF BlockValue, ValueOf, Defs

Proxied(body, v) == \A n \in {"http_proxy", "https_proxy", "all_proxy"} : ValueOf(body, n) = v

SetLines(v) == <<Export("http_proxy", v), Export("https_proxy", v), Export("all_proxy", v)>>

LEMMA LineValue ==
    ASSUME NEW body \in Seq(Inner), NEW n, NEW k \in 1..Len(body),
           \A i \in 1..Len(body) : VarName(body[i]) = n <=> i = k
    PROVE  ValueOf(body, n) = body[k].val
<1>1. body \in Seq(Line)
    BY DEF Inner
<1>2. Defs(body, n) = <<body[k]>>
    BY <1>1, OneDefines
<1>q. QED
    BY <1>2 DEF ValueOf

\* The three lines give the proxy and no bypass list.
LEMMA SetThree ==
    ASSUME NEW v \in Val
    PROVE  /\ SetLines(v) \in Seq(Inner) /\ Proxied(SetLines(v), v)
           /\ ValueOf(SetLines(v), "no_proxy") = ""
<1> DEFINE b == SetLines(v)
<1>1. /\ Export("http_proxy", v) \in Inner /\ Export("https_proxy", v) \in Inner
      /\ Export("all_proxy", v) \in Inner
    BY ExportInner DEF Vars
<1>2. /\ b \in Seq(Inner) /\ Len(b) = 3
      /\ b[1] = Export("http_proxy", v) /\ b[2] = Export("https_proxy", v) /\ b[3] = Export("all_proxy", v)
    BY <1>1 DEF SetLines
<1>3. /\ VarName(b[1]) = "http_proxy" /\ VarName(b[2]) = "https_proxy" /\ VarName(b[3]) = "all_proxy"
      /\ b[1].val = v /\ b[2].val = v /\ b[3].val = v
    BY <1>2 DEF VarName, Export
<1> HIDE DEF b
<1>4. \A i \in 1..Len(b) : i = 1 \/ i = 2 \/ i = 3
    BY <1>2
<1>5. 1 \in 1..Len(b) /\ 2 \in 1..Len(b) /\ 3 \in 1..Len(b)
    BY <1>2
<1>6. ValueOf(b, "http_proxy") = v
    <2>1. \A i \in 1..Len(b) : VarName(b[i]) = "http_proxy" <=> i = 1
        BY <1>3, <1>4
    <2>q. QED
        BY <1>2, <1>3, <1>5, <2>1, LineValue
<1>7. ValueOf(b, "https_proxy") = v
    <2>1. \A i \in 1..Len(b) : VarName(b[i]) = "https_proxy" <=> i = 2
        BY <1>3, <1>4
    <2>q. QED
        BY <1>2, <1>3, <1>5, <2>1, LineValue
<1>8. ValueOf(b, "all_proxy") = v
    <2>1. \A i \in 1..Len(b) : VarName(b[i]) = "all_proxy" <=> i = 3
        BY <1>3, <1>4
    <2>q. QED
        BY <1>2, <1>3, <1>5, <2>1, LineValue
<1>9. ValueOf(b, "no_proxy") = ""
    <2>1. b \in Seq(Line)
        BY <1>2 DEF Inner
    <2>2. \A i \in 1..Len(b) : VarName(b[i]) # "no_proxy"
        BY <1>3, <1>4
    <2>3. Defs(b, "no_proxy") = <<>>
        BY <2>1, <2>2, NobodyDefines
    <2>q. QED
        BY <2>3 DEF ValueOf
<1>q. QED
    BY <1>2, <1>6, <1>7, <1>8, <1>9 DEF b, Proxied

\* With the fourth line they give the default bypass list as well.
LEMMA SetFour ==
    ASSUME NEW v \in Val
    PROVE  LET b == SetLines(v) \o <<Export("no_proxy", DefaultNoProxy)>>
           IN  /\ b \in Seq(Inner) /\ Len(b) = 4
               /\ Proxied(b, v) /\ ValueOf(b, "no_proxy") = DefaultNoProxy
               /\ \A i \in 1..Len(b) : VarName(b[i]) = "no_proxy" <=> i = 4
               /\ \A i \in 1..3 : b[i] = SetLines(v)[i]
<1> DEFINE b == SetLines(v) \o <<Export("no_proxy", DefaultNoProxy)>>
<1>1. /\ Export("http_proxy", v) \in Inner /\ Export("https_proxy", v) \in Inner
      /\ Export("all_proxy", v) \in Inner /\ Export("no_proxy", DefaultNoProxy) \in Inner
    BY ExportInner, DefaultAssumption DEF Vars
<1>2. /\ b \in Seq(Inner) /\ Len(b) = 4
      /\ b[1] = Export("http_proxy", v) /\ b[2] = Export("https_proxy", v) /\ b[3] = Export("all_proxy", v)
      /\ b[4] = Export("no_proxy", DefaultNoProxy)
    BY <1>1 DEF SetLines
<1>3. /\ VarName(b[1]) = "http_proxy" /\ VarName(b[2]) = "https_proxy" /\ VarName(b[3]) = "all_proxy"
      /\ VarName(b[4]) = "no_proxy"
      /\ b[1].val = v /\ b[2].val = v /\ b[3].val = v /\ b[4].val = DefaultNoProxy
    BY <1>2 DEF VarName, Export
<1>a. \A i \in 1..3 : b[i] = SetLines(v)[i]
    BY <1>2 DEF SetLines
<1> HIDE DEF b
<1>4. \A i \in 1..Len(b) : i = 1 \/ i = 2 \/ i = 3 \/ i = 4
    BY <1>2
<1>5. 1 \in 1..Len(b) /\ 2 \in 1..Len(b) /\ 3 \in 1..Len(b) /\ 4 \in 1..Len(b)
    BY <1>2
<1>6. ValueOf(b, "http_proxy") = v
    <2>1. \A i \in 1..Len(b) : VarName(b[i]) = "http_proxy" <=> i = 1
        BY <1>3, <1>4
    <2>q. QED
        BY <1>2, <1>3, <1>5, <2>1, LineValue
<1>7. ValueOf(b, "https_proxy") = v
    <2>1. \A i \in 1..Len(b) : VarName(b[i]) = "https_proxy" <=> i = 2
        BY <1>3, <1>4
    <2>q. QED
        BY <1>2, <1>3, <1>5, <2>1, LineValue
<1>8. ValueOf(b, "all_proxy") = v
    <2>1. \A i \in 1..Len(b) : VarName(b[i]) = "all_proxy" <=> i = 3
        BY <1>3, <1>4
    <2>q. QED
        BY <1>2, <1>3, <1>5, <2>1, LineValue
<1>9. \A i \in 1..Len(b) : VarName(b[i]) = "no_proxy" <=> i = 4
    BY <1>3, <1>4
<1>10. ValueOf(b, "no_proxy") = DefaultNoProxy
    BY <1>2, <1>3, <1>5, <1>9, LineValue
<1>11. Proxied(b, v)
    BY <1>6, <1>7, <1>8 DEF Proxied
<1>q. QED
    BY <1>a, <1>2, <1>9, <1>10, <1>11 DEF b

\* The user has a bypass list of his own.
Yields(c) == \E l \in ToSet(Own(c)) : "no_proxy" \in DefinedVars(l)

\* What a Set promises of a file.
Reached(c, v) ==
    /\ \A n \in {"http_proxy", "https_proxy", "all_proxy"} : BlockValue(c, n) = v
    /\ BlockValue(c, "no_proxy") = IF Yields(c) THEN "" ELSE DefaultNoProxy

LEMMA SetBody ==
    ASSUME NEW o \in Operations, o.name = "set", NEW c \in Contents, Tidy(c)
    PROVE  /\ o.arg \in Val
           /\ NewBody(o, c) = IF Yields(c) THEN SetLines(o.arg)
                              ELSE SetLines(o.arg) \o <<Export("no_proxy", DefaultNoProxy)>>
<1> DEFINE v == o.arg
           b == SetLines(v) \o <<Export("no_proxy", DefaultNoProxy)>>
<1>1. v \in Val
    BY RcAssumption DEF Operations
<1>2. Body(o) = b
    <2>1. Pairs(<<"http_proxy", "https_proxy", "all_proxy">>, v) = SetLines(v)
        BY DEF Pairs, SetLines
    <2>2. Pairs(<<"no_proxy">>, DefaultNoProxy) = <<Export("no_proxy", DefaultNoProxy)>>
        BY DEF Pairs
    <2>3. Body(o) = Pairs(<<"http_proxy", "https_proxy", "all_proxy">>, v)
                    \o Pairs(<<"no_proxy">>, DefaultNoProxy)
        BY DEF Body
    <2>q. QED
        BY <2>1, <2>2, <2>3
<1>3. UpdateBlock(Read(c), <<>>).lines = Own(c)
    <2>1. Read(c) \in Content /\ NoBlock(OwnOf(Read(c).lines)) /\ Own(c) = OwnOf(Read(c).lines)
        BY ReadIs
    <2>2. <<>> \in Seq(Inner)
        OBVIOUS
    <2>q. QED
        BY <2>1, <2>2, UpdateKeeps
<1>4. NewBody(o, c) = DropIfUserDefined(b, Read(c), {"no_proxy"})
    BY <1>2 DEF NewBody, Yield
<1>5. Yields(c) <=> \E l \in ToSet(UpdateBlock(Read(c), <<>>).lines) : DefinedVars(l) \cap {"no_proxy"} # {}
    BY <1>3 DEF Yields
<1>6. /\ b \in Seq(Inner) /\ Len(b) = 4
      /\ \A i \in 1..Len(b) : VarName(b[i]) = "no_proxy" <=> i = 4
    BY <1>1, SetFour
<1>7. b = SetLines(v) \o <<Export("no_proxy", DefaultNoProxy)>> \o <<>>
    BY <1>6
<1>8. Len(SetLines(v)) = 3 /\ SetLines(v) \in Seq(Inner)
    BY <1>1, SetThree DEF SetLines
<1>9. <<Export("no_proxy", DefaultNoProxy)>> \in Seq(Inner)
    <2>1. Export("no_proxy", DefaultNoProxy) \in Inner
        BY ExportInner, DefaultAssumption DEF Vars
    <2>q. QED
        BY <2>1
<1> DEFINE drop == {i \in DOMAIN b : VarName(b[i]) \in {"no_proxy"}}
<1>10. \A i \in 1..Len(b) : i \in drop <=> i = 4
    BY <1>6
<1> DEFINE x == <<Export("no_proxy", DefaultNoProxy)>>
           a == SetLines(v)
<1>11. Without(b, drop) = a
    <2>1. Len(x) = 1
        OBVIOUS
    <2> HIDE DEF a, x, drop
    <2>2. b = a \o x \o <<>>
        BY <1>7 DEF a, x
    <2>3. a \in Seq(Inner) /\ x \in Seq(Inner) /\ <<>> \in Seq(Inner) /\ Len(a) = 3
        BY <1>8, <1>9 DEF a, x
    <2> HIDE DEF b
    <2>4. \A i \in 1..Len(a \o x \o <<>>) : i \in drop <=> Len(a) + 1 <= i /\ i <= Len(a) + Len(x)
        BY <1>6, <1>10, <2>1, <2>2, <2>3
    <2>5. Without(a \o x \o <<>>, drop) = a \o <<>>
        BY <2>3, <2>4, WithoutMiddle
    <2>6. a \o <<>> = a
        BY <2>3
    <2>q. QED
        BY <2>2, <2>5, <2>6
<1>12. NewBody(o, c) = IF Yields(c) THEN Without(b, drop) ELSE b
    BY <1>4, <1>5 DEF DropIfUserDefined
<1>q. QED
    BY <1>1, <1>11, <1>12

LEMMA SetWrites ==
    ASSUME NEW o \in Operations, o.name = "set", NEW f, NEW c \in Contents, Tidy(c)
    PROVE  Target(o, f, c) \in Content /\ Reached(Target(o, f, c), o.arg)
<1> DEFINE new == Applied(o, c)
<1>1. Target(o, f, c) = new
    BY DEF Target
<1>2. new \in Content /\ Own(new) = Own(c) /\ BlockBody(new) = NewBody(o, c)
    BY AppliedIs
<1> HIDE DEF new
<1>3. \A n : BlockValue(new, n) = ValueOf(NewBody(o, c), n)
    BY <1>2, ValueIs
<1>4. o.arg \in Val /\ Proxied(NewBody(o, c), o.arg)
      /\ ValueOf(NewBody(o, c), "no_proxy") = IF Yields(c) THEN "" ELSE DefaultNoProxy
    BY SetBody, SetThree, SetFour
<1>5. Yields(new) <=> Yields(c)
    BY <1>2 DEF Yields
<1>q. QED
    BY <1>1, <1>2, <1>3, <1>4, <1>5 DEF Reached, Proxied

\* While it runs: what is there has the proxy or is still to come, unless a
\* file has failed; when one was written, one has it.
SetGoes(p) == op[p].name = "set" =>
    LET v == op[p].arg IN
    /\ ToSet(todo[p]) \subseteq ToSet(RcPaths)
    /\ errs[p] = Nil =>
          /\ \A f \in ToSet(RcPaths) : file[f] # Missing => Reached(file[f], v) \/ f \in ToSet(todo[p])
          /\ shell = "zsh" => file[Zshrc] # Missing \/ Zshrc \in ToSet(todo[p])
          /\ written[p] = 0 => todo[p] # <<>>
    /\ written[p] > 0 => \E f \in ToSet(RcPaths) : file[f] # Missing /\ Reached(file[f], v)

SetDone(p) == op[p] = Idle /\ last[p].op.name = "set" /\ Success(p) =>
    LET v == last[p].op.arg IN
    /\ \E f \in ToSet(RcPaths) : file[f] # Missing /\ Reached(file[f], v)
    /\ errs[p] = Nil => /\ \A f \in ToSet(RcPaths) : file[f] # Missing => Reached(file[f], v)
                        /\ shell = "zsh" => file[Zshrc] # Missing

NilOrHard(p) == errs[p] \in {Nil, Hard}

SetInv == \A p \in Proc : Proc = {p} => SetGoes(p) /\ SetDone(p) /\ NilOrHard(p)

\* A change that leaves what a Set has reached.
LEMMA ReachedStays ==
    ASSUME NEW p \in Proc, SetGoes(p), SetDone(p), NilOrHard(p),
           UNCHANGED <<op, todo, errs, written, last, shell>>,
           \A f \in Path : file'[f] = Missing <=> file[f] = Missing,
           \A f \in Path : \A v : Reached(file[f], v) => Reached(file'[f], v)
    PROVE  SetGoes(p)' /\ SetDone(p)' /\ NilOrHard(p)'
<1>1. ToSet(RcPaths) \subseteq Path /\ Zshrc \in Path
    BY PathsAre
<1>2. \A f \in ToSet(RcPaths) : file'[f] = Missing <=> file[f] = Missing
    BY <1>1
<1>3. \A f \in ToSet(RcPaths) : \A v : Reached(file[f], v) => Reached(file'[f], v)
    BY <1>1
<1>4. file'[Zshrc] = Missing <=> file[Zshrc] = Missing
    BY <1>1
<1>5. SetGoes(p)'
    BY <1>2, <1>3, <1>4 DEF SetGoes
<1>6. Success(p)' <=> Success(p)
    BY DEF Success
<1>7. SetDone(p)'
    BY <1>2, <1>3, <1>4, <1>6 DEF SetDone
<1>q. QED
    BY <1>5, <1>7 DEF NilOrHard

LEMMA AddedReached ==
    ASSUME NEW c \in Content, NEW v, Reached(c, v)
    PROVE  Reached(Joined(Append(c.lines, UserLine)), v)
<1> DEFINE new == Joined(Append(c.lines, UserLine))
<1>1. new \in Content /\ BlockBody(new) = BlockBody(c) /\ Own(new) = Append(Own(c), UserLine)
    BY AddedIs
<1> HIDE DEF new
<1>2. \A n : BlockValue(new, n) = BlockValue(c, n)
    BY <1>1, ValueIs
<1>3. Yields(new) <=> Yields(c)
    <2>1. UserLine \in Line /\ DefinedVars(UserLine) = {}
        BY RcAssumption DEF DefinedVars
    <2>2. c \in Contents
        BY DEF Contents
    <2>3. Own(c) \in Seq(Line)
        BY <2>2, ReadIs
    <2>4. ToSet(Append(Own(c), UserLine)) = ToSet(Own(c)) \cup {UserLine}
        BY <2>1, <2>3, AppendedSet
    <2>q. QED
        BY <1>1, <2>1, <2>4 DEF Yields
<1>q. QED
    BY <1>2, <1>3 DEF Reached, new

LEMMA SetStep == LinesInv /\ SetInv /\ [Next]_vars => SetInv'
<1> SUFFICES ASSUME LinesInv, SetInv, [Next]_vars, NEW p \in Proc, Proc = {p}
             PROVE  SetGoes(p)' /\ SetDone(p)' /\ NilOrHard(p)'
    BY DEF SetInv
<1> USE DEF local, bounds
<1>0. /\ SetGoes(p) /\ SetDone(p) /\ NilOrHard(p) /\ AllInv /\ file \in [Path -> Contents]
      /\ errs \in [Proc -> Error] /\ written \in [Proc -> Nat]
      /\ DOMAIN op = Proc /\ DOMAIN todo = Proc /\ DOMAIN last = Proc
      /\ todo[p] \in Seq(Path) /\ \A f \in Path : Tidy(file[f])
    BY DEF SetInv, LinesInv, TidyInv, AllInv, Typed, Inv, Orderly, Busy
<1>a. Idle.name = "idle" /\ NoLast.op.name = "idle" /\ Hard # Nil /\ ~IsNonCritical(Hard)
    BY DEF Idle, NoLast, Hard, Nil, IsNonCritical
<1>b. ToSet(RcPaths) \subseteq Path /\ Zshrc \in ToSet(RcPaths)
    BY PathsAre, RcAssumption
\* An operation begins.
<1>1. ASSUME NEW o \in Operations, Start(p, o) PROVE SetGoes(p)' /\ SetDone(p)' /\ NilOrHard(p)'
    <2>1. /\ op'[p] = o /\ (o.name = "set" => todo'[p] = RcTargets)
          /\ last'[p] = NoLast /\ errs'[p] = Nil /\ written'[p] = 0 /\ UNCHANGED <<file, shell>>
        BY <1>0, <1>1 DEF Start, Begin
    <2>2. /\ RcTargets # <<>> /\ ToSet(RcTargets) \subseteq ToSet(RcPaths)
          /\ \A f \in ToSet(RcPaths) : file[f] # Missing => f \in ToSet(RcTargets)
          /\ shell = "zsh" => Zshrc \in ToSet(RcTargets)
        BY TargetsAre
    <2>3. SetGoes(p)'
        BY <2>1, <2>2 DEF SetGoes
    <2>q. QED
        BY <1>a, <2>1, <2>3 DEF SetDone, NilOrHard
<1>2. ASSUME Restore(p) PROVE SetGoes(p)' /\ SetDone(p)' /\ NilOrHard(p)'
    <2>1. op'[p].name = "restore" /\ last'[p] = NoLast /\ errs'[p] = Nil
        BY <1>0, <1>2 DEF Restore, Begin
    <2>q. QED
        BY <1>a, <2>1 DEF SetGoes, SetDone, NilOrHard
<1>3. ASSUME ReadFile(p) \/ Snapshot(p) PROVE SetGoes(p)' /\ SetDone(p)' /\ NilOrHard(p)'
    <2>1. UNCHANGED <<file, op, todo, errs, written, last, shell>>
        BY <1>3 DEF ReadFile, Snapshot
    <2>q. QED
        BY <1>0, <2>1, ReachedStays
\* A file is written.
<1>4. ASSUME WriteFile(p) PROVE SetGoes(p)' /\ SetDone(p)' /\ NilOrHard(p)'
    <2> DEFINE f == Head(todo[p])
    <2>1. /\ todo[p] # <<>> /\ f \in Path /\ op[p] \in Named
          /\ file' = [file EXCEPT ![f] = Target(op[p], f, file[f])]
        BY <1>0, <1>4, WriteIs
    <2>2. /\ f \in ToSet(todo[p]) /\ ToSet(Tail(todo[p])) \subseteq ToSet(todo[p])
          /\ \A g \in ToSet(todo[p]) : g = f \/ g \in ToSet(Tail(todo[p]))
        BY <1>0, <2>1, InSet
    <2> HIDE DEF f
    <2>3. op' = op /\ errs' = errs /\ shell' = shell /\ todo'[p] = Tail(todo[p])
          /\ written'[p] = written[p] + 1
        BY <1>0, <1>4 DEF WriteFile, NextFile
    <2>4. op[p] # Idle
        BY <2>1, NamesAre
    <2>5. \A g \in Path : g # f => file'[g] = file[g]
        BY <1>0, <2>1
    <2>6. ASSUME op[p].name = "set" PROVE SetGoes(p)'
        <3> DEFINE v == op[p].arg
        <3>1. op[p] \in Operations
            BY <2>1, <2>6, NamesAre DEF Named
        <3>2. file[f] \in Contents /\ Tidy(file[f])
            BY <1>0, <2>1
        <3>3. file'[f] \in Content /\ Reached(file'[f], v)
            BY <1>0, <2>1, <2>6, <3>1, <3>2, SetWrites
        <3>4. file'[f] # Missing
            BY <3>3, RcAssumption
        <3>5. ToSet(todo[p]) \subseteq ToSet(RcPaths)
            BY <1>0, <2>6 DEF SetGoes
        <3>6. ToSet(todo'[p]) \subseteq ToSet(RcPaths) /\ f \in ToSet(RcPaths)
            BY <2>2, <2>3, <3>5
        <3>7. written'[p] # 0
            BY <1>0, <2>3
        <3> HIDE DEF v
        <3>8. ASSUME errs[p] = Nil, NEW g \in ToSet(RcPaths), file'[g] # Missing
              PROVE  Reached(file'[g], v) \/ g \in ToSet(todo'[p])
            <4>1. CASE g = f
                BY <3>3, <4>1
            <4>2. CASE g # f
                <5>1. file'[g] = file[g]
                    BY <1>b, <2>5, <4>2
                <5>2. Reached(file[g], v) \/ g \in ToSet(todo[p])
                    BY <1>0, <2>6, <3>8, <5>1 DEF SetGoes, v
                <5>q. QED
                    BY <2>2, <2>3, <4>2, <5>1, <5>2
            <4>q. QED
                BY <4>1, <4>2
        <3>9. ASSUME errs[p] = Nil, shell = "zsh"
              PROVE  file'[Zshrc] # Missing \/ Zshrc \in ToSet(todo'[p])
            <4>1. CASE Zshrc = f
                BY <3>4, <4>1
            <4>2. CASE Zshrc # f
                <5>1. file'[Zshrc] = file[Zshrc]
                    BY <1>b, <2>5, <4>2
                <5>2. file[Zshrc] # Missing \/ Zshrc \in ToSet(todo[p])
                    BY <1>0, <2>6, <3>9 DEF SetGoes
                <5>q. QED
                    BY <2>2, <2>3, <4>2, <5>1, <5>2
            <4>q. QED
                BY <4>1, <4>2
        <3>q. QED
            BY <2>3, <3>3, <3>4, <3>6, <3>7, <3>8, <3>9 DEF SetGoes, v
    <2>7. op[p].name # "set" => SetGoes(p)'
        BY <2>3 DEF SetGoes
    <2>8. SetDone(p)' /\ NilOrHard(p)'
        BY <1>0, <2>3, <2>4 DEF SetDone, NilOrHard
    <2>q. QED
        BY <2>6, <2>7, <2>8
\* A file fails: from now on one that was written is enough.
<1>5. ASSUME FileFails(p) PROVE SetGoes(p)' /\ SetDone(p)' /\ NilOrHard(p)'
    <2>1. /\ buf[p] # Unread /\ errs'[p] = Hard /\ todo'[p] = Tail(todo[p])
          /\ UNCHANGED <<op, file, shell, written>>
        BY <1>0, <1>5 DEF FileFails, NextFile
    <2>2. op[p] # Idle /\ todo[p] # <<>>
        BY <2>1 DEF LinesInv, AllInv, Inv, Orderly
    <2>3. ToSet(Tail(todo[p])) \subseteq ToSet(todo[p])
        BY <1>0, <2>2, InSet
    <2>4. SetGoes(p)'
        BY <1>0, <1>a, <2>1, <2>3 DEF SetGoes
    <2>q. QED
        BY <2>1, <2>2, <2>4 DEF SetDone, NilOrHard
\* A Set that returns a success has written a file.
<1>6. ASSUME Return(p) PROVE SetGoes(p)' /\ SetDone(p)' /\ NilOrHard(p)'
    <2>1. op'[p] = Idle /\ todo[p] = <<>> /\ UNCHANGED <<file, errs, shell>> /\ last'[p].op = op[p]
        BY <1>0, <1>6 DEF Return
    <2>2. op[p].name = "set" /\ written[p] = 0 => last'[p].result = errs[p]
        BY <1>0, <1>6 DEF Return
    <2>3. \A f : f \notin ToSet(<<>>)
        BY DEF ToSet
    <2>4. SetGoes(p)'
        BY <1>a, <2>1 DEF SetGoes
    <2>5. ASSUME op[p].name = "set", Success(p)' PROVE written[p] > 0
        <3>1. SUFFICES ASSUME written[p] = 0 PROVE FALSE
            <4>1. written[p] \in Nat
                BY <1>0
            <4>q. QED
                BY <4>1
        <3>2. errs[p] = Nil
            BY <1>0, <1>a, <2>2, <2>5, <3>1 DEF Success, NilOrHard
        <3>3. todo[p] # <<>>
            BY <1>0, <2>5, <3>1, <3>2 DEF SetGoes
        <3>q. QED
            BY <2>1, <3>3
    <2>6. SetDone(p)'
        BY <1>0, <2>1, <2>3, <2>5 DEF SetGoes, SetDone
    <2>q. QED
        BY <1>0, <2>1, <2>4, <2>6 DEF NilOrHard
<1>7. ASSUME SnapshotFails(p) PROVE SetGoes(p)' /\ SetDone(p)' /\ NilOrHard(p)'
    <2>1. last'[p].op.name = "snapshot" /\ op[p] = Idle /\ op' = op /\ errs' = errs
        BY <1>0, <1>7 DEF SnapshotFails
    <2>q. QED
        BY <1>0, <1>a, <2>1 DEF SetGoes, SetDone, NilOrHard
<1>8. ASSUME NEW f \in Path, UserAdds(f) PROVE SetGoes(p)' /\ SetDone(p)' /\ NilOrHard(p)'
    <2>1. UNCHANGED <<op, todo, errs, written, last, shell>> /\ file[f] # Missing
        BY <1>8 DEF UserAdds
    <2>2. /\ file[f] \in Content
          /\ \A g \in Path : file'[g] = IF g = f THEN Joined(Append(file[f].lines, UserLine)) ELSE file[g]
        BY <1>8, AddedAlone
    <2>3. Joined(Append(file[f].lines, UserLine)) # Missing
        BY <2>2, AddedIs
    <2>4. \A g \in Path : file'[g] = Missing <=> file[g] = Missing
        BY <2>1, <2>2, <2>3
    <2>5. \A g \in Path : \A v : Reached(file[g], v) => Reached(file'[g], v)
        BY <2>2, AddedReached
    <2>q. QED
        BY <1>0, <2>1, <2>4, <2>5, ReachedStays
<1>9. CASE Crash
    <2>1. op'[p] = Idle /\ last'[p] = NoLast /\ errs'[p] = Nil
        BY <1>9 DEF Crash
    <2>q. QED
        BY <1>a, <2>1 DEF SetGoes, SetDone, NilOrHard
<1>10. CASE UNCHANGED vars
    <2>1. UNCHANGED <<file, op, todo, errs, written, last, shell>>
        BY <1>10 DEF vars
    <2>q. QED
        BY <1>0, <2>1, ReachedStays
<1>11. \A q \in Proc : q = p
    OBVIOUS
<1>q. QED
    BY <1>1, <1>2, <1>3, <1>4, <1>5, <1>6, <1>7, <1>8, <1>9, <1>10, <1>11 DEF Next, Work

\* After a Set that succeeds, in a program with one goroutine, every start-up
\* file gives the proxy, also the .zshrc a zsh user did not have; the default
\* bypass list yields to the user's own; and when files failed, at least one
\* of the others has it, or else the call fails.
THEOREM SetsReach == ASSUME TidyHomes PROVE Spec => []SetReaches
<1>1. Init => LinesInv
    BY LinesInit
<1>2. LinesInv /\ [Next]_vars => LinesInv'
    BY AllInvStep, TidyStep DEF LinesInv
<1>3. Init => SetInv
    BY DEF Init, SetInv, SetGoes, SetDone, NilOrHard, Idle, NoLast
<1>4. SetInv => SetReaches
    <2> SUFFICES ASSUME SetInv, NEW p \in Proc, Ended(p, "set"), Success(p)
                 PROVE  LET v == last[p].op.arg
                            there == {f \in ToSet(RcPaths) : file[f] # Missing}
                        IN  /\ \E f \in there : Reached(file[f], v)
                            /\ errs[p] = Nil => /\ \A f \in there : Reached(file[f], v)
                                                /\ shell = "zsh" => Zshrc \in there
        BY Zenon DEF SetReaches, Reached, Yields
    <2>1. SetDone(p)
        BY DEF SetInv, Ended
    <2>2. Zshrc \in ToSet(RcPaths)
        BY RcAssumption
    <2>q. QED
        BY <2>1, <2>2 DEF SetDone, Ended
<1>q. QED
    BY <1>1, <1>2, <1>3, <1>4, SetStep, PTL DEF Spec

-----------------------------------------------------------------------------
(* One goroutine: a restore.                                               *)

LEMMA OwnLines ==
    ASSUME NEW c \in Content PROVE ToSet(Own(c)) \subseteq ToSet(c.lines)
<1> DEFINE ls == c.lines
           drop == Ours(ls) \cup (DOMAIN ls \ (1..Len(ls)))
<1>1. c \in Contents /\ Read(c) = c /\ ls \in Seq(Line)
    BY RcAssumption DEF Contents, Read, Content
<1>2. Own(c) = Without(ls, drop)
    BY <1>1, RcAssumption DEF Own, Outside
<1> HIDE DEF drop, ls
<1>3. /\ Without(ls, drop) \in Seq(Line)
      /\ \A n \in 1..Len(Without(ls, drop)) :
            /\ Nth(Rest(Len(ls), drop), n) \in Rest(Len(ls), drop)
            /\ Without(ls, drop)[n] = ls[Nth(Rest(Len(ls), drop), n)]
    BY <1>1, WithoutType
<1>4. \A i \in Rest(Len(ls), drop) : i \in 1..Len(ls)
    BY DEF Rest
<1>5. ASSUME NEW l \in ToSet(Without(ls, drop)) PROVE l \in ToSet(ls)
    <2>1. PICK n \in 1..Len(Without(ls, drop)) : Without(ls, drop)[n] = l
        BY <1>3, InSet
    <2>2. PICK i \in 1..Len(ls) : l = ls[i]
        BY <1>3, <1>4, <2>1
    <2>q. QED
        BY <1>1, <2>2, InSet
<1>q. QED
    BY <1>2, <1>5 DEF ls

\* A line that is more than a line of an old version or a blank one.
Matters(l) == ~Legacy(l) /\ l.kind # "blank"

\* What a restore promises of a file that held c0 when the snapshot was taken.
Exact(c, c0) ==
    /\ BlockBody(Read(c)) = BlockBody(Read(c0))
    /\ c = Missing => \A l \in ToSet(Own(c0)) : ~Matters(l)
    /\ c0 = Missing => c = Missing \/ UserLine \in ToSet(c.lines)

\* What a snapshot says of it.
Recorded(s, c0) == (s.existed <=> c0 # Missing) /\ s.body = BlockBody(Read(c0))

\* Whatever happens in between, the lines that matter stay, and a file that
\* was not there gets no other lines of its own than the user's.
Since(c, c0) ==
    /\ \A l \in ToSet(Own(c0)) : Matters(l) => l \in ToSet(Own(c))
    /\ c0 = Missing => c # Empty /\ ToSet(Own(c)) \subseteq {UserLine}

LEMMA NoFileIsNotEmpty == Missing # Empty
<1>1. Empty \in Content
    BY DEF Empty, Content
<1>q. QED
    BY <1>1, RcAssumption

\* An operation that applies a block leaves no empty file.
LEMMA SomethingWritten ==
    ASSUME NEW o \in Operations, o.name # "unset", o.name = "multi" => Body(o) # <<>>,
           NEW c \in Contents, Tidy(c)
    PROVE  Applied(o, c) # Empty
<1>1. BlockBody(Applied(o, c)) = NewBody(o, c) /\ BlockBody(Empty) = <<>>
    BY AppliedIs, NothingOwned
<1>2. Body(o) \in Seq(Inner) /\ BlockBody(Read(c)) \in Seq(Inner)
    BY BodyType, ReadIs, BodyInner
<1>3. CASE o.name = "set"
    <2>1. o.arg \in Val
        BY <1>3, SetBody
    <2>2. SetLines(o.arg) # <<>> /\ SetLines(o.arg) \o <<Export("no_proxy", DefaultNoProxy)>> # <<>>
        BY DEF SetLines
    <2>q. QED
        BY <1>1, <1>3, <2>2, SetBody
<1>4. CASE o.name # "set"
    <2>1. DropIfUserDefined(Body(o), Read(c), Yield(o)) = Body(o)
        BY <1>4 DEF DropIfUserDefined, Yield
    <2>2. CASE o.name = "pac"
        <3>1. Body(o) = Pairs(<<"AUTOPROXY">>, o.arg)
            BY <2>2 DEF Body
        <3>2. Body(o) # <<>>
            BY <3>1 DEF Pairs
        <3>q. QED
            BY <1>1, <2>1, <2>2, <3>2 DEF NewBody
    <2>3. CASE o.name = "multi"
        <3> DEFINE old  == BlockBody(Read(c))
                   b    == Body(o)
                   kept == Without(old, {i \in DOMAIN old :
                                 VarName(old[i]) \in ({VarName(l) : l \in ToSet(b)} \ {""})})
        <3>1. NewBody(o, c) = kept \o b
            BY <2>1, <2>3 DEF NewBody, MergeBody
        <3>2. kept \in Seq(Inner)
            BY <1>2, WithoutType
        <3> HIDE DEF old, b, kept
        <3>3. b \in Seq(Inner) /\ b # <<>>
            BY <1>2, <2>3 DEF b
        <3>4. kept \o b # <<>>
            BY <3>2, <3>3
        <3>q. QED
            BY <1>1, <3>1, <3>4
    <2>q. QED
        BY <1>4, <2>2, <2>3 DEF Operations
<1>q. QED
    BY <1>3, <1>4

LEMMA SinceThen ==
    ASSUME NEW c \in Contents PROVE Since(c, c) /\ Exact(c, c)
<1>1. Own(Missing) = <<>> /\ ToSet(<<>>) = {}
    BY DEF Own, ToSet
<1>q. QED
    BY <1>1, NoFileIsNotEmpty DEF Since, Exact

LEMMA SinceKept ==
    ASSUME NEW o \in Named, NEW f, o \in RestoreOps => f \in DOMAIN o.arg,
           o.name = "multi" => Body(o) # <<>>,
           NEW c \in Contents, Tidy(c), NEW c0, Since(c, c0),
           o \in RestoreOps => Recorded(o.arg[f], c0)
    PROVE  Since(Target(o, f, c), c0)
<1>1. CASE o.name # "unset"
    <2>1. Own(Target(o, f, c)) = Own(c)
        BY <1>1, TargetKeeps
    <2>2. ASSUME c0 = Missing PROVE Target(o, f, c) # Empty
        <3>1. CASE o \in RestoreOps
            <4>1. o.name = "restore" /\ o.arg[f] \in Record /\ ~o.arg[f].existed
                BY <2>2, <3>1, NamesAre DEF Recorded
            <4>2. Target(o, f, c) = Restored(o.arg[f], c) /\ c # Empty
                BY <2>2, <4>1 DEF Target, Since
            <4>q. QED
                BY <4>1, <4>2, RestoredIs
        <3>2. CASE o \in Operations
            <4>1. Target(o, f, c) = Applied(o, c)
                BY <1>1, <3>2, NamesAre DEF Target
            <4>q. QED
                BY <1>1, <3>2, <4>1, SomethingWritten
        <3>q. QED
            BY <3>1, <3>2 DEF Named
    <2>q. QED
        BY <2>1, <2>2 DEF Since
<1>2. CASE o.name = "unset"
    <2> DEFINE new == Removed(c)
    <2>1. Target(o, f, c) = new
        BY <1>2, TargetKeeps
    <2>2. \/ new = c
          \/ new # Missing /\ Own(new) = NotLegacy(Own(c))
          \/ /\ new = Missing /\ Own(new) = <<>>
             /\ \A l \in ToSet(NotLegacy(Own(c))) : l.kind = "blank"
        BY RemovedIs
    <2>3. /\ \A l \in ToSet(NotLegacy(Own(c))) : l \in ToSet(Own(c))
          /\ \A l \in ToSet(Own(c)) : Legacy(l) \/ l \in ToSet(NotLegacy(Own(c)))
        BY ReadIs, NotLegacyIs
    <2>4. ToSet(<<>>) = {} /\ Missing # Empty
        BY NoFileIsNotEmpty DEF ToSet
    <2>5. c # Empty => new # Empty
        <3>1. SUFFICES ASSUME new # c, new # Missing PROVE new # Empty
            BY <2>4
        <3>2. new = RemoveLegacyLines(UpdateBlock(c, <<>>)) /\ ~OnlyBlank(new)
            BY <3>1 DEF Removed
        <3>3. OnlyBlank(Empty)
            BY DEF OnlyBlank, Empty, ToSet
        <3>q. QED
            BY <3>2, <3>3
    <2> HIDE DEF new
    <2>q. QED
        BY <2>1, <2>2, <2>3, <2>4, <2>5 DEF Since, Matters
<1>q. QED
    BY <1>1, <1>2

LEMMA SinceAdded ==
    ASSUME NEW c \in Content, NEW c0
    PROVE  LET new == Joined(Append(c.lines, UserLine))
           IN  /\ Since(c, c0) => Since(new, c0)
               /\ Exact(c, c0) => Exact(new, c0)
<1> DEFINE new == Joined(Append(c.lines, UserLine))
<1>1. /\ new \in Content /\ new # Missing /\ new.lines = Append(c.lines, UserLine)
      /\ BlockBody(new) = BlockBody(c) /\ Own(new) = Append(Own(c), UserLine)
    BY AddedIs
<1>2. c \in Contents /\ c # Missing /\ Read(c) = c /\ Read(new) = new /\ c.lines \in Seq(Line)
    BY <1>1, RcAssumption DEF Contents, Read, Content
<1>3. UserLine \in Line
    BY RcAssumption
<1>4. Own(c) \in Seq(Line)
    BY <1>2, ReadIs
<1>5. ToSet(Append(Own(c), UserLine)) = ToSet(Own(c)) \cup {UserLine}
    BY <1>3, <1>4, AppendedSet
<1>6. ToSet(Append(c.lines, UserLine)) = ToSet(c.lines) \cup {UserLine}
    BY <1>2, <1>3, AppendedSet
<1> HIDE DEF new
<1>9. new # Empty
    BY <1>1, <1>2 DEF Empty
<1>7. Since(c, c0) => Since(new, c0)
    BY <1>1, <1>5, <1>9 DEF Since
<1>8. Exact(c, c0) => Exact(new, c0)
    BY <1>1, <1>2, <1>6 DEF Exact
<1>q. QED
    BY <1>7, <1>8 DEF new

\* The restore of one file.
LEMMA RestoredExact ==
    ASSUME NEW s \in Record, NEW c \in Contents, Tidy(c), NEW c0, Recorded(s, c0), Since(c, c0)
    PROVE  Exact(Restored(s, c), c0)
<1> DEFINE new == Restored(s, c)
<1>1. /\ new \in Contents /\ Own(new) = Own(c) /\ BlockBody(Read(new)) = s.body
      /\ new = Missing => Own(c) = <<>>
      /\ ~s.existed /\ Own(c) = <<>> /\ c # Empty => new = Missing
    BY RestoredIs
<1>2. Own(c) \in Seq(Line) /\ ToSet(<<>>) = {}
    BY ReadIs DEF ToSet
<1> HIDE DEF new
<1>3. ASSUME c0 = Missing, new # Missing PROVE UserLine \in ToSet(new.lines)
    <2>1. Own(c) # <<>> /\ new \in Content
        BY <1>1, <1>3 DEF Recorded, Contents, Since
    <2>2. Head(Own(c)) \in ToSet(Own(c))
        BY <1>2, <2>1, InSet
    <2>3. UserLine \in ToSet(Own(new))
        BY <1>1, <1>3, <2>2 DEF Since
    <2>q. QED
        BY <2>1, <2>3, OwnLines
<1>4. new = Missing => \A l \in ToSet(Own(c0)) : ~Matters(l)
    BY <1>1, <1>2 DEF Since
<1>5. Exact(new, c0)
    BY <1>1, <1>3, <1>4 DEF Exact, Recorded
<1>q. QED
    BY <1>5 DEF new

\* The snapshot, and the restore that works from it, say what the files held;
\* while a restore runs, what it has done is exact.
Recalls(p) ==
    /\ \A s \in ToSet(snaps[p].of) : Recorded(s, origin[p][s.path])
    /\ op[p].name = "restore" => \A f \in DOMAIN op[p].arg : Recorded(op[p].arg[f], origin[p][f])
    /\ op[p].name = "multi" => Body(op[p]) # <<>>
    /\ \A f \in Path : Since(file[f], origin[p][f])

RestoreGoes(p) == op[p].name = "restore" /\ errs[p] = Nil =>
    \A f \in DOMAIN op[p].arg : f \in ToSet(todo[p]) \/ Exact(file[f], origin[p][f])

RestoreDone(p) == op[p] = Idle /\ last[p].op.name = "restore" /\ last[p].result = Nil =>
    /\ DOMAIN last[p].op.arg \subseteq Path
    /\ \A f \in DOMAIN last[p].op.arg : Exact(file[f], origin[p][f])

Restores(p) == Recalls(p) /\ RestoreGoes(p) /\ RestoreDone(p)

RestoreInv == DOMAIN origin = Proc /\ \A p \in Proc : Proc = {p} => Restores(p)

\* A change of the files that takes no part in a restore.
LEMMA RecallsStays ==
    ASSUME NEW p \in Proc, Restores(p), UNCHANGED <<snaps, origin>>,
           op'[p] = op[p],
           \A f \in Path : Since(file[f], origin[p][f]) => Since(file'[f], origin[p][f])
    PROVE  Recalls(p)'
BY DEF Restores, Recalls

LEMMA RestoreStep == LinesInv /\ RestoreInv /\ [Next]_vars => RestoreInv'
<1> USE DEF local, bounds
<1>d. SUFFICES ASSUME LinesInv, RestoreInv, [Next]_vars, NEW p \in Proc, Proc = {p}
               PROVE  Restores(p)'
    <2>1. RestoreInv /\ [Next]_vars => DOMAIN origin' = Proc
        BY DEF RestoreInv, Next, vars, Start, Begin, Work, ReadFile, WriteFile, FileFails, Return,
               Snapshot, SnapshotFails, Restore, UserAdds, Crash
    <2>q. QED
        BY <2>1 DEF RestoreInv
<1>0. /\ Restores(p) /\ AllInv /\ file \in [Path -> Contents]
      /\ errs \in [Proc -> Error] /\ snaps[p].of \in Seq(Record)
      /\ DOMAIN op = Proc /\ DOMAIN todo = Proc /\ DOMAIN last = Proc
      /\ DOMAIN snaps = Proc /\ DOMAIN origin = Proc
      /\ op[p] \in Named \cup {Idle}
      /\ todo[p] \in Seq(Path) /\ \A f \in Path : Tidy(file[f])
    BY <1>d DEF RestoreInv, LinesInv, TidyInv, AllInv, Typed, Inv, Orderly, Busy, Remembers
<1>a. Idle.name = "idle" /\ NoLast.op.name = "idle" /\ Hard # Nil
    BY DEF Idle, NoLast, Hard, Nil
\* A step that changes none of it.
<1>b. ASSUME UNCHANGED <<file, op, todo, errs, last, snaps, origin>> PROVE Restores(p)'
    BY <1>0, <1>b DEF Restores, Recalls, RestoreGoes, RestoreDone
<1>1. ASSUME NEW o \in Operations, Start(p, o) PROVE Restores(p)'
    <2>1. /\ op'[p] = o /\ last'[p] = NoLast /\ UNCHANGED <<file, snaps, origin>>
          /\ o.name = "multi" => Body(o) # <<>>
        BY <1>0, <1>1 DEF Start, Begin
    <2>2. o.name # "restore"
        BY NamesAre DEF Named
    <2>3. Recalls(p)'
        BY <1>0, <2>1, <2>2 DEF Restores, Recalls
    <2>q. QED
        BY <1>a, <2>1, <2>2, <2>3 DEF Restores, RestoreGoes, RestoreDone
\* A restore begins: everything is to come.
<1>2. ASSUME Restore(p) PROVE Restores(p)'
    <2>1. /\ ToSet(todo'[p]) = DOMAIN op'[p].arg
          /\ \A f \in DOMAIN op'[p].arg : op'[p].arg[f] \in ToSet(snaps[p].of) /\ op'[p].arg[f].path = f
        BY <1>0, <1>2, RestoreType
    <2>2. op'[p].name = "restore" /\ last'[p] = NoLast /\ UNCHANGED <<file, snaps, origin>>
        BY <1>0, <1>2 DEF Restore, Begin
    <2>3. Recalls(p)'
        BY <1>0, <2>1, <2>2 DEF Restores, Recalls
    <2>q. QED
        BY <1>a, <2>1, <2>2, <2>3 DEF Restores, RestoreGoes, RestoreDone
<1>3. ASSUME ReadFile(p) PROVE Restores(p)'
    BY <1>3, <1>b DEF ReadFile
<1>4. ASSUME WriteFile(p) PROVE Restores(p)'
    <2> DEFINE f == Head(todo[p])
    <2>1. /\ todo[p] # <<>> /\ f \in Path /\ op[p] \in Named
          /\ op[p] \in RestoreOps => f \in DOMAIN op[p].arg
          /\ file' = [file EXCEPT ![f] = Target(op[p], f, file[f])]
        BY <1>0, <1>4, WriteIs
    <2>2. \A g \in ToSet(todo[p]) : g = f \/ g \in ToSet(Tail(todo[p]))
        BY <1>0, <2>1, InSet
    <2> HIDE DEF f
    <2>3. op' = op /\ errs' = errs /\ todo'[p] = Tail(todo[p]) /\ UNCHANGED <<last, snaps, origin>>
        BY <1>0, <1>4 DEF WriteFile, NextFile
    <2>4. op[p] # Idle
        BY <2>1, NamesAre
    <2>5. /\ file[f] \in Contents /\ Tidy(file[f]) /\ file'[f] = Target(op[p], f, file[f])
          /\ \A g \in Path : g # f => file'[g] = file[g]
        BY <1>0, <2>1
    <2>6. \A g \in Path : Since(file[g], origin[p][g]) => Since(file'[g], origin[p][g])
        <3>1. op[p].name = "multi" => Body(op[p]) # <<>>
            BY <1>0 DEF Restores, Recalls
        <3>2. op[p] \in RestoreOps => Recorded(op[p].arg[f], origin[p][f])
            BY <1>0, <2>1, NamesAre DEF Restores, Recalls
        <3>3. Since(file[f], origin[p][f]) => Since(file'[f], origin[p][f])
            BY <2>1, <2>5, <3>1, <3>2, SinceKept
        <3>q. QED
            BY <2>5, <3>3
    <2>7. Recalls(p)'
        BY <1>0, <2>3, <2>6, RecallsStays
    <2>8. ASSUME op[p].name = "restore", errs[p] = Nil, NEW g \in DOMAIN op[p].arg
          PROVE  g \in ToSet(todo'[p]) \/ Exact(file'[g], origin[p][g])
        <3>1. /\ op[p] \in RestoreOps /\ DOMAIN op[p].arg \subseteq Path
              /\ \A h \in DOMAIN op[p].arg : op[p].arg[h] \in Record
            BY <2>1, <2>8, NamesAre DEF Named
        <3>2. CASE g = f
            <4>1. Recorded(op[p].arg[f], origin[p][f]) /\ Since(file[f], origin[p][f])
                BY <1>0, <2>1, <2>8, <3>1 DEF Restores, Recalls
            <4>2. file'[f] = Restored(op[p].arg[f], file[f])
                BY <2>5, <2>8 DEF Target
            <4>q. QED
                BY <2>1, <2>5, <3>1, <3>2, <4>1, <4>2, RestoredExact
        <3>3. CASE g # f
            <4>1. file'[g] = file[g] /\ (g \in ToSet(todo[p]) \/ Exact(file[g], origin[p][g]))
                BY <1>0, <2>5, <2>8, <3>1, <3>3 DEF Restores, RestoreGoes
            <4>q. QED
                BY <2>2, <2>3, <3>3, <4>1
        <3>q. QED
            BY <3>2, <3>3
    <2>9. RestoreGoes(p)'
        BY <2>3, <2>8 DEF RestoreGoes
    <2>q. QED
        BY <2>3, <2>4, <2>7, <2>9 DEF Restores, RestoreDone
<1>5. ASSUME FileFails(p) PROVE Restores(p)'
    <2>1. buf[p] # Unread /\ op' = op /\ errs'[p] = Hard /\ UNCHANGED <<file, snaps, origin>>
        BY <1>0, <1>5 DEF FileFails
    <2>2. op[p] # Idle
        BY <1>d, <2>1 DEF LinesInv, AllInv, Inv, Orderly
    <2>3. Recalls(p)'
        BY <1>0, <2>1 DEF Restores, Recalls
    <2>q. QED
        BY <1>a, <2>1, <2>2, <2>3 DEF Restores, RestoreGoes, RestoreDone
\* A restore returns what it has collected.
<1>6. ASSUME Return(p) PROVE Restores(p)'
    <2>1. /\ op'[p] = Idle /\ op[p] # Idle /\ todo[p] = <<>> /\ last'[p].op = op[p]
          /\ UNCHANGED <<file, errs, origin>>
        BY <1>0, <1>6 DEF Return
    <2>2. op[p].name = "restore" => last'[p].result = errs[p]
        BY <1>0, <1>6 DEF Return
    <2>3. \A f : f \notin ToSet(<<>>)
        BY DEF ToSet
    <2>4. snaps'[p] = NoSnap \/ snaps' = snaps
        BY <1>0, <1>6 DEF Return
    <2>5. Recalls(p)'
        BY <1>0, <1>a, <2>1, <2>3, <2>4 DEF Restores, Recalls, NoSnap
    <2>6. op[p].name = "restore" => DOMAIN op[p].arg \subseteq Path
        BY <1>0, <2>1, NamesAre DEF Named
    <2>7. RestoreDone(p)'
        BY <1>0, <2>1, <2>2, <2>3, <2>6 DEF Restores, RestoreGoes, RestoreDone
    <2>q. QED
        BY <1>a, <2>1, <2>5, <2>7 DEF Restores, RestoreGoes
\* A snapshot: from now on the files are compared with what they hold here.
<1>7. ASSUME Snapshot(p) PROVE Restores(p)'
    <2>1. /\ snaps'[p].of \in Seq(Record) /\ Len(snaps'[p].of) = Len(RcTargets)
          /\ \A i \in 1..Len(RcTargets) :
                 snaps'[p].of[i] = [path |-> RcTargets[i], existed |-> file[RcTargets[i]] # Missing,
                                    body |-> BlockBody(Read(file[RcTargets[i]]))]
        BY <1>0, <1>7, SnapshotType
    <2>2. op[p] = Idle /\ origin'[p] = file /\ UNCHANGED <<file, op, todo, errs, last>>
        BY <1>0, <1>7 DEF Snapshot
    <2>3. ASSUME NEW s \in ToSet(snaps'[p].of) PROVE Recorded(s, file[s.path])
        <3>1. PICK i \in 1..Len(RcTargets) : s = snaps'[p].of[i]
            BY <2>1, InSet
        <3>2. s = [path |-> RcTargets[i], existed |-> file[RcTargets[i]] # Missing,
                   body |-> BlockBody(Read(file[RcTargets[i]]))]
            BY <2>1, <3>1
        <3>q. QED
            BY <3>2 DEF Recorded
    <2>4. \A f \in Path : Since(file[f], file[f]) /\ Exact(file[f], file[f])
        BY <1>0, SinceThen
    <2>5. Recalls(p)'
        BY <1>a, <2>2, <2>3, <2>4 DEF Recalls
    <2>6. RestoreDone(p)'
        BY <1>0, <2>2, <2>4 DEF Restores, RestoreDone
    <2>q. QED
        BY <1>a, <2>2, <2>5, <2>6 DEF Restores, RestoreGoes
<1>8. ASSUME SnapshotFails(p) PROVE Restores(p)'
    <2>1. last'[p].op.name = "snapshot" /\ op[p] = Idle /\ UNCHANGED <<op, file, snaps, origin>>
        BY <1>0, <1>8 DEF SnapshotFails
    <2>2. Recalls(p)'
        BY <1>0, <2>1 DEF Restores, Recalls
    <2>q. QED
        BY <1>a, <2>1, <2>2 DEF Restores, RestoreGoes, RestoreDone
<1>9. ASSUME NEW f \in Path, UserAdds(f) PROVE Restores(p)'
    <2>1. UNCHANGED <<op, todo, errs, last, snaps, origin>>
        BY <1>9 DEF UserAdds
    <2>2. /\ file[f] \in Content
          /\ \A g \in Path : file'[g] = IF g = f THEN Joined(Append(file[f].lines, UserLine)) ELSE file[g]
        BY <1>d, <1>9, AddedAlone
    <2>3. \A g \in Path : /\ Since(file[g], origin[p][g]) => Since(file'[g], origin[p][g])
                          /\ Exact(file[g], origin[p][g]) => Exact(file'[g], origin[p][g])
        BY <2>2, SinceAdded
    <2>4. Recalls(p)'
        BY <1>0, <2>1, <2>3, RecallsStays
    <2>5. op[p].name = "restore" => DOMAIN op[p].arg \subseteq Path
        BY <1>0, <1>a, NamesAre DEF Named
    <2>6. RestoreGoes(p)'
        BY <1>0, <2>1, <2>3, <2>5 DEF Restores, RestoreGoes
    <2>7. RestoreDone(p)'
        BY <1>0, <2>1, <2>3 DEF Restores, RestoreDone
    <2>q. QED
        BY <2>4, <2>6, <2>7 DEF Restores
<1>10. CASE Crash
    <2>1. op'[p] = Idle /\ last'[p] = NoLast /\ snaps'[p] = NoSnap /\ UNCHANGED <<file, origin>>
        BY <1>10 DEF Crash
    <2>2. \A f : f \notin ToSet(<<>>)
        BY DEF ToSet
    <2>3. Recalls(p)'
        BY <1>0, <1>a, <2>1, <2>2 DEF Restores, Recalls, NoSnap
    <2>q. QED
        BY <1>a, <2>1, <2>3 DEF Restores, RestoreGoes, RestoreDone
<1>11. CASE UNCHANGED vars
    BY <1>11, <1>b DEF vars
<1>12. \A q \in Proc : q = p
    BY <1>d
<1>q. QED
    BY <1>d, <1>1, <1>2, <1>3, <1>4, <1>5, <1>6, <1>7, <1>8, <1>9, <1>10, <1>11, <1>12 DEF Next, Work

\* "The restore is exact", in a program with one goroutine, whatever sets,
\* Unsets, failures and edits came after the snapshot: each file has the
\* block it had, and a file that was not there is gone again unless the user
\* has put a line in.
THEOREM RestoresExact == ASSUME TidyHomes PROVE Spec => []RestoreIsExact
<1>1. Init => LinesInv
    BY LinesInit
<1>2. LinesInv /\ [Next]_vars => LinesInv'
    BY AllInvStep, TidyStep DEF LinesInv
<1>3. LinesInv /\ Init => RestoreInv
    <2> SUFFICES ASSUME LinesInv, Init PROVE RestoreInv
        OBVIOUS
    <2>1. file \in [Path -> Contents]
        BY DEF LinesInv, AllInv, Typed
    <2>2. \A f \in Path : Since(file[f], file[f])
        BY <2>1, SinceThen
    <2>3. \A s : s \notin ToSet(<<>>)
        BY DEF ToSet
    <2>q. QED
        BY <2>2, <2>3 DEF Init, RestoreInv, Restores, Recalls, RestoreGoes, RestoreDone, Idle, NoLast, NoSnap
<1>4. RestoreInv => RestoreIsExact
    <2> SUFFICES ASSUME RestoreInv, NEW p \in Proc, Ended(p, "restore"), last[p].result = Nil,
                        NEW f \in DOMAIN last[p].op.arg
                 PROVE  Exact(file[f], origin[p][f])
        BY Zenon DEF RestoreIsExact, Exact, Matters
    <2>q. QED
        BY DEF RestoreInv, Restores, RestoreDone, Ended
<1>q. QED
    BY <1>1, <1>2, <1>3, <1>4, RestoreStep, PTL DEF Spec

-----------------------------------------------------------------------------
(* SetMulti, by any number of goroutines at a time.                        *)

LEMMA NothingJoined ==
    ASSUME NEW b \in Seq(Line) PROVE b \o <<>> = b /\ <<>> \o b = b
OBVIOUS

LEMMA KeptLines ==
    ASSUME NEW ls \in Seq(Line), NEW drop
    PROVE  /\ Without(ls, drop) \in Seq(Line)
           /\ \A i \in 1..Len(Without(ls, drop)) :
                 /\ Nth(Rest(Len(ls), drop), i) \in Rest(Len(ls), drop)
                 /\ Without(ls, drop)[i] = ls[Nth(Rest(Len(ls), drop), i)]
BY WithoutType

LEMMA InnerLines ==
    ASSUME NEW b \in Seq(Inner)
    PROVE  b \in Seq(Line) /\ DOMAIN b = 1..Len(b) /\ Len(b) \in Nat
BY DEF Inner

\* Cutting one of two parts off.
LEMMA CutRight ==
    ASSUME NEW a \in Seq(Line), NEW b \in Seq(Line), NEW cut,
           cut = {i \in 1..Len(a \o b) : i > Len(a)}
    PROVE  /\ Without(a \o b, cut) = a
           /\ \A i \in 1..Len(a) : Nth(Rest(Len(a \o b), cut), i) = i
<1>1. /\ a \o b \in Seq(Line) /\ Len(a \o b) = Len(a) + Len(b) /\ Len(a) \in Nat /\ Len(b) \in Nat
      /\ \A n \in 1..Len(a) : (a \o b)[n] = a[n]
    BY Concatenated
<1>2. PICK ls : ls = a \o b
    OBVIOUS
<1>3. PICK l, m : l = Len(a) /\ m = Len(ls) /\ l \in Nat /\ m \in Nat /\ l <= m
    BY <1>1, <1>2
<1>4. PICK h : h = [i \in 1..l |-> i]
    OBVIOUS
<1>5. PICK K : K = Rest(m, cut)
    OBVIOUS
<1>6. K = 1..l /\ K = (1..m) \ cut /\ K \in SUBSET (1..m)
    BY <1>2, <1>3, <1>5 DEF Rest
<1>7. h \in [1..l -> K] /\ \A i \in 1..l : h[i] = i
    BY <1>4, <1>6
<1>8. Counts(h, l, K)
    BY <1>3, <1>6, <1>7 DEF Counts
<1>9. Picks(a, ls, h)
    BY <1>1, <1>2, <1>3, <1>7 DEF Picks
<1>10. Without(ls, cut) = a
    <2>1. Counts(h, Len(a), (1..Len(ls)) \ cut) /\ ls \in Seq(Line)
        BY <1>1, <1>2, <1>3, <1>6, <1>8
    <2>q. QED
        BY <1>9, <2>1, WithoutBy
<1>11. \A i \in 1..l : Nth(K, i) = h[i]
    <2>1. m \in Nat /\ l \in Nat /\ K \in SUBSET (1..m)
        BY <1>3, <1>6
    <2>q. QED
        BY <1>8, <2>1, Numbered
<1>q. QED
    BY <1>2, <1>3, <1>5, <1>7, <1>10, <1>11

LEMMA CutLeft ==
    ASSUME NEW a \in Seq(Line), NEW b \in Seq(Line), NEW cut, cut = 1..Len(a)
    PROVE  /\ Without(a \o b, cut) = b
           /\ \A i \in 1..Len(b) : Nth(Rest(Len(a \o b), cut), i) = Len(a) + i
<1>1. /\ a \o b \in Seq(Line) /\ Len(a \o b) = Len(a) + Len(b) /\ Len(a) \in Nat /\ Len(b) \in Nat
      /\ \A n \in 1..Len(b) : (a \o b)[Len(a) + n] = b[n]
    BY Concatenated
<1>2. PICK ls : ls = a \o b
    OBVIOUS
<1>3. PICK l, k, m : l = Len(a) /\ k = Len(b) /\ m = Len(ls) /\ l \in Nat /\ k \in Nat /\ m = l + k
    BY <1>1, <1>2
<1>4. PICK h : h = [i \in 1..k |-> l + i]
    OBVIOUS
<1>5. PICK K : K = Rest(m, cut)
    OBVIOUS
<1>6. K = (l + 1)..m /\ K = (1..m) \ cut /\ K \in SUBSET (1..m)
    BY <1>2, <1>3, <1>5 DEF Rest
<1>7. h \in [1..k -> K] /\ \A i \in 1..k : h[i] = l + i
    <2>1. \A i \in 1..k : l + i \in K
        BY <1>3, <1>6
    <2>q. QED
        BY <1>4, <2>1
<1>8. Counts(h, k, K)
    <2>1. \A j \in (l + 1)..m : j - l \in 1..k /\ l + (j - l) = j
        BY <1>3
    <2>2. \A i \in 1..k, j \in 1..k : i < j => h[i] < h[j]
        BY <1>3, <1>7
    <2>3. \A j \in K : \E i \in 1..k : h[i] = j
        BY <1>6, <1>7, <2>1
    <2>q. QED
        BY <1>7, <2>2, <2>3 DEF Counts
<1>9. Picks(b, ls, h)
    BY <1>1, <1>2, <1>3, <1>7 DEF Picks
<1>10. Without(ls, cut) = b
    <2>1. Counts(h, Len(b), (1..Len(ls)) \ cut) /\ ls \in Seq(Line)
        BY <1>1, <1>2, <1>3, <1>6, <1>8
    <2>q. QED
        BY <1>9, <2>1, WithoutBy
<1>11. \A i \in 1..k : Nth(K, i) = h[i]
    <2>1. m \in Nat /\ k \in Nat /\ K \in SUBSET (1..m)
        BY <1>3, <1>6
    <2>q. QED
        BY <1>8, <2>1, Numbered
<1>q. QED
    BY <1>2, <1>3, <1>5, <1>7, <1>10, <1>11

\* Only the positions of lines matter.
LEMMA SamePlaces ==
    ASSUME NEW ls \in Seq(Line), NEW d, NEW e, \A i \in 1..Len(ls) : i \in d <=> i \in e
    PROVE  Without(ls, d) = Without(ls, e)
<1>1. Rest(Len(ls), d) = Rest(Len(ls), e)
    BY DEF Rest
<1>2. DOMAIN ls = 1..Len(ls) /\ Len(ls) \in Nat
    OBVIOUS
<1>3. Without(ls, d) = [i \in 1..Cardinality(Rest(Len(ls), d)) |-> ls[Nth(Rest(Len(ls), d), i)]]
    BY <1>2, WithoutIs
<1>4. Without(ls, e) = [i \in 1..Cardinality(Rest(Len(ls), e)) |-> ls[Nth(Rest(Len(ls), e), i)]]
    BY <1>2, WithoutIs
<1>q. QED
    BY <1>1, <1>3, <1>4

\* The lines `rest` of what is left without `cut` are those of `all`.
Agree(ls, cut, rest, all) ==
    \A n \in 1..Len(Without(ls, cut)) : n \in rest <=> Nth(Rest(Len(ls), cut), n) \in all

LEMMA TwiceLines ==
    ASSUME NEW ls \in Seq(Line), NEW cut, NEW rest, NEW all, cut \subseteq all, Agree(ls, cut, rest, all)
    PROVE  Without(Without(ls, cut), rest) = Without(ls, all)
BY WithoutTwice DEF Agree

\* Dropping lines of one of two parts, and the other part.
LEMMA LeftHalf ==
    ASSUME NEW a \in Seq(Line), NEW b \in Seq(Line), NEW drop, NEW low,
           \A i \in 1..Len(a) : i \in low <=> i \in drop,
           \A i \in 1..Len(a \o b) : i > Len(a) => i \in low
    PROVE  Without(a \o b, low) = Without(a, drop)
<1>1. PICK ls : ls = a \o b
    OBVIOUS
<1>2. ls \in Seq(Line) /\ Len(ls) = Len(a) + Len(b) /\ Len(a) \in Nat /\ Len(b) \in Nat
    BY <1>1, Concatenated
<1>3. PICK cut : cut = {i \in 1..Len(ls) : i > Len(a)}
    OBVIOUS
<1>4. PICK all : all = {i \in 1..Len(ls) : i \in low}
    OBVIOUS
<1>5. Without(ls, cut) = a /\ \A i \in 1..Len(a) : Nth(Rest(Len(ls), cut), i) = i
    BY <1>1, <1>3, CutRight
<1>6. cut \subseteq all
    BY <1>1, <1>3, <1>4
<1>7. \A i \in 1..Len(a) : i \in drop <=> i \in all
    BY <1>2, <1>4
<1>8. Without(Without(ls, cut), drop) = Without(ls, all)
    <2>1. Agree(ls, cut, drop, all)
        BY <1>5, <1>7 DEF Agree
    <2>q. QED
        BY <1>2, <1>6, <2>1, TwiceLines
<1>9. Without(ls, all) = Without(ls, low)
    BY <1>2, <1>4, SamePlaces
<1>q. QED
    BY <1>1, <1>5, <1>8, <1>9

LEMMA RightHalf ==
    ASSUME NEW a \in Seq(Line), NEW b \in Seq(Line), NEW drop, NEW high,
           \A i \in 1..Len(b) : Len(a) + i \in high <=> i \in drop,
           \A i \in 1..Len(a) : i \in high
    PROVE  Without(a \o b, high) = Without(b, drop)
<1>1. PICK ls : ls = a \o b
    OBVIOUS
<1>2. ls \in Seq(Line) /\ Len(ls) = Len(a) + Len(b) /\ Len(a) \in Nat /\ Len(b) \in Nat
    BY <1>1, Concatenated
<1>3. PICK cut : cut = 1..Len(a)
    OBVIOUS
<1>4. PICK all : all = {i \in 1..Len(ls) : i \in high}
    OBVIOUS
<1>5. Without(ls, cut) = b /\ \A i \in 1..Len(b) : Nth(Rest(Len(ls), cut), i) = Len(a) + i
    BY <1>1, <1>3, CutLeft
<1>6. cut \subseteq all
    BY <1>2, <1>3, <1>4
<1>7. \A i \in 1..Len(b) : i \in drop <=> Len(a) + i \in all
    BY <1>2, <1>4
<1>8. Agree(ls, cut, drop, all)
    BY <1>5, <1>7 DEF Agree
<1>9. Without(Without(ls, cut), drop) = Without(ls, all)
    BY <1>2, <1>6, <1>8, TwiceLines
<1>10. Without(ls, all) = Without(ls, high)
    BY <1>2, <1>4, SamePlaces
<1>q. QED
    BY <1>1, <1>5, <1>9, <1>10

LEMMA DefsJoin ==
    ASSUME NEW a \in Seq(Line), NEW b \in Seq(Line), NEW n
    PROVE  Defs(a \o b, n) = Defs(a, n) \o Defs(b, n)
<1> DEFINE ls == a \o b
           drop == {i \in DOMAIN ls : VarName(ls[i]) # n}
           dropA == {i \in DOMAIN a : VarName(a[i]) # n}
           dropB == {i \in DOMAIN b : VarName(b[i]) # n}
           at == Len(a) + 1
           low == {i \in 1..Len(ls) : i \in drop \/ i >= at}
           high == {i \in 1..Len(ls) : i \in drop \/ i < at}
<1>1. /\ ls \in Seq(Line) /\ Len(ls) = Len(a) + Len(b) /\ Len(a) \in Nat /\ Len(b) \in Nat
      /\ \A i \in 1..Len(a) : ls[i] = a[i]
      /\ \A i \in 1..Len(b) : ls[Len(a) + i] = b[i]
    BY Concatenated
<1> HIDE DEF ls
<1>2. \A i \in 1..Len(ls) : i \in drop <=> VarName(ls[i]) # n
    BY <1>1
<1>3. (\A i \in 1..Len(a) : i \in dropA <=> VarName(a[i]) # n)
      /\ \A i \in 1..Len(b) : i \in dropB <=> VarName(b[i]) # n
    OBVIOUS
<1> HIDE DEF drop, dropA, dropB
<1>4. Without(ls, low) \o Without(ls, high) = Without(ls, drop)
    <2>1. at \in Int
        BY <1>1
    <2> HIDE DEF at
    <2>q. QED
        BY <1>1, <2>1, WithoutSplit
<1>5. PICK l, k : l = Len(a) /\ k = Len(b) /\ l \in Nat /\ k \in Nat /\ Len(ls) = l + k
    BY <1>1
<1>6. Without(ls, low) = Without(a, dropA)
    <2>1. \A i \in 1..Len(a) : i \in low <=> i \in dropA
        <3>1. \A i \in 1..l : i \in 1..Len(ls) /\ ~(i >= at) /\ (i \in drop <=> i \in dropA)
            BY <1>1, <1>2, <1>3, <1>5
        <3>q. QED
            BY <1>5, <3>1
    <2>2. \A i \in 1..Len(ls) : i > Len(a) => i \in low
        BY <1>5
    <2>q. QED
        BY <2>1, <2>2, LeftHalf DEF ls
<1>7. Without(ls, high) = Without(b, dropB)
    <2>1. \A i \in 1..Len(b) : Len(a) + i \in high <=> i \in dropB
        <3>1. \A i \in 1..k : l + i \in 1..Len(ls) /\ ~(l + i < at) /\ (l + i \in drop <=> i \in dropB)
            BY <1>1, <1>2, <1>3, <1>5
        <3>q. QED
            BY <1>5, <3>1
    <2>2. \A i \in 1..Len(a) : i \in high
        BY <1>5
    <2>q. QED
        BY <2>1, <2>2, RightHalf DEF ls
<1>q. QED
    BY <1>4, <1>6, <1>7 DEF Defs, ls, drop, dropA, dropB

\* Lines for other variables do not matter.
LEMMA DefsKept ==
    ASSUME NEW old \in Seq(Line), NEW n, NEW drop,
           \A i \in drop : i \in 1..Len(old) /\ VarName(old[i]) # n
    PROVE  Defs(Without(old, drop), n) = Defs(old, n)
<1> DEFINE kept == Without(old, drop)
           all == {i \in DOMAIN old : VarName(old[i]) # n}
           rest == {i \in DOMAIN kept : VarName(kept[i]) # n}
<1>1. /\ kept \in Seq(Line)
      /\ \A i \in 1..Len(kept) : /\ Nth(Rest(Len(old), drop), i) \in Rest(Len(old), drop)
                                 /\ kept[i] = old[Nth(Rest(Len(old), drop), i)]
    BY WithoutType
<1>2. drop \subseteq all
    OBVIOUS
<1>3. \A i \in 1..Len(kept) : i \in rest <=> Nth(Rest(Len(old), drop), i) \in all
    <2> HIDE DEF kept
    <2>1. \A i \in Rest(Len(old), drop) : i \in DOMAIN old
        BY DEF Rest
    <2>q. QED
        BY <1>1, <2>1
<1>4. Without(kept, rest) = Without(old, all)
    <2> HIDE DEF rest, all
    <2>q. QED
        BY <1>2, <1>3, WithoutTwice
<1>q. QED
    BY <1>4 DEF Defs

\* What a merged block says: what the new lines say, and what the old ones
\* said of the other variables.
LEMMA MergedValue ==
    ASSUME NEW old \in Seq(Inner), NEW updated \in Seq(Inner), NEW n, n # ""
    PROVE  ValueOf(MergeBody(old, updated), n) =
              IF \E i \in 1..Len(updated) : VarName(updated[i]) = n THEN ValueOf(updated, n)
              ELSE ValueOf(old, n)
<1> DEFINE names == {VarName(l) : l \in ToSet(updated)} \ {""}
           drop == {i \in DOMAIN old : VarName(old[i]) \in names}
           kept == Without(old, drop)
<1>1. old \in Seq(Line) /\ updated \in Seq(Line) /\ DOMAIN old = 1..Len(old)
    BY InnerLines
<1>2. MergeBody(old, updated) = kept \o updated
    BY DEF MergeBody
<1>3. n \in names <=> \E i \in 1..Len(updated) : VarName(updated[i]) = n
    <2>1. \A x : x \in ToSet(updated) <=> \E i \in 1..Len(updated) : updated[i] = x
        BY <1>1, InSet
    <2>q. QED
        BY <2>1
<1>4. /\ kept \in Seq(Line)
      /\ \A i \in 1..Len(kept) : /\ Nth(Rest(Len(old), drop), i) \in Rest(Len(old), drop)
                                 /\ kept[i] = old[Nth(Rest(Len(old), drop), i)]
    <2>1. \A d : /\ Without(old, d) \in Seq(Line)
                 /\ \A i \in 1..Len(Without(old, d)) :
                       /\ Nth(Rest(Len(old), d), i) \in Rest(Len(old), d)
                       /\ Without(old, d)[i] = old[Nth(Rest(Len(old), d), i)]
        BY <1>1, KeptLines
    <2> HIDE DEF drop
    <2>q. QED
        BY <2>1
<1> HIDE DEF names
<1>6. \A i \in drop : i \in 1..Len(old) /\ VarName(old[i]) \in names
    BY <1>1
<1>5. \A i \in Rest(Len(old), drop) : VarName(old[i]) \notin names
    BY <1>1 DEF Rest
<1> HIDE DEF names, drop, kept
<1>7. Defs(kept \o updated, n) = Defs(kept, n) \o Defs(updated, n)
    <2>1. kept \in Seq(Line) /\ updated \in Seq(Line)
        BY <1>1, <1>4
    <2>q. QED
        BY <2>1, DefsJoin
<1>8. \A b \in Seq(Line) : /\ Defs(b, n) \in Seq(Line)
                            /\ Defs(b, n) \o <<>> = Defs(b, n) /\ <<>> \o Defs(b, n) = Defs(b, n)
    <2>1. ASSUME NEW b \in Seq(Line) PROVE Defs(b, n) \in Seq(Line)
        BY WithoutType DEF Defs
    <2>q. QED
        BY <2>1, NothingJoined
<1>9. CASE n \in names
    <2>1. Defs(kept, n) = <<>>
        BY <1>4, <1>5, <1>9, NobodyDefines
    <2>2. Defs(kept \o updated, n) = Defs(updated, n)
        BY <1>1, <1>7, <1>8, <2>1
    <2>q. QED
        BY <1>2, <1>3, <1>9, <2>2 DEF ValueOf
<1>10. CASE n \notin names
    <2>1. Defs(updated, n) = <<>>
        BY <1>1, <1>3, <1>10, NobodyDefines
    <2>2. Defs(kept, n) = Defs(old, n)
        BY <1>1, <1>6, <1>10, DefsKept DEF kept
    <2>3. Defs(kept \o updated, n) = Defs(old, n)
        BY <1>1, <1>7, <1>8, <2>1, <2>2
    <2>q. QED
        BY <1>2, <1>3, <1>10, <2>3 DEF ValueOf
<1>q. QED
    BY <1>9, <1>10

LEMMA KeptVars ==
    ASSUME NEW names \in Seq(Vars), NEW drop
    PROVE  /\ Without(names, drop) \in Seq(Vars)
           /\ Len(Without(names, drop)) = Cardinality(Rest(Len(names), drop))
           /\ \A i \in 1..Len(Without(names, drop)) :
                 /\ Nth(Rest(Len(names), drop), i) \in Rest(Len(names), drop)
                 /\ Without(names, drop)[i] = names[Nth(Rest(Len(names), drop), i)]
BY WithoutType

LEMMA KeptNames ==
    ASSUME NEW names \in Seq(Vars), Len(names) = 4, NEW drop, NEW K, K = Rest(4, drop)
    PROVE  /\ Without(names, drop) \in Seq(Vars) /\ Len(Without(names, drop)) = Cardinality(K)
           /\ \A i \in 1..Len(Without(names, drop)) :
                 Nth(K, i) \in K /\ Without(names, drop)[i] = names[Nth(K, i)]
<1>1. Rest(Len(names), drop) = K
    OBVIOUS
<1>2. /\ Without(names, drop) \in Seq(Vars)
      /\ Len(Without(names, drop)) = Cardinality(Rest(Len(names), drop))
      /\ \A i \in 1..Len(Without(names, drop)) :
            /\ Nth(Rest(Len(names), drop), i) \in Rest(Len(names), drop)
            /\ Without(names, drop)[i] = names[Nth(Rest(Len(names), drop), i)]
    BY KeptVars
<1>q. QED
    BY <1>1, <1>2

LEMMA ExportSays ==
    ASSUME NEW v \in Vars, NEW x
    PROVE  VarName(Export(v, x)) = v /\ Export(v, x).val = x
BY DEF VarName, Export

\* The lines of SetMulti: one for each field that is given.
LEMMA ConfigBody ==
    ASSUME NEW o \in Operations, o.name = "multi", NEW n \in Vars \ {"AUTOPROXY"}
    PROVE  /\ o.arg[n] = "" => \A i \in 1..Len(Body(o)) : VarName(Body(o)[i]) # n
           /\ o.arg[n] # "" => /\ \E i \in 1..Len(Body(o)) : VarName(Body(o)[i]) = n
                               /\ ValueOf(Body(o), n) = o.arg[n]
<1> DEFINE names == <<"http_proxy", "https_proxy", "all_proxy", "no_proxy">>
           drop == {i \in DOMAIN names : o.arg[names[i]] = ""}
           K == Rest(4, drop)
           given == Without(names, drop)
<1>1. Body(o) = [i \in DOMAIN given |-> Export(given[i], o.arg[given[i]])]
    BY DEF Body
<1>2. names \in Seq(Vars) /\ Len(names) = 4 /\ DOMAIN names = 1..4
    BY DEF Vars
<1>3. PICK j \in 1..4 : \A i \in 1..4 : names[i] = n <=> i = j
    <2>1. n = "http_proxy" \/ n = "https_proxy" \/ n = "all_proxy" \/ n = "no_proxy"
        BY DEF Vars
    <2>2. \A i \in 1..4 : i = 1 \/ i = 2 \/ i = 3 \/ i = 4
        OBVIOUS
    <2>3. names[1] = "http_proxy" /\ names[2] = "https_proxy" /\ names[3] = "all_proxy" /\ names[4] = "no_proxy"
        OBVIOUS
    <2> HIDE DEF names
    <2>4. CASE n = "http_proxy"
        <3>1. \A i \in 1..4 : names[i] = n <=> i = 1
            BY <2>2, <2>3, <2>4
        <3>q. QED
            BY <3>1
    <2>5. CASE n = "https_proxy"
        <3>1. \A i \in 1..4 : names[i] = n <=> i = 2
            BY <2>2, <2>3, <2>5
        <3>q. QED
            BY <3>1
    <2>6. CASE n = "all_proxy"
        <3>1. \A i \in 1..4 : names[i] = n <=> i = 3
            BY <2>2, <2>3, <2>6
        <3>q. QED
            BY <3>1
    <2>7. CASE n = "no_proxy"
        <3>1. \A i \in 1..4 : names[i] = n <=> i = 4
            BY <2>2, <2>3, <2>7
        <3>q. QED
            BY <3>1
    <2>q. QED
        BY <2>1, <2>4, <2>5, <2>6, <2>7
<1>4. \A i \in 1..4 : i \in K <=> o.arg[names[i]] # ""
    BY <1>2 DEF Rest
<1>5. K \in SUBSET (1..4)
    BY DEF Rest
<1> HIDE DEF names, drop
<1>6. /\ given \in Seq(Vars) /\ Len(given) = Cardinality(K)
      /\ \A i \in 1..Len(given) : Nth(K, i) \in K /\ given[i] = names[Nth(K, i)]
    BY <1>2, KeptNames
<1> HIDE DEF K, given
<1>7. Len(Body(o)) = Len(given) /\ DOMAIN given = 1..Len(given)
      /\ \A i \in 1..Len(given) : Body(o)[i] = Export(given[i], o.arg[given[i]])
    BY <1>1, <1>6
<1>8. \A i \in 1..Len(given) : VarName(Body(o)[i]) = given[i] /\ Body(o)[i].val = o.arg[given[i]]
    <2>1. \A i \in 1..Len(given) : given[i] \in Vars
        BY <1>6
    <2>q. QED
        BY <1>7, <2>1, ExportSays
<1>9. \A i \in 1..Len(given) : given[i] = n <=> Nth(K, i) = j
    BY <1>3, <1>5, <1>6
<1>10. CASE o.arg[n] = ""
    <2>1. j \notin K
        BY <1>3, <1>4, <1>10
    <2>2. \A i \in 1..Len(given) : given[i] # n
        BY <1>6, <1>9, <2>1
    <2>q. QED
        BY <1>7, <1>8, <1>10, <2>2
<1>11. CASE o.arg[n] # ""
    <2>1. j \in K
        BY <1>3, <1>4, <1>11
    <2>2. PICK k : k = Rank(K, j)
        OBVIOUS
    <2>3. k \in 1..Cardinality(K) /\ Nth(K, k) = j
        BY <1>5, <2>1, <2>2, NthIs
    <2>4. \A i \in 1..Cardinality(K) : Nth(K, i) = j => i = k
        BY <1>5, <2>2, NthIs
    <2>5. \A i \in 1..Len(Body(o)) : VarName(Body(o)[i]) = n <=> i = k
        BY <1>6, <1>7, <1>8, <1>9, <2>3, <2>4
    <2>6. Body(o) \in Seq(Inner) /\ k \in 1..Len(Body(o))
        BY <1>6, <1>7, <2>3, BodyType
    <2>7. ValueOf(Body(o), n) = Body(o)[k].val
        BY <2>5, <2>6, LineValue
    <2>8. Body(o)[k].val = o.arg[n]
        BY <1>6, <1>8, <1>9, <2>3
    <2>q. QED
        BY <1>11, <2>5, <2>6, <2>7, <2>8
<1>q. QED
    BY <1>10, <1>11

LEMMA MultiWrites ==
    ASSUME NEW o \in Operations, o.name = "multi", NEW f, NEW c \in Contents, Tidy(c),
           NEW n \in Vars \ {"AUTOPROXY"}
    PROVE  BlockValue(Target(o, f, c), n) = IF o.arg[n] # "" THEN o.arg[n] ELSE BlockValue(c, n)
<1> DEFINE new == Applied(o, c)
           old == BlockBody(Read(c))
<1>1. Target(o, f, c) = new
    BY DEF Target
<1>2. new \in Content /\ BlockBody(new) = NewBody(o, c)
    BY AppliedIs
<1>3. DropIfUserDefined(Body(o), Read(c), Yield(o)) = Body(o)
    BY DEF DropIfUserDefined, Yield
<1>4. NewBody(o, c) = MergeBody(old, Body(o))
    BY <1>3 DEF NewBody
<1>5. old \in Seq(Inner) /\ Body(o) \in Seq(Inner)
    BY ReadIs, BodyInner, BodyType
<1>6. BlockValue(c, n) = ValueOf(old, n)
    BY DEF BlockValue, ValueOf, Defs
<1> HIDE DEF new, old
<1>7. BlockValue(new, n) = ValueOf(MergeBody(old, Body(o)), n)
    BY <1>2, <1>4, ValueIs
<1>8. n # ""
    BY DEF Vars
<1>9. ValueOf(MergeBody(old, Body(o)), n) =
         IF \E i \in 1..Len(Body(o)) : VarName(Body(o)[i]) = n THEN ValueOf(Body(o), n) ELSE ValueOf(old, n)
    BY <1>5, <1>8, MergedValue
<1>q. QED
    BY <1>1, <1>6, <1>7, <1>9, ConfigBody

\* The operation a goroutine is in, or has returned from; who has begun one.
Of(p) == IF op[p] = Idle THEN last[p].op ELSE op[p]
Begun == {p \in Proc : Of(p) # Idle}

\* Each goroutine has called SetMulti at most once, and nothing else has
\* happened.
Quiet == /\ ops = Cardinality(Begun) /\ faults = 0
         /\ \A q \in Begun : Of(q).name = "multi"

Given(S, n) == {Of(q).arg[n] : q \in S} \ {""}
Through(f)  == {q \in Begun : f \notin ToSet(todo[q])}

\* With the files h at the beginning, every SetMulti goes through f.
Always(h, f) ==
    \/ h[f] # Missing
    \/ shell = "zsh" /\ f = Zshrc
    \/ shell # "zsh" /\ f = DefaultRC /\ \A g \in ToSet(RcPaths) : h[g] = Missing

\* What has been given is there, unless another goroutine is still to come
\* through the file.
Has(h, f, n) ==
    \/ BlockValue(file[f], n) \in Given(Begun, n)
    \/ Given(Through(f), n) = {} /\ BlockValue(file[f], n) = BlockValue(h[f], n)

Merged(h, f) ==
    /\ h[f] # Missing => file[f] # Missing
    /\ file[f] # Missing => Always(h, f)
    /\ \A q \in Begun : f \in ToSet(todo[q]) => Always(h, f)
    /\ \A q \in Begun : Always(h, f) /\ file[f] = Missing => f \in ToSet(todo[q])
    /\ file[f] # Missing => \A n \in Vars \ {"AUTOPROXY"} : Has(h, f, n)

Origins == {origin[r] : r \in Proc}

Merging == /\ \A q \in Begun : ToSet(todo[q]) \subseteq ToSet(RcPaths)
           /\ \A h \in Origins, f \in ToSet(RcPaths) : Merged(h, f)

NoSnaps == \A p \in Proc : snaps[p] = NoSnap

MergeInv == /\ NoSnaps /\ DOMAIN origin = Proc
            /\ Cardinality(Begun) <= ops
            /\ Quiet => Merging

Calm == IsFiniteSet(Proc) /\ Restorers = {}

LEMMA BegunFinite == ASSUME Calm PROVE IsFiniteSet(Begun) /\ Cardinality(Begun) \in Nat
<1>1. Begun \subseteq Proc
    BY DEF Begun
<1>q. QED
    BY <1>1, FS_Subset, FS_CardinalityType DEF Calm

\* A step after which each goroutine is still in the same operation.
LEMMA SameBegun ==
    ASSUME \A q \in Proc : Of(q)' = Of(q)
    PROVE  /\ Begun' = Begun
           /\ \A n : \A S \in SUBSET Proc : Given(S, n)' = Given(S, n)
           /\ ops' = ops /\ faults' = faults => (Quiet' <=> Quiet)
<1>1. Begun' = Begun
    BY DEF Begun
<1>2. \A n : \A S \in SUBSET Proc : Given(S, n)' = Given(S, n)
    BY DEF Given
<1>3. \A q \in Begun : q \in Proc
    BY DEF Begun
<1>4. ops' = ops /\ faults' = faults => (Quiet' <=> Quiet)
    BY <1>1, <1>3 DEF Quiet
<1>q. QED
    BY <1>1, <1>2, <1>4

\* Nothing happens to the files, or to what is left to do.
LEMMA MergedStays ==
    ASSUME MergeInv, UNCHANGED <<todo, ops, faults, shell, origin>>,
           \A q \in Proc : Of(q)' = Of(q) /\ snaps'[q] = snaps[q],
           \A f \in Path : file'[f] = Missing <=> file[f] = Missing,
           \A f \in Path : \A n : BlockValue(file'[f], n) = BlockValue(file[f], n)
    PROVE  MergeInv'
<1>1. Begun' = Begun /\ (Quiet' <=> Quiet)
    BY SameBegun
<1>2. \A h, f : Always(h, f)' <=> Always(h, f)
    BY DEF Always
<1>3. Begun \subseteq Proc /\ ToSet(RcPaths) \subseteq Path
    BY PathsAre DEF Begun
<1>4. \A f : Through(f)' = Through(f)
    BY <1>1 DEF Through
<1>5. ASSUME NEW h, NEW f \in ToSet(RcPaths), Merged(h, f) PROVE Merged(h, f)'
    <2>1. \A n : Given(Begun, n)' = Given(Begun, n) /\ Given(Through(f), n)' = Given(Through(f), n)
        <3>1. \A q \in Begun : Of(q)' = Of(q)
            BY <1>3
        <3>2. Through(f) \subseteq Begun
            BY DEF Through
        <3>3. ASSUME NEW S, S \subseteq Begun, NEW n
              PROVE  {Of(q)'.arg[n] : q \in S} = {Of(q).arg[n] : q \in S}
            BY <3>1, <3>3
        <3>4. \A n : {Of(q)'.arg[n] : q \in Begun} = {Of(q).arg[n] : q \in Begun}
            BY <3>3
        <3>5. \A n : {Of(q)'.arg[n] : q \in Through(f)} = {Of(q).arg[n] : q \in Through(f)}
            BY <3>2, <3>3
        <3>6. Begun' = Begun /\ Through(f)' = Through(f)
            BY <1>1, <1>4
        <3>q. QED
            BY <3>4, <3>5, <3>6 DEF Given
    <2>2. \A n : Has(h, f, n) => Has(h, f, n)'
        BY <1>3, <2>1 DEF Has
    <2>3. file'[f] = Missing <=> file[f] = Missing
        BY <1>3
    <2>q. QED
        BY <1>1, <1>2, <1>5, <2>2, <2>3 DEF Merged
<1>6. Origins' = Origins
    BY DEF Origins
<1>7. Merging => Merging'
    BY <1>1, <1>5, <1>6 DEF Merging
<1>q. QED
    BY <1>1, <1>7 DEF MergeInv, NoSnaps

\* A SetMulti begins, in a goroutine that has not called one.
LEMMA MultiBegins ==
    ASSUME MergeInv, Merging, NEW p \in Proc, p \notin Begun, NEW o, o # Idle,
           Of(p)' = o, \A q \in Proc \ {p} : Of(q)' = Of(q),
           todo'[p] = RcTargets, \A q \in Proc \ {p} : todo'[q] = todo[q],
           UNCHANGED <<file, shell, origin>>
    PROVE  Merging'
<1>1. Begun' = Begun \cup {p} /\ Begun \subseteq Proc
    BY DEF Begun
<1>2. /\ RcTargets # <<>> /\ ToSet(RcTargets) \subseteq ToSet(RcPaths) /\ RcTargets \in Seq(Path)
      /\ \A f \in ToSet(RcPaths) : file[f] # Missing => f \in ToSet(RcTargets)
      /\ shell = "zsh" => Zshrc \in ToSet(RcTargets)
      /\ \A f \in ToSet(RcTargets) :
            \/ file[f] # Missing
            \/ shell = "zsh" /\ f = Zshrc
            \/ shell # "zsh" /\ f = DefaultRC /\ \A g \in ToSet(RcPaths) : file[g] = Missing
    BY TargetsAre
<1>3. PICK T : T = ToSet(RcTargets)
    OBVIOUS
<1>4. T # {}
    BY <1>2, <1>3, InSet
<1>5. \A h, f : Always(h, f)' <=> Always(h, f)
    BY DEF Always
<1>6. Origins' = Origins
    BY DEF Origins
<1>7. ToSet(todo'[p]) = T /\ \A q \in Begun : todo'[q] = todo[q]
    BY <1>1, <1>3
<1>8. ASSUME NEW h \in Origins, NEW f \in ToSet(RcPaths) PROVE Merged(h, f)'
    <2>1. \A g \in ToSet(RcPaths) : Merged(h, g)
        BY DEF Merging
    <2>2. \A g \in ToSet(RcPaths) : /\ h[g] # Missing => file[g] # Missing
                                    /\ file[g] # Missing => Always(h, g)
        BY <2>1 DEF Merged
    <2>3. Merged(h, f)
        BY <2>1
    <2>4. ASSUME f \in T PROVE Always(h, f)
        <3>1. CASE file[f] # Missing
            BY <2>2, <3>1
        <3>2. CASE file[f] = Missing
            BY <1>2, <1>3, <2>2, <2>4, <3>2 DEF Always
        <3>q. QED
            BY <3>1, <3>2
    <2>5. ASSUME Always(h, f), file[f] = Missing PROVE f \in T
        <3>1. CASE shell = "zsh" /\ f = Zshrc
            BY <1>2, <1>3, <3>1
        <3>2. CASE shell # "zsh" /\ f = DefaultRC /\ \A g \in ToSet(RcPaths) : h[g] = Missing
            <4>1. \A g \in ToSet(RcPaths) : file[g] = Missing
                BY <2>2, <2>5, <3>2 DEF Always
            <4>2. \A g \in T : g = f
                BY <1>2, <1>3, <3>2, <4>1
            <4>q. QED
                BY <1>4, <4>2
        <3>q. QED
            BY <2>2, <2>5, <3>1, <3>2 DEF Always
    <2>6. file[f] # Missing => f \in T
        BY <1>2, <1>3
    <2>7. ASSUME file[f] # Missing PROVE \A n : Has(h, f, n) => Has(h, f, n)'
        <3>1. Through(f)' = Through(f)
            BY <1>1, <1>7, <2>6, <2>7 DEF Through
        <3>2. \A n : Given(Through(f), n)' = Given(Through(f), n) /\ Given(Begun, n) \subseteq Given(Begun, n)'
            <4>1. \A q \in Begun : Of(q)' = Of(q)
                BY <1>1
            <4>2. Through(f) \subseteq Begun
                BY DEF Through
            <4>3. \A n : Given(Through(f), n)' = Given(Through(f), n)
                BY <3>1, <4>1, <4>2 DEF Given
            <4>4. \A n : Given(Begun, n) \subseteq Given(Begun, n)'
                BY <1>1, <4>1 DEF Given
            <4>q. QED
                BY <4>3, <4>4
        <3>q. QED
            BY <3>2 DEF Has
    <2>q. QED
        BY <1>1, <1>5, <1>7, <2>2, <2>3, <2>4, <2>5, <2>7 DEF Merged
<1>q. QED
    BY <1>1, <1>2, <1>3, <1>6, <1>7, <1>8 DEF Merging

\* The block of a file takes over what is given, and keeps the rest.
Takes(new, o, old) ==
    \A n \in Vars \ {"AUTOPROXY"} :
       /\ o.arg[n] # "" => BlockValue(new, n) = o.arg[n]
       /\ o.arg[n] = "" => BlockValue(new, n) = BlockValue(old, n)

LEMMA MultisWrite ==
    ASSUME NEW o \in Operations, o.name = "multi", NEW f, NEW c \in Contents, Tidy(c)
    PROVE  Takes(Target(o, f, c), o, c)
BY MultiWrites DEF Takes

\* A SetMulti writes a file.
LEMMA MultiMerges ==
    ASSUME Merging, NEW p \in Begun, NEW o \in Operations, o.name = "multi", Of(p) = o,
           todo[p] \in Seq(Path), todo[p] # <<>>, NEW f, f = Head(todo[p]),
           file \in [Path -> Contents], \A g \in Path : Tidy(file[g]),
           file' = [file EXCEPT ![f] = Target(o, f, file[f])],
           todo' = [todo EXCEPT ![p] = Tail(todo[p])], DOMAIN todo = Proc,
           \A q \in Proc : Of(q)' = Of(q), UNCHANGED <<shell, origin>>
    PROVE  Merging'
<1>1. Begun' = Begun /\ Begun \subseteq Proc /\ Origins' = Origins
    BY SameBegun DEF Begun, Origins
<1>2. ToSet(todo[p]) \subseteq ToSet(RcPaths) /\ ToSet(RcPaths) \subseteq Path
    BY PathsAre DEF Merging
<1>3. /\ f \in ToSet(todo[p]) /\ ToSet(Tail(todo[p])) \subseteq ToSet(todo[p])
      /\ \A g \in ToSet(todo[p]) : g = f \/ g \in ToSet(Tail(todo[p]))
    BY InSet
<1>4. todo'[p] = Tail(todo[p]) /\ \A q \in Proc \ {p} : todo'[q] = todo[q]
    BY <1>1
<1>5. /\ file[f] \in Contents /\ Tidy(file[f]) /\ file'[f] = Target(o, f, file[f])
      /\ \A g \in Path : g # f => file'[g] = file[g]
    BY <1>2, <1>3
<1>6. file'[f] # Missing
    <2>1. o \in Named /\ Applies(o)
        BY DEF Named, Applies
    <2>q. QED
        BY <1>5, <2>1, AppliedThere
<1>7. \A h, g : Always(h, g)' <=> Always(h, g)
    BY DEF Always
<1>8. \A q \in Begun : /\ ToSet(todo'[q]) \subseteq ToSet(todo[q])
                       /\ \A g \in ToSet(todo[q]) : g = f \/ g \in ToSet(todo'[q])
    BY <1>1, <1>3, <1>4
<1>9. ASSUME NEW h \in Origins, NEW g \in ToSet(RcPaths), g # f PROVE Merged(h, g)'
    <2>1. Merged(h, g)
        BY DEF Merging
    <2>2. file'[g] = file[g]
        BY <1>2, <1>5, <1>9
    <2>3. Through(g)' = Through(g)
        BY <1>1, <1>8, <1>9 DEF Through
    <2>4. \A n : Given(Begun, n)' = Given(Begun, n) /\ Given(Through(g), n)' = Given(Through(g), n)
        BY <1>1, <2>3 DEF Given, Through
    <2>5. \A n : Has(h, g, n) => Has(h, g, n)'
        BY <2>2, <2>4 DEF Has
    <2>q. QED
        BY <1>1, <1>7, <1>8, <1>9, <2>1, <2>2, <2>5 DEF Merged
<1>10. ASSUME NEW h \in Origins PROVE Merged(h, f)'
    <2>1. Merged(h, f) /\ f \in ToSet(RcPaths)
        BY <1>2, <1>3 DEF Merging
    <2>2. Always(h, f)
        BY <1>3, <2>1 DEF Merged
    <2>3. ASSUME NEW n \in Vars \ {"AUTOPROXY"} PROVE Has(h, f, n)'
        <3>1. /\ o.arg[n] # "" => BlockValue(file'[f], n) = o.arg[n]
              /\ o.arg[n] = "" => BlockValue(file'[f], n) = BlockValue(file[f], n)
            <4>1. file[f] \in Contents /\ Tidy(file[f]) /\ file'[f] = Target(o, f, file[f])
                BY <1>5
            <4>2. Takes(file'[f], o, file[f])
                BY <4>1, MultisWrite
            <4>q. QED
                BY <2>3, <4>2 DEF Takes
        <3>2. /\ \A x : x \in Given(Begun, n)' <=> x # "" /\ \E q \in Begun : x = Of(q).arg[n]
              /\ \A x : x \in Given(Begun, n) <=> x # "" /\ \E q \in Begun : x = Of(q).arg[n]
            BY <1>1 DEF Given
        <3>3. CASE o.arg[n] # ""
            <4>1. BlockValue(file'[f], n) \in Given(Begun, n)'
                BY <3>1, <3>2, <3>3
            <4>q. QED
                BY <4>1 DEF Has
        <3>4. CASE o.arg[n] = ""
            <4>1. BlockValue(file'[f], n) = BlockValue(file[f], n)
                BY <3>1, <3>4
            <4>2. \A q \in Through(f)' : q = p \/ f \notin ToSet(todo[q])
                BY <1>1, <1>4 DEF Through
            <4>3. Through(f)' \subseteq Begun
                BY <1>1 DEF Through
            <4>4. CASE BlockValue(file[f], n) \in Given(Begun, n)
                <5>1. BlockValue(file'[f], n) \in Given(Begun, n)'
                    BY <3>2, <4>1, <4>4
                <5>q. QED
                    BY <5>1 DEF Has
            <4>5. CASE BlockValue(file[f], n) \notin Given(Begun, n)
                <5>1. ASSUME NEW q \in Through(f)' PROVE Of(q).arg[n] = ""
                    <6>1. CASE q = p
                        BY <3>4, <6>1
                    <6>2. CASE q # p
                        <7>1. q \in Through(f) /\ file[f] # Missing
                            BY <2>1, <2>2, <4>2, <4>3, <6>2 DEF Merged, Through
                        <7>2. Given(Through(f), n) = {}
                            BY <2>1, <2>3, <4>5, <7>1 DEF Merged, Has
                        <7>q. QED
                            BY <7>1, <7>2 DEF Given
                    <6>q. QED
                        BY <6>1, <6>2
                <5>2. Given(Through(f), n)' = {}
                    BY <1>1, <4>3, <5>1 DEF Given
                <5>3. BlockValue(file[f], n) = BlockValue(h[f], n)
                    BY <2>1, <2>3, <4>5 DEF Merged, Has
                <5>q. QED
                    BY <4>1, <5>2, <5>3 DEF Has
            <4>q. QED
                BY <4>4, <4>5
        <3>q. QED
            BY <3>3, <3>4
    <2>q. QED
        BY <1>6, <1>7, <2>2, <2>3 DEF Merged
<1>11. \A q \in Begun' : ToSet(todo'[q]) \subseteq ToSet(RcPaths)
    BY <1>1, <1>8 DEF Merging
<1>q. QED
    BY <1>1, <1>9, <1>10, <1>11 DEF Merging

LEMMA MergeStep == ASSUME Calm PROVE LinesInv /\ MergeInv /\ [Next]_vars => MergeInv'
<1> SUFFICES ASSUME LinesInv, MergeInv, [Next]_vars PROVE MergeInv'
    OBVIOUS
<1> USE DEF local, bounds
<1>0. /\ file \in [Path -> Contents] /\ DOMAIN last = Proc
      /\ DOMAIN op = Proc /\ DOMAIN todo = Proc /\ DOMAIN snaps = Proc /\ DOMAIN origin = Proc
      /\ \A q \in Proc : todo[q] \in Seq(Path) /\ (op[q] = Idle => todo[q] = <<>>)
                         /\ (todo[q] = <<>> => buf[q] = Unread)
      /\ \A f \in Path : Tidy(file[f])
    BY DEF LinesInv, TidyInv, AllInv, Typed, Inv, Orderly, Busy, MergeInv
<1>c. ops \in Nat /\ faults \in Nat
    <2>1. Budget /\ MaxOps \in Nat
        BY RcAssumption DEF LinesInv, AllInv, Typed
    <2>q. QED
        BY <2>1 DEF Budget
<1>a. NoSnaps /\ Cardinality(Begun) <= ops /\ (Quiet => Merging) /\ NoSnap.open = FALSE
      /\ IsFiniteSet(Begun) /\ Cardinality(Begun) \in Nat
    BY BegunFinite DEF MergeInv, NoSnap
<1>1. ASSUME NEW p \in Proc, NEW o \in Operations, Start(p, o) PROVE MergeInv'
    <2>1. /\ ops' = ops + 1 /\ op'[p] = o /\ (o.name # "unset" => todo'[p] = RcTargets)
          /\ UNCHANGED <<file, shell, origin, snaps, faults>>
          /\ \A q \in Proc \ {p} : op'[q] = op[q] /\ last'[q] = last[q] /\ todo'[q] = todo[q]
        BY <1>0, <1>1 DEF Start, Begin
    <2>2. o # Idle
        BY NamesAre DEF Named
    <2>3. Of(p)' = o /\ \A q \in Proc \ {p} : Of(q)' = Of(q)
        BY <2>1, <2>2 DEF Of
    <2>4. Begun' = Begun \cup {p} /\ p \in Begun'
        BY <2>2, <2>3 DEF Begun
    <2>5. IsFiniteSet(Begun') /\ Cardinality(Begun') = IF p \in Begun THEN Cardinality(Begun)
                                                      ELSE Cardinality(Begun) + 1
        BY <1>a, <2>4, FS_AddElement
    <2>6. Cardinality(Begun') <= ops'
        BY <1>a, <1>c, <2>1, <2>5
    <2>7. ASSUME Quiet' PROVE Merging'
        <3>1. ops' = Cardinality(Begun') /\ faults' = 0 /\ \A q \in Begun' : Of(q)'.name = "multi"
            BY <2>7 DEF Quiet
        <3>2. p \notin Begun /\ ops = Cardinality(Begun)
            BY <1>a, <1>c, <2>1, <2>5, <3>1
        <3>3. \A q \in Begun : Of(q)' = Of(q) /\ q \in Begun'
            BY <2>3, <2>4, <3>2 DEF Begun
        <3>4. Quiet
            BY <2>1, <3>1, <3>2, <3>3 DEF Quiet
        <3>5. todo'[p] = RcTargets
            BY <2>1, <2>3, <2>4, <3>1
        <3>q. QED
            BY <1>a, <2>1, <2>2, <2>3, <3>2, <3>4, <3>5, MultiBegins
    <2>q. QED
        BY <1>0, <1>a, <2>1, <2>6, <2>7 DEF MergeInv, NoSnaps
\* A step that leaves the files, and what is left to do.
<1>b. ASSUME UNCHANGED <<file, todo, ops, faults, shell, origin>>,
             \A q \in Proc : Of(q)' = Of(q) /\ snaps'[q] = snaps[q]
      PROVE  MergeInv'
    BY <1>b, MergedStays
<1>2. ASSUME NEW p \in Proc, ReadFile(p) PROVE MergeInv'
    <2>1. \A q \in Proc : Of(q)' = Of(q)
        BY <1>2 DEF ReadFile, Of
    <2>2. UNCHANGED <<file, todo, ops, faults, shell, origin, snaps>>
        BY <1>2 DEF ReadFile
    <2>q. QED
        BY <1>b, <2>1, <2>2
<1>3. ASSUME NEW p \in Proc, WriteFile(p) PROVE MergeInv'
    <2> DEFINE f == Head(todo[p])
    <2>1. /\ todo[p] # <<>> /\ op[p] \in Named
          /\ file' = [file EXCEPT ![f] = Target(op[p], f, file[f])]
        BY <1>3, WriteIs DEF LinesInv
    <2>2. /\ todo' = [todo EXCEPT ![p] = Tail(todo[p])]
          /\ UNCHANGED <<op, last, ops, faults, shell, origin, snaps>>
        BY <1>3 DEF WriteFile, NextFile
    <2>3. \A q \in Proc : Of(q)' = Of(q)
        BY <2>2 DEF Of
    <2>4. Begun' = Begun /\ (Quiet' <=> Quiet)
        BY <2>2, <2>3, SameBegun
    <2>5. op[p] # Idle /\ Of(p) = op[p] /\ p \in Begun
        BY <2>1, NamesAre DEF Of, Begun
    <2>6. ASSUME Quiet PROVE Merging'
        <3>1. op[p].name = "multi"
            BY <2>5, <2>6 DEF Quiet
        <3>2. op[p] \in Operations
            BY <2>1, <3>1, NamesAre DEF Named
        <3>3. PICK o \in Operations : o = op[p]
            BY <3>2
        <3>4. Of(p) = o /\ o.name = "multi" /\ file' = [file EXCEPT ![f] = Target(o, f, file[f])]
            BY <2>1, <2>5, <3>1, <3>3
        <3>5. Merging /\ todo[p] \in Seq(Path) /\ UNCHANGED <<shell, origin>>
            BY <1>0, <1>a, <2>2, <2>6
        <3>q. QED
            BY <1>0, <2>1, <2>2, <2>3, <2>5, <3>4, <3>5, MultiMerges
    <2>q. QED
        BY <1>0, <1>a, <2>2, <2>4, <2>6 DEF MergeInv, NoSnaps
\* A failure, and a crash, end the quiet.
<1>4. ASSUME NEW p \in Proc, FileFails(p) PROVE MergeInv'
    <2>1. faults' = faults + 1 /\ UNCHANGED <<op, last, ops, origin, snaps>>
        BY <1>4 DEF FileFails, Fault
    <2>2. \A q \in Proc : Of(q)' = Of(q)
        BY <2>1 DEF Of
    <2>3. Begun' = Begun
        BY <2>2, SameBegun
    <2>4. ~Quiet'
        BY <1>c, <2>1 DEF Quiet
    <2>q. QED
        BY <1>0, <1>a, <1>c, <2>1, <2>3, <2>4 DEF MergeInv, NoSnaps
<1>5. ASSUME NEW p \in Proc, Return(p) PROVE MergeInv'
    <2>1. /\ op' = [op EXCEPT ![p] = Idle] /\ op[p] # Idle
          /\ last'[p].op = op[p] /\ (\A q \in Proc \ {p} : last'[q] = last[q])
          /\ UNCHANGED <<file, todo, ops, faults, shell, origin>>
        BY <1>0, <1>5 DEF Return
    <2>2. \A q \in Proc : Of(q)' = Of(q)
        <3>1. \A q \in Proc \ {p} : op'[q] = op[q] /\ last'[q] = last[q]
            BY <1>0, <2>1
        <3>2. op'[p] = Idle
            BY <1>0, <2>1
        <3>q. QED
            BY <2>1, <3>1, <3>2 DEF Of
    <2>3. \A q \in Proc : snaps'[q] = snaps[q]
        <3>1. snaps' = [snaps EXCEPT ![p] = NoSnap] \/ snaps' = snaps
            BY <1>5 DEF Return
        <3>2. snaps[p] = NoSnap
            BY <1>a DEF NoSnaps
        <3>q. QED
            BY <1>0, <3>1, <3>2
    <2>q. QED
        BY <1>b, <2>1, <2>2, <2>3
\* Nobody takes a snapshot.
<1>6. ASSUME NEW p \in Proc, Snapshot(p) \/ SnapshotFails(p) \/ Restore(p) PROVE FALSE
    BY <1>6, <1>a DEF Snapshot, SnapshotFails, Restore, Calm, NoSnaps
<1>7. ASSUME NEW f \in Path, UserAdds(f) PROVE MergeInv'
    <2>1. UNCHANGED <<op, last, todo, ops, faults, shell, origin, snaps>> /\ file[f] # Missing
        BY <1>7 DEF UserAdds
    <2>2. \A q \in Proc : Of(q)' = Of(q)
        BY <2>1 DEF Of
    <2>3. /\ file[f] \in Content
          /\ \A g \in Path : file'[g] = IF g = f THEN Joined(Append(file[f].lines, UserLine)) ELSE file[g]
        BY <1>7, AddedAlone
    <2>4. PICK c, new : c = file[f] /\ new = Joined(Append(file[f].lines, UserLine))
        OBVIOUS
    <2>5. c \in Content /\ new \in Content /\ new # Missing /\ BlockBody(new) = BlockBody(c)
        BY <2>3, <2>4, AddedIs
    <2>6. \A n : BlockValue(new, n) = BlockValue(c, n)
        BY <2>5, ValueIs
    <2>7. \A g \in Path : file'[g] = Missing <=> file[g] = Missing
        BY <2>1, <2>3, <2>4, <2>5
    <2>8. \A g \in Path : \A n : BlockValue(file'[g], n) = BlockValue(file[g], n)
        BY <2>3, <2>4, <2>6
    <2>q. QED
        BY <2>1, <2>2, <2>7, <2>8, MergedStays
<1>8. CASE Crash
    <2>1. /\ UNCHANGED <<file, ops, faults, shell, origin>>
          /\ \A q \in Proc : op'[q] = Idle /\ last'[q] = NoLast /\ snaps'[q] = NoSnap
        BY <1>8 DEF Crash
    <2>2. Begun' = {}
        BY <2>1 DEF Begun, Of, NoLast
    <2>3. Cardinality(Begun') = 0
        BY <2>2, FS_EmptySet
    <2>4. ASSUME Quiet' PROVE Merging'
        <3>1. ops = 0 /\ faults = 0
            BY <2>1, <2>3, <2>4 DEF Quiet
        <3>2. Begun = {}
            <4>1. Cardinality(Begun) = 0
                BY <1>a, <3>1
            <4>q. QED
                BY <1>a, <4>1, FS_EmptySet
        <3>3. Merging
            <4>1. Cardinality(Begun) = 0
                BY <3>2, FS_EmptySet
            <4>q. QED
                BY <1>a, <3>1, <3>2, <4>1 DEF Quiet
        <3>4. \A h, f : (Always(h, f)' <=> Always(h, f)) /\ Origins' = Origins
            BY <2>1 DEF Always, Origins
        <3>5. \A h, f, n : Has(h, f, n) => Has(h, f, n)'
            <4>1. \A n, f : Given(Begun, n) = {} /\ Given(Through(f), n)' = {}
                BY <2>2, <3>2 DEF Given, Through
            <4>q. QED
                BY <2>1, <4>1 DEF Has
        <3>6. \A h \in Origins, f \in ToSet(RcPaths) : Merged(h, f)'
            BY <2>1, <2>2, <3>3, <3>4, <3>5 DEF Merged, Merging
        <3>q. QED
            BY <2>2, <3>4, <3>6 DEF Merging
    <2>q. QED
        BY <1>0, <1>c, <2>1, <2>3, <2>4 DEF MergeInv, NoSnaps
<1>9. CASE UNCHANGED vars
    <2>1. \A q \in Proc : Of(q)' = Of(q)
        BY <1>9 DEF vars, Of
    <2>2. UNCHANGED <<file, todo, ops, faults, shell, origin, snaps>>
        BY <1>9 DEF vars
    <2>q. QED
        BY <1>b, <2>1, <2>2
<1>q. QED
    BY <1>1, <1>2, <1>3, <1>4, <1>5, <1>6, <1>7, <1>8, <1>9 DEF Next, Work

\* "Fields left empty are not changed", for any number of goroutines that each
\* call SetMulti once, in any interleaving: what a file says of a variable in
\* the end was given by one of them, or when none gave it, it is what the file
\* said before.  (A restore would bring older values back: nobody takes
\* snapshots here.)
THEOREM MultisKeepAll ==
    ASSUME TidyHomes, Calm PROVE Spec => []MultisMerge
<1>1. Init => LinesInv
    BY LinesInit
<1>2. LinesInv /\ [Next]_vars => LinesInv'
    BY AllInvStep, TidyStep DEF LinesInv
<1>3. Init => MergeInv
    <2> SUFFICES ASSUME Init PROVE MergeInv
        OBVIOUS
    <2>1. Begun = {}
        BY DEF Init, Begun, Of, NoLast
    <2>2. Cardinality(Begun) = 0
        BY <2>1, FS_EmptySet
    <2>3. \A h \in Origins : h = file
        BY DEF Init, Origins
    <2>4. \A f, n : Given(Through(f), n) = {}
        BY <2>1 DEF Given, Through
    <2>5. \A h \in Origins : \A f : Merged(h, f)
        BY <2>1, <2>3, <2>4 DEF Merged, Has, Always
    <2>q. QED
        BY <2>1, <2>2, <2>5 DEF Init, MergeInv, NoSnaps, Merging
<1>4. LinesInv /\ MergeInv => MultisMerge
    <2> SUFFICES ASSUME LinesInv, MergeInv,
                        \A p \in Proc : op[p] = Idle /\ last[p].op.name = "multi",
                        ops = Cardinality(Proc), faults = 0,
                        NEW f \in ToSet(RcPaths), NEW n \in Vars \ {"AUTOPROXY"}, NEW p \in Proc,
                        file[f] # Missing
                 PROVE  LET given == {last[q].op.arg[n] : q \in Proc} \ {""}
                        IN  BlockValue(file[f], n) \in IF given # {} THEN given
                                                       ELSE {BlockValue(origin[p][f], n)}
        BY DEF MultisMerge
    <2>1. \A q \in Proc : Of(q) = last[q].op /\ Of(q) # Idle /\ Of(q).name = "multi"
        BY DEF Of, Idle
    <2>2. Begun = Proc
        BY <2>1 DEF Begun
    <2>3. Quiet
        BY <2>1, <2>2 DEF Quiet
    <2>4. Has(origin[p], f, n)
        BY <2>3 DEF MergeInv, Merging, Merged, Origins
    <2>5. \A q \in Proc : todo[q] = <<>>
        BY DEF LinesInv, AllInv, Inv, Orderly
    <2>6. Through(f) = Proc
        BY <2>2, <2>5 DEF Through, ToSet
    <2>7. Given(Proc, n) = {last[q].op.arg[n] : q \in Proc} \ {""}
        <3>1. \A q \in Proc : Of(q).arg[n] = last[q].op.arg[n]
            BY <2>1
        <3>2. {Of(q).arg[n] : q \in Proc} = {last[q].op.arg[n] : q \in Proc}
            BY <3>1, Zenon
        <3>q. QED
            BY <3>2 DEF Given
    <2>q. QED
        BY <2>2, <2>4, <2>6, <2>7 DEF Has
<1>q. QED
    BY <1>1, <1>2, <1>3, <1>4, MergeStep, PTL DEF Spec

-----------------------------------------------------------------------------
(* Every file of BlockFiles, damaged or not, and what findBlocks,          *)
(* updateBlock and blockBody promise of it.                                *)

\* A block found in lines before a marker ends before it.
LEMMA BlocksBefore ==
    ASSUME NEW a \in Seq(Line), NEW x \in Seq(Line), NEW b \in Seq(Line),
           NoBlock(a), Whole(x), x # <<>>, NEW s, NEW e, Block(a \o x \o b, s, e)
    PROVE  Len(a) < s
<1>1. /\ Len(a) \in Nat /\ Len(x) \in Nat /\ Len(b) \in Nat
      /\ Len(a \o x \o b) = Len(a) + Len(x) + Len(b)
      /\ \A n \in 1..Len(a) : (a \o x \o b)[n] = a[n]
      /\ \A n \in 1..Len(x) : (a \o x \o b)[Len(a) + n] = x[n]
    <2>1. \A n \in 1..Len(a) : (a \o b)[n] = a[n]
        BY Concatenated
    <2>q. QED
        BY <2>1, ThreeParts
<1>2. PICK d : d = a \o x \o b
    OBVIOUS
<1>3. PICK k, m, l : k = Len(a) /\ m = Len(x) /\ l = Len(d)
    OBVIOUS
<1>4. /\ k \in Nat /\ m \in Nat /\ l \in Nat /\ k + m <= l /\ k + 1 \in 1..l
      /\ 1 < m /\ Marker(d[k + 1]) /\ d[k + 1].kind = "begin"
    <2>1. 1 < m /\ x[1].kind = "begin" /\ d[Len(a) + 1] = x[1]
        BY <1>1, <1>2, <1>3 DEF Whole
    <2>q. QED
        BY <1>1, <1>2, <1>3, <2>1 DEF Marker
<1>5. Block(d, s, e)
    BY <1>2
<1>6. SUFFICES ASSUME s <= k PROVE FALSE
    <2>1. s \in Int
        BY <1>4, <1>5, <1>3 DEF Block
    <2>q. QED
        BY <1>3, <1>4, <2>1
<1>7. s \in 1..l /\ e \in 1..l /\ s < e /\ d[s].kind = "begin" /\ d[e].kind = "end"
      /\ \A j \in 1..l : s < j /\ j < e => ~Marker(d[j])
    BY <1>3, <1>5 DEF Block
<1>8. e <= k
    <2>1. ~(k + 1 < e) /\ e # k + 1
        BY <1>4, <1>6, <1>7
    <2>2. e \in Int /\ k \in Int
        BY <1>4, <1>7
    <2>q. QED
        BY <2>1, <2>2
<1>9. \A n \in 1..k : d[n] = a[n]
    BY <1>1, <1>2, <1>3
<1>10. Block(a, s, e)
    <2>1. s \in 1..k /\ e \in 1..k /\ \A j \in 1..k : j \in 1..l
        BY <1>4, <1>6, <1>7, <1>8
    <2>q. QED
        BY <1>3, <1>7, <1>9, <2>1 DEF Block
<1>q. QED
    BY <1>10 DEF NoBlock

LEMMA HeadIn == ASSUME NEW S, NEW f \in Seq(S), f # <<>> PROVE f[1] \in S
OBVIOUS

\* A block after lines without one is the first.
LEMMA FirstIs ==
    ASSUME NEW a \in Seq(Line), NEW x \in Seq(Line), NEW b \in Seq(Line),
           NoBlock(a), Whole(x), x # <<>>
    PROVE  /\ FindBlocks(a \o x \o b) # <<>>
           /\ FindBlocks(a \o x \o b)[1] = [start |-> Len(a) + 1, end |-> Len(a) + Len(x)]
<1>1. /\ a \o x \o b \in Seq(Line) /\ Len(a) \in Nat /\ Len(x) \in Nat /\ Len(b) \in Nat
      /\ Len(a \o x \o b) = Len(a) + Len(x) + Len(b)
      /\ \A n \in 1..Len(x) : (a \o x \o b)[Len(a) + n] = x[n]
    BY ThreeParts, SMTT(20)
<1>2. PICK d : d = a \o x \o b
    OBVIOUS
<1>0. PICK k, m, l, q : k = Len(a) /\ m = Len(x) /\ l = Len(d) /\ q = Len(b)
    OBVIOUS
<1>3. k = Len(a) /\ m = Len(x) /\ l = Len(d) /\ k \in Nat /\ m \in Nat /\ l \in Nat /\ k + m <= l
    <2>1. k \in Nat /\ m \in Nat /\ q \in Nat /\ l = k + m + q
        BY <1>0, <1>1, <1>2
    <2>q. QED
        BY <1>0, <2>1
<1>4. /\ 1 < m /\ x[1].kind = "begin" /\ x[m].kind = "end"
      /\ \A j \in 1..m : 1 < j /\ j < m => ~Marker(x[j])
    BY <1>3 DEF Whole
<1>5. \A n \in 1..m : d[k + n] = x[n]
    BY <1>1, <1>2, <1>3
<1>6. Block(d, k + 1, k + m)
    <2>1. k + 1 \in 1..l /\ k + m \in 1..l /\ k + 1 < k + m
        BY <1>3, <1>4
    <2>2. d[k + 1].kind = "begin" /\ d[k + m].kind = "end"
        BY <1>3, <1>4, <1>5
    <2>3. ASSUME NEW j \in 1..l, k + 1 < j, j < k + m PROVE ~Marker(d[j])
        <3>1. j - k \in 1..m /\ 1 < j - k /\ j - k < m /\ k + (j - k) = j
            BY <1>3, <2>3
        <3>q. QED
            BY <1>4, <1>5, <3>1
    <2>q. QED
        BY <1>3, <2>1, <2>2, <2>3 DEF Block
<1>7. FindBlocks(d) # <<>>
    BY <1>1, <1>2, <1>6, NothingFound DEF NoBlock
<1>8. PICK F : F = FindBlocks(d)[1]
    OBVIOUS
<1>9. Block(d, F.start, F.end) /\ F.start <= k + 1
    BY <1>1, <1>2, <1>6, <1>7, <1>8, FirstBlock
<1>10. k < F.start
    BY <1>2, <1>3, <1>9, BlocksBefore
<1>11. PICK s, e : s = F.start /\ e = F.end
    OBVIOUS
<1>12. s \in 1..l /\ e \in 1..l /\ s < e /\ d[e].kind = "end" /\ s = k + 1
       /\ \A j \in 1..l : s < j /\ j < e => ~Marker(d[j])
    BY <1>3, <1>9, <1>10, <1>11 DEF Block
<1>13. e = k + m
    <2>1. k + m \in 1..l /\ Marker(d[k + m]) /\ s < k + m
        BY <1>3, <1>6, <1>12 DEF Block, Marker
    <2>2. ~(k + m < e)
        BY <1>12, <2>1
    <2>3. ~(e < k + m)
        <3>1. e < k + m => ~Marker(d[e])
            BY <1>3, <1>6, <1>12 DEF Block
        <3>q. QED
            BY <1>12, <3>1 DEF Marker
    <2>4. e \in Int /\ k + m \in Int
        BY <1>3, <1>12
    <2>q. QED
        BY <2>2, <2>3, <2>4
<1>14. F \in [start : 1..l, end : 1..l]
    <2>1. FindBlocks(d) \in Seq([start : 1..l, end : 1..l])
        BY <1>1, <1>2, <1>3, BlocksFound
    <2>2. PICK f : f = FindBlocks(d)
        OBVIOUS
    <2>3. f \in Seq([start : 1..l, end : 1..l]) /\ f # <<>>
        BY <1>7, <2>1, <2>2
    <2>4. f[1] \in [start : 1..l, end : 1..l]
        BY <2>3, HeadIn
    <2>q. QED
        BY <1>8, <2>2, <2>4
<1>q. QED
    BY <1>2, <1>3, <1>7, <1>8, <1>11, <1>12, <1>13, <1>14

\* No line up to a place is dropped, and all others are.
LEMMA KeptBefore ==
    ASSUME NEW a \in Seq(Line), NEW b \in Seq(Line), NEW drop,
           \A i \in 1..Len(a \o b) : i \in drop <=> Len(a) < i
    PROVE  Without(a \o b, drop) = a
<1>1. /\ a \o b \in Seq(Line) /\ Len(a \o b) = Len(a) + Len(b) /\ Len(a) \in Nat /\ Len(b) \in Nat
    BY Concatenated
<1>2. PICK cut : cut = {i \in 1..Len(a \o b) : i > Len(a)}
    OBVIOUS
<1>3. PICK k, l : k = Len(a) /\ l = Len(a \o b) /\ k \in Nat /\ l \in Nat
    BY <1>1
<1>4. \A i \in 1..l : i \in drop <=> i \in cut
    BY <1>2, <1>3
<1>5. Without(a \o b, drop) = Without(a \o b, cut)
    BY <1>1, <1>3, <1>4, SamePlaces
<1>q. QED
    BY <1>2, <1>5, CutRight

\* Only the first block is looked for a place.
Place(ls) == IF FindBlocks(ls) = <<>> THEN Len(ls) + 1 ELSE FindBlocks(ls)[1].start

LEMMA SameSeq ==
    ASSUME NEW S, NEW a \in Seq(S), NEW b \in Seq(S), NEW l, Len(a) = l, Len(b) = l,
           \A n \in 1..l : a[n] = b[n]
    PROVE  b = a
OBVIOUS

\* Two parts that are those of ls.
CutAt(ls, a, b, k, l) ==
    /\ ls \in Seq(Line) /\ a \in Seq(Line) /\ b \in Seq(Line)
    /\ l = Len(ls) /\ l \in Nat /\ k \in 0..l /\ Len(a) = k /\ Len(b) = l - k
    /\ (\A n \in 1..k : a[n] = ls[n]) /\ \A n \in 1..(l - k) : b[n] = ls[k + n]

LEMMA Glued ==
    ASSUME NEW ls, NEW a, NEW b, NEW k, NEW l, CutAt(ls, a, b, k, l)
    PROVE  ls = a \o b
<1>0. /\ ls \in Seq(Line) /\ a \in Seq(Line) /\ b \in Seq(Line)
      /\ l = Len(ls) /\ l \in Nat /\ k \in 0..l /\ Len(a) = k /\ Len(b) = l - k
      /\ (\A n \in 1..k : a[n] = ls[n]) /\ \A n \in 1..(l - k) : b[n] = ls[k + n]
    BY DEF CutAt
<1>1. /\ a \o b \in Seq(Line) /\ Len(a \o b) = Len(a) + Len(b)
      /\ \A n \in 1..Len(a) : (a \o b)[n] = a[n]
      /\ \A n \in 1..Len(b) : (a \o b)[Len(a) + n] = b[n]
    BY <1>0, Concatenated
<1>2. PICK d : d = a \o b
    OBVIOUS
<1>3. /\ d \in Seq(Line) /\ Len(d) = k + (l - k)
      /\ \A n \in 1..k : d[n] = a[n]
      /\ \A m \in 1..(l - k) : d[k + m] = b[m]
    BY <1>0, <1>1, <1>2
<1>4. Len(d) = l
    <2>1. k + (l - k) = l
        BY <1>0
    <2>q. QED
        BY <1>3, <2>1
<1>5. ASSUME NEW n \in 1..l PROVE d[n] = ls[n]
    <2>1. CASE n \in 1..k
        <3>1. d[n] = a[n]
            BY <1>3, <2>1
        <3>q. QED
            BY <1>0, <2>1, <3>1
    <2>2. CASE n \notin 1..k
        <3>1. PICK m : m = n - k
            OBVIOUS
        <3>2. m \in 1..(l - k) /\ k + m = n
            BY <1>0, <2>2, <3>1
        <3>q. QED
            BY <1>0, <1>3, <3>2
    <2>q. QED
        BY <2>1, <2>2
<1>6. ls = d
    BY <1>0, <1>3, <1>4, <1>5, SameSeq
<1>q. QED
    BY <1>2, <1>6

\* A file up to a place, and from it.
LEMMA Cut ==
    ASSUME NEW ls \in Seq(Line), NEW s \in 1..(Len(ls) + 1)
    PROVE  /\ SubSeq(ls, 1, s - 1) \in Seq(Line) /\ SubSeq(ls, s, Len(ls)) \in Seq(Line)
           /\ Len(SubSeq(ls, 1, s - 1)) = s - 1
           /\ ls = SubSeq(ls, 1, s - 1) \o SubSeq(ls, s, Len(ls))
           /\ \A n \in 1..(s - 1) : SubSeq(ls, 1, s - 1)[n] = ls[n]
<1>1. PICK l : l = Len(ls) /\ l \in Nat
    OBVIOUS
<1>2. s \in 1..(l + 1) /\ 1 \in Int /\ s - 1 \in Nat
    BY <1>1
<1>3. PICK a, b : a = SubSeq(ls, 1, s - 1) /\ b = SubSeq(ls, s, l)
    OBVIOUS
<1>4. a \in Seq(Line) /\ Len(a) = s - 1 /\ \A n \in 1..(s - 1) : a[n] = ls[n]
    BY <1>1, <1>2, <1>3
<1>5. PICK k : k = s - 1 /\ k \in 0..l
    BY <1>1, <1>2
<1>6. b \in Seq(Line) /\ Len(b) = l - k /\ \A n \in 1..(l - k) : b[n] = ls[k + n]
    <2>1. b = [n \in 1..(l - s + 1) |-> ls[s + n - 1]]
        BY <1>1, <1>2, <1>3, SubSeqIs
    <2>2. l - s + 1 = l - k /\ \A n \in 1..(l - k) : s + n - 1 = k + n /\ k + n \in 1..l
        BY <1>1, <1>2, <1>5
    <2>3. PICK m : m = l - k /\ m \in Nat
        BY <1>1, <1>5
    <2>4. b = [n \in 1..m |-> ls[k + n]]
        BY <2>1, <2>2, <2>3
    <2>5. \A n \in 1..m : ls[k + n] \in Line
        BY <1>1, <2>2, <2>3
    <2>6. b \in [1..m -> Line]
        BY <2>4, <2>5
    <2>7. b \in Seq(Line) /\ Len(b) = m
        BY <2>3, <2>6, IsSequence
    <2>q. QED
        BY <2>3, <2>4, <2>7
<1>7. Len(a) = k /\ \A n \in 1..k : a[n] = ls[n]
    BY <1>4, <1>5
<1>8. ls = a \o b
    <2>1. CutAt(ls, a, b, k, l)
        BY <1>1, <1>4, <1>5, <1>6, <1>7 DEF CutAt
    <2>q. QED
        BY <2>1, Glued
<1>q. QED
    BY <1>1, <1>3, <1>4, <1>6, <1>8

\* A removal on the two sides of a place.
Halves(ls, low, high, drop, at) ==
    /\ ls \in Seq(Line) /\ at \in Int
    /\ \A i \in 1..Len(ls) : i \in low <=> i \in drop \/ i >= at
    /\ \A i \in 1..Len(ls) : i \in high <=> i \in drop \/ i < at

LEMMA HalvesKept ==
    ASSUME NEW ls, NEW low, NEW high, NEW drop, NEW at, Halves(ls, low, high, drop, at)
    PROVE  Without(ls, low) \o Without(ls, high) = Without(ls, drop)
<1>1. ls \in Seq(Line) /\ at \in Int
    BY DEF Halves
<1>2. \A i \in 1..Len(ls) : i \in low <=> i \in drop \/ i >= at
    BY DEF Halves
<1>3. \A i \in 1..Len(ls) : i \in high <=> i \in drop \/ i < at
    BY DEF Halves
<1>q. QED
    BY <1>1, <1>2, <1>3, WithoutSplit

\* What UpdateBlock makes of a file: the lines before the place, the block,
\* and what is left of the others.
LEMMA UpdateSplits ==
    ASSUME NEW c \in Content, NEW body \in Seq(Inner), NEW a \in Seq(Line), NEW r \in Seq(Line),
           ~(FindBlocks(c.lines) = <<>> /\ body = <<>>),
           c.lines = a \o r, Place(c.lines) = Len(a) + 1
    PROVE  \E b \in Seq(Line) : /\ a \o b = OwnOf(c.lines)
                                /\ UpdateBlock(c, body) = Joined(a \o Written(c, body) \o b)
<1>1. PICK ls : ls = c.lines
    OBVIOUS
<1>2. /\ ls = a \o r /\ ls \in Seq(Line) /\ DOMAIN ls = 1..Len(ls)
      /\ Len(ls) = Len(a) + Len(r) /\ Len(a) \in Nat /\ Len(r) \in Nat
    BY <1>1, Concatenated DEF Content
<1>0. PICK k, l, m : k = Len(a) /\ l = Len(ls) /\ m = Len(r)
    OBVIOUS
<1>3. k = Len(a) /\ l = Len(ls) /\ k \in Nat /\ l \in Nat
    <2>1. k \in Nat /\ m \in Nat /\ l = k + m
        BY <1>0, <1>2
    <2>q. QED
        BY <1>0, <2>1
<1>4. PICK low, high, all :
         /\ low = Ours(ls) \cup (DOMAIN ls \ (1..(Place(ls) - 1)))
         /\ high = Ours(ls) \cup (DOMAIN ls \ (Place(ls)..l))
         /\ all = Ours(ls) \cup (DOMAIN ls \ (1..l))
    OBVIOUS
<1>5. Place(ls) = k + 1
    BY <1>1, <1>3
<1>6. ASSUME NEW i \in 1..l, i <= k PROVE i \notin Ours(ls)
    <2> SUFFICES ASSUME NEW s, NEW e, Block(ls, s, e), i \in s..e PROVE FALSE
        BY <1>2, OursIs
    <2>1. s \in 1..l /\ e \in 1..l /\ s <= i
        BY <1>3 DEF Block
    <2>2. FindBlocks(ls) # <<>>
        BY <1>2, NothingFound DEF NoBlock
    <2>3. Place(ls) <= s
        BY <1>2, <2>2, FirstBlock DEF Place
    <2>q. QED
        BY <1>3, <1>5, <1>6, <2>1, <2>3
<1>7. \A i \in 1..l : i \in low <=> k < i
    <2>1. \A i \in 1..l : i \in low <=> i \in Ours(ls) \/ k < i
        BY <1>2, <1>3, <1>4, <1>5
    <2>q. QED
        BY <1>3, <1>6, <2>1
<1>8. Without(ls, low) = a
    BY <1>2, <1>3, <1>7, KeptBefore
<1>9. PICK b : b = Without(ls, high)
    OBVIOUS
<1>10. b \in Seq(Line)
    BY <1>2, <1>9, WithoutType
<1>11. a \o b = OwnOf(ls)
    <2>0. PICK at : at = k + 1
        OBVIOUS
    <2>1. /\ \A i \in 1..l : i \in low <=> i \in all \/ i >= at
          /\ \A i \in 1..l : i \in high <=> i \in all \/ i < at
        BY <1>2, <1>3, <1>4, <1>5, <2>0
    <2>2. at \in Int
        BY <1>3, <2>0
    <2>5. ls \in Seq(Line) /\ \A i \in 1..Len(ls) : i \in low <=> i \in all \/ i >= at
        BY <1>2, <1>3, <2>1
    <2>6. \A i \in 1..Len(ls) : i \in high <=> i \in all \/ i < at
        BY <1>3, <2>1
    <2>3. Without(ls, low) \o Without(ls, high) = Without(ls, all)
        <3>1. Halves(ls, low, high, all, at)
            BY <2>2, <2>5, <2>6 DEF Halves
        <3>q. QED
            BY <3>1, HalvesKept
    <2>4. OwnOf(ls) = Without(ls, all)
        BY <1>3, <1>4 DEF OwnOf, Outside
    <2>q. QED
        BY <1>8, <1>9, <2>3, <2>4
<1>12. UpdateBlock(c, body) = Joined(a \o Written(c, body) \o b)
    <2>1. UpdateBlock(c, body)
          = Joined(Outside(ls, 1, Place(ls) - 1) \o Written(c, body) \o Outside(ls, Place(ls), Len(ls)))
        BY <1>1 DEF UpdateBlock, Written, Framed, Each, Place
    <2>2. Outside(ls, 1, Place(ls) - 1) = a /\ Outside(ls, Place(ls), Len(ls)) = b
        BY <1>3, <1>4, <1>8, <1>9 DEF Outside
    <2>q. QED
        BY <2>1, <2>2
<1>q. QED
    BY <1>1, <1>10, <1>11, <1>12

\* The lines before the place have no block.
LEMMA BeforeIs ==
    ASSUME NEW ls \in Seq(Line)
    PROVE  \E a \in Seq(Line), r \in Seq(Line) :
              ls = a \o r /\ Place(ls) = Len(a) + 1 /\ NoBlock(a)
<1>1. Len(ls) \in Nat
    OBVIOUS
<1>2. CASE FindBlocks(ls) = <<>>
    <2>1. ls = ls \o <<>> /\ <<>> \in Seq(Line)
        BY NothingJoined
    <2>2. NoBlock(ls) /\ Place(ls) = Len(ls) + 1
        BY <1>2, NothingFound DEF Place
    <2>q. QED
        BY <2>1, <2>2
<1>3. CASE FindBlocks(ls) # <<>>
    <2>1. PICK s, e : s = FindBlocks(ls)[1].start /\ e = FindBlocks(ls)[1].end
        OBVIOUS
    <2>2. Block(ls, s, e) /\ \A b, t : Block(ls, b, t) => s <= b
        BY <1>3, <2>1, FirstBlock
    <2>3. PICK l : l = Len(ls) /\ l \in Nat
        BY <1>1
    <2>4. s \in 1..l
        BY <2>2, <2>3 DEF Block
    <2>5. PICK a, r : a = SubSeq(ls, 1, s - 1) /\ r = SubSeq(ls, s, l)
        OBVIOUS
    <2>6. /\ a \in Seq(Line) /\ r \in Seq(Line) /\ Len(a) = s - 1
          /\ ls = a \o r /\ \A n \in 1..(s - 1) : a[n] = ls[n]
        <3>1. s \in 1..(Len(ls) + 1)
            BY <2>3, <2>4
        <3>q. QED
            BY <2>3, <2>5, <3>1, Cut
    <2>7. NoBlock(a)
        <3> SUFFICES ASSUME NEW b, NEW t, Block(a, b, t) PROVE FALSE
            BY DEF NoBlock
        <3>1. b \in 1..(s - 1) /\ t \in 1..(s - 1) /\ b < t /\ a[b].kind = "begin" /\ a[t].kind = "end"
              /\ \A k \in 1..(s - 1) : b < k /\ k < t => ~Marker(a[k])
            BY <2>6 DEF Block
        <3>2. \A k \in 1..l : b < k /\ k < t => k \in 1..(s - 1)
            BY <2>3, <2>4, <3>1
        <3>3. Block(ls, b, t)
            <4>1. b \in 1..l /\ t \in 1..l
                BY <2>3, <2>4, <3>1
            <4>2. ls[b].kind = "begin" /\ ls[t].kind = "end"
                BY <2>6, <3>1
            <4>3. \A k \in 1..l : b < k /\ k < t => ~Marker(ls[k])
                BY <2>6, <3>1, <3>2
            <4>q. QED
                BY <2>3, <3>1, <4>1, <4>2, <4>3 DEF Block
        <3>q. QED
            BY <2>2, <2>4, <3>1, <3>3
    <2>8. Place(ls) = Len(a) + 1
        BY <1>3, <2>1, <2>3, <2>4, <2>6 DEF Place
    <2>q. QED
        BY <2>6, <2>7, <2>8
<1>q. QED
    BY <1>2, <1>3

LEMMA Regrouped ==
    ASSUME NEW a \in Seq(Line), NEW x \in Seq(Line), NEW b \in Seq(Line)
    PROVE  a \o x \o b = a \o (x \o b)
<1>1. PICK r, d : r = x \o b /\ d = a \o x \o b
    OBVIOUS
<1>2. PICK k, m, q : k = Len(a) /\ m = Len(x) /\ q = Len(b)
    OBVIOUS
<1>3. /\ r \in Seq(Line) /\ Len(r) = m + q /\ \A n \in 1..m : r[n] = x[n]
      /\ \A n \in 1..q : r[m + n] = b[n]
    BY <1>1, <1>2, Concatenated
<1>4. /\ d \in Seq(Line) /\ Len(d) = k + m + q
      /\ \A n \in 1..k : d[n] = a[n]
      /\ \A n \in 1..m : d[k + n] = x[n]
      /\ \A n \in 1..q : d[k + m + n] = b[n]
    <2>1. /\ a \o x \in Seq(Line) /\ Len(a \o x) = k + m
          /\ \A n \in 1..k : (a \o x)[n] = a[n]
          /\ \A n \in 1..m : (a \o x)[k + n] = x[n]
        BY <1>2, Concatenated
    <2>2. PICK c : c = a \o x
        OBVIOUS
    <2>3. /\ c \o b \in Seq(Line) /\ Len(c \o b) = Len(c) + q
          /\ \A n \in 1..Len(c) : (c \o b)[n] = c[n]
          /\ \A n \in 1..q : (c \o b)[Len(c) + n] = b[n]
        BY <1>2, <2>1, <2>2, Concatenated
    <2>4. k \in Nat /\ m \in Nat /\ q \in Nat
        BY <1>2
    <2>5. /\ Len(c) = k + m /\ \A n \in 1..k : c[n] = a[n]
          /\ \A n \in 1..m : c[k + n] = x[n]
        BY <2>1, <2>2
    <2>6. d = c \o b
        BY <1>1, <2>2
    <2>7. /\ d \in Seq(Line) /\ Len(d) = k + m + q
          /\ \A n \in 1..(k + m) : d[n] = c[n]
          /\ \A n \in 1..q : d[k + m + n] = b[n]
        BY <2>3, <2>5, <2>6
    <2>8. (\A n \in 1..k : n \in 1..(k + m)) /\ \A n \in 1..m : k + n \in 1..(k + m)
        BY <2>4
    <2>q. QED
        BY <2>5, <2>7, <2>8
<1>5. k \in Nat /\ m \in Nat /\ q \in Nat
    BY <1>2
<1>6. PICK l : l = k + m + q
    OBVIOUS
<1>7. l \in Nat /\ k \in 0..l /\ l - k = m + q
    BY <1>5, <1>6
<1>8. \A n \in 1..(l - k) : r[n] = d[k + n]
    <2>1. ASSUME NEW n \in 1..(l - k) PROVE r[n] = d[k + n]
        <3>1. CASE n \in 1..m
            BY <1>3, <1>4, <3>1
        <3>2. CASE n \notin 1..m
            <4>1. PICK j : j = n - m
                OBVIOUS
            <4>2. j \in 1..q /\ m + j = n /\ k + m + j = k + n
                BY <1>5, <1>7, <3>2, <4>1
            <4>3. r[m + j] = b[j] /\ d[k + m + j] = b[j]
                BY <1>3, <1>4, <4>2
            <4>q. QED
                BY <4>2, <4>3
        <3>q. QED
            BY <3>1, <3>2
    <2>q. QED
        BY <2>1
<1>9. /\ Len(d) = l /\ Len(a) = k /\ Len(r) = l - k
      /\ \A n \in 1..k : a[n] = d[n]
    BY <1>2, <1>3, <1>4, <1>6, <1>7
<1>10. d = a \o r
    <2>1. CutAt(d, a, r, k, l)
        BY <1>2, <1>3, <1>4, <1>7, <1>8, <1>9 DEF CutAt
    <2>q. QED
        BY <2>1, Glued
<1>q. QED
    BY <1>1, <1>10

\* What UpdateBlock makes of lines with one block.
OneIn(ls, a, x, b) == ls = a \o x \o b /\ NoBlock(a \o b) /\ Whole(x) /\ x # <<>>

LEMMA PartsKept ==
    ASSUME NEW c \in Content, NEW body \in Seq(Inner), NEW a \in Seq(Line), NEW x \in Seq(Line),
           NEW b \in Seq(Line), OneIn(c.lines, a, x, b)
    PROVE  UpdateBlock(c, body) = Joined(a \o Written(c, body) \o b)
<1>0. c.lines = a \o x \o b /\ NoBlock(a \o b) /\ Whole(x) /\ x # <<>>
    BY DEF OneIn
<1>1. PICK r : r = x \o b
    OBVIOUS
<1>2. r \in Seq(Line) /\ c.lines = a \o r
    BY <1>0, <1>1, Regrouped, Concatenated
<1>3. NoBlock(a)
    <2>1. /\ Len(a \o b) = Len(a) + Len(b) /\ Len(a) \in Nat /\ Len(b) \in Nat
          /\ \A n \in 1..Len(a) : (a \o b)[n] = a[n]
        BY Concatenated
    <2>2. PICK d, k, l : d = a \o b /\ k = Len(a) /\ l = Len(d)
        OBVIOUS
    <2>3. PICK q : q = Len(b)
        OBVIOUS
    <2>4. k \in Nat /\ q \in Nat /\ l = k + q /\ \A n \in 1..k : d[n] = a[n]
        BY <2>1, <2>2, <2>3
    <2> SUFFICES ASSUME NEW s, NEW t, Block(a, s, t) PROVE Block(d, s, t)
        BY <1>0, <2>2 DEF NoBlock
    <2>5. s \in 1..k /\ t \in 1..k /\ s < t /\ a[s].kind = "begin" /\ a[t].kind = "end"
          /\ \A n \in 1..k : s < n /\ n < t => ~Marker(a[n])
        BY <2>2 DEF Block
    <2>6. s \in 1..l /\ t \in 1..l /\ d[s].kind = "begin" /\ d[t].kind = "end"
        BY <2>4, <2>5
    <2>7. \A n \in 1..l : s < n /\ n < t => n \in 1..k
        BY <2>4, <2>5
    <2>8. \A n \in 1..l : s < n /\ n < t => ~Marker(d[n])
        BY <2>4, <2>5, <2>7
    <2>q. QED
        BY <2>2, <2>5, <2>6, <2>8 DEF Block
<1>4. /\ FindBlocks(c.lines) # <<>>
      /\ FindBlocks(c.lines)[1] = [start |-> Len(a) + 1, end |-> Len(a) + Len(x)]
    BY <1>0, <1>3, FirstIs
<1>5. Place(c.lines) = Len(a) + 1
    BY <1>4 DEF Place
<1>6. PICK b2 \in Seq(Line) : /\ a \o b2 = OwnOf(c.lines)
                              /\ UpdateBlock(c, body) = Joined(a \o Written(c, body) \o b2)
    BY <1>2, <1>4, <1>5, UpdateSplits
<1>7. OwnOf(c.lines) = a \o b
    BY <1>0, InsertedOwn
<1>8. b2 = b
    <2>1. PICK cut : cut = 1..Len(a)
        OBVIOUS
    <2>2. Without(a \o b2, cut) = b2 /\ Without(a \o b, cut) = b
        BY <2>1, CutLeft
    <2>q. QED
        BY <1>6, <1>7, <2>2
<1>q. QED
    BY <1>6, <1>8

\* What was written is in the block, whatever the file held.
LEMMA WhatIsWritten ==
    ASSUME NEW c \in Content, NEW body \in Seq(Inner), body # <<>>
    PROVE  UpdateBlock(c, body) \in Content /\ BlockBody(UpdateBlock(c, body)) = body
<1>1. PICK a \in Seq(Line), r \in Seq(Line) :
          c.lines = a \o r /\ Place(c.lines) = Len(a) + 1 /\ NoBlock(a)
    <2>1. c.lines \in Seq(Line)
        BY DEF Content
    <2>q. QED
        BY <2>1, BeforeIs
<1>2. PICK b \in Seq(Line) : UpdateBlock(c, body) = Joined(a \o Written(c, body) \o b)
    BY <1>1, UpdateSplits
<1>3. PICK x : x = Written(c, body)
    OBVIOUS
<1>4. /\ x \in Seq(Line) /\ Whole(x) /\ x # <<>> /\ Len(x) = Len(body) + 2
      /\ \A n \in 1..Len(body) : NoCR(x[n + 1]) = body[n]
    <2>1. HasCRLF(c) \in BOOLEAN /\ x = Framed(body, HasCRLF(c))
        BY <1>3 DEF HasCRLF, Written
    <2>2. /\ Framed(body, HasCRLF(c)) \in Seq(Line) /\ Len(Framed(body, HasCRLF(c))) = Len(body) + 2
          /\ Whole(Framed(body, HasCRLF(c)))
          /\ \A n \in 1..Len(body) : NoCR(Framed(body, HasCRLF(c))[n + 1]) = body[n]
        BY <2>1, FramedIs
    <2>3. Len(body) \in Nat
        OBVIOUS
    <2>4. Len(x) = Len(body) + 2
        BY <2>1, <2>2
    <2>5. Len(x) # 0
        BY <2>3, <2>4
    <2>6. x # <<>>
        BY <2>5
    <2>q. QED
        BY <2>1, <2>2, <2>6
<1>5. PICK d, out : d = a \o x \o b /\ out = Joined(d)
    OBVIOUS
<1>6. /\ d \in Seq(Line) /\ Len(a) \in Nat
      /\ \A n \in 1..Len(x) : d[Len(a) + n] = x[n]
    BY <1>4, <1>5, ThreeParts
<1>7. out \in Content /\ out.lines = d /\ out = UpdateBlock(c, body)
    BY <1>2, <1>3, <1>5, <1>6, JoinedIs
<1>8. FindBlocks(d) # <<>> /\ FindBlocks(d)[1] = [start |-> Len(a) + 1, end |-> Len(a) + Len(x)]
    BY <1>1, <1>4, <1>5, FirstIs
<1>9. PICK s, t, k, m : s = Len(a) + 1 /\ t = Len(a) + Len(x) /\ k = Len(a) /\ m = Len(body)
    OBVIOUS
<1>10. s \in Nat /\ t = s + m + 1 /\ k \in Nat /\ m \in Nat /\ s = k + 1
    <2>1. m \in Nat /\ k \in Nat /\ t = k + (m + 2)
        BY <1>4, <1>6, <1>9
    <2>q. QED
        BY <1>9, <2>1
<1>11. \A n \in 1..m : NoCR(d[s + n]) = body[n]
    <2>1. ASSUME NEW n \in 1..m PROVE NoCR(d[s + n]) = body[n]
        <3>1. s + n = k + (n + 1) /\ n + 1 \in 1..(m + 2)
            BY <1>10
        <3>2. d[k + (n + 1)] = x[n + 1]
            BY <1>4, <1>6, <1>9, <3>1
        <3>3. NoCR(x[n + 1]) = body[n]
            BY <1>4, <1>9
        <3>q. QED
            BY <3>1, <3>2, <3>3
    <2>q. QED
        BY <2>1
<1>12. FindBlocks(out.lines) # <<>> /\ FindBlocks(out.lines)[1] = [start |-> s, end |-> t]
    BY <1>7, <1>8, <1>9
<1>13. BlockBody(out) = body
    <2>1. s \in Nat /\ t = s + Len(body) + 1 /\ \A n \in 1..Len(body) : NoCR(out.lines[s + n]) = body[n]
        BY <1>7, <1>9, <1>10, <1>11
    <2>q. QED
        BY <1>7, <1>12, <2>1, BodyIs
<1>q. QED
    BY <1>7, <1>13

-----------------------------------------------------------------------------
(* The files of BlockFiles.                                                *)

FilesInv == /\ lines \in Seq(Line) /\ nl \in BOOLEAN /\ (lines = <<>> => ~nl)
            /\ \A i \in 1..Len(lines) : Marker(lines[i]) => NoCR(lines[i]) = Plain(lines[i].kind)

LEMMA Grown ==
    ASSUME NEW S, NEW ls \in Seq(S), NEW l \in S
    PROVE  /\ Append(ls, l) \in Seq(S) /\ Append(ls, l) # <<>>
           /\ \A i \in 1..Len(Append(ls, l)) :
                 (i \in 1..Len(ls) /\ Append(ls, l)[i] = ls[i]) \/ Append(ls, l)[i] = l
OBVIOUS

LEMMA FilesAre == FilesSpec => []FilesInv
<1>1. FilesInit => FilesInv
    <2>1. <<>> \in Seq(Line) /\ 1..Len(<<>>) = {}
        OBVIOUS
    <2>q. QED
        BY <2>1 DEF FilesInit, FilesInv
<1>2. FilesInv /\ [FilesNext]_<<lines, nl>> => FilesInv'
    <2> SUFFICES ASSUME FilesInv, FilesNext PROVE FilesInv'
        BY DEF FilesInv
    <2>1. PICK l \in Alphabet, newline \in BOOLEAN : AddLine(l, newline)
        BY DEF FilesNext
    <2>2. l \in Line /\ (Marker(l) => NoCR(l) = Plain(l.kind))
        BY AlphabetAssumption
    <2>3. lines' = Append(lines, l) /\ nl' \in BOOLEAN
        BY <2>1 DEF AddLine
    <2>4. lines \in Seq(Line)
          /\ \A i \in 1..Len(lines) : Marker(lines[i]) => NoCR(lines[i]) = Plain(lines[i].kind)
        BY DEF FilesInv
    <2>5. /\ lines' \in Seq(Line) /\ lines' # <<>>
          /\ \A i \in 1..Len(lines') : (i \in 1..Len(lines) /\ lines'[i] = lines[i]) \/ lines'[i] = l
        BY <2>2, <2>3, <2>4, Grown
    <2>6. \A i \in 1..Len(lines') : Marker(lines'[i]) => NoCR(lines'[i]) = Plain(lines'[i].kind)
        BY <2>2, <2>4, <2>5
    <2>q. QED
        BY <2>3, <2>5, <2>6 DEF FilesInv, Marker, NoCR, Plain
<1>q. QED
    BY <1>1, <1>2, PTL DEF FilesSpec

LEMMA HeldIs ==
    ASSUME FilesInv
    PROVE  Held \in Content /\ Held.lines = lines /\ lines \in Seq(Line) /\ Len(lines) \in Nat
BY DEF FilesInv, Held, Content

LEMMA CompleteIs ==
    ASSUME lines \in Seq(Line), NEW s, NEW t
    PROVE  <<s, t>> \in Complete <=> Block(lines, s, t)
<1>1. PICK l : l = Len(lines) /\ l \in Nat
    OBVIOUS
<1>2. <<s, t>> \in Complete <=>
         /\ s \in 1..l /\ t \in 1..l /\ s < t /\ lines[s].kind = "begin" /\ lines[t].kind = "end"
         /\ \A k \in (s + 1)..(t - 1) : ~Marker(lines[k])
    BY <1>1 DEF Complete
<1>3. ASSUME s \in 1..l, t \in 1..l
      PROVE  (\A k \in (s + 1)..(t - 1) : ~Marker(lines[k]))
             <=> \A k \in 1..l : s < k /\ k < t => ~Marker(lines[k])
    <2>1. \A k \in (s + 1)..(t - 1) : k \in 1..l /\ s < k /\ k < t
        BY <1>1, <1>3
    <2>2. \A k \in 1..l : s < k /\ k < t => k \in (s + 1)..(t - 1)
        BY <1>1, <1>3
    <2>q. QED
        BY <2>1, <2>2
<1>q. QED
    BY <1>1, <1>2, <1>3 DEF Block

\* findBlocks returns the complete blocks in the order of the file, whatever
\* the file: a begin marker opens the block anew, and one without an end
\* marker is ignored.
THEOREM FindsAll == FilesSpec => []FindsCompleteBlocks
<1>1. FilesInv => FindsCompleteBlocks
    <2> SUFFICES ASSUME FilesInv PROVE FindsCompleteBlocks
        OBVIOUS
    <2>1. PICK F : F = FindBlocks(lines)
        OBVIOUS
    <2>2. PICK l : l = Len(lines) /\ l \in Nat /\ lines \in Seq(Line)
        BY HeldIs
    <2>3. /\ F \in Seq([start : 1..l, end : 1..l])
          /\ \A n \in 1..Len(F) : Block(lines, F[n].start, F[n].end)
          /\ \A b, e : Block(lines, b, e) => \E n \in 1..Len(F) : F[n] = [start |-> b, end |-> e]
          /\ \A n, m \in 1..Len(F) : n < m => F[n].end < F[m].end
        BY <2>1, <2>2, BlocksFound
    <2>4. DOMAIN F = 1..Len(F) /\ Len(F) \in Nat
        BY <2>3
    <2>5. ASSUME NEW i \in 1..Len(F) PROVE <<F[i].start, F[i].end>> \in Complete
        BY <2>2, <2>3, CompleteIs
    <2>6. ASSUME NEW b \in Complete PROVE \E i \in 1..Len(F) : b = <<F[i].start, F[i].end>>
        <3>1. PICK s, e : b = <<s, e>>
            BY DEF Complete
        <3>2. Block(lines, s, e)
            BY <2>2, <3>1, CompleteIs
        <3>3. PICK n \in 1..Len(F) : F[n] = [start |-> s, end |-> e]
            BY <2>3, <3>2
        <3>q. QED
            BY <3>1, <3>3
    <2>7. {<<F[i].start, F[i].end>> : i \in DOMAIN F} = Complete
        BY <2>4, <2>5, <2>6
    <2>8. ASSUME NEW i \in 1..(Len(F) - 1) PROVE F[i].end < F[i + 1].start
        <3>1. i \in 1..Len(F) /\ i + 1 \in 1..Len(F) /\ i < i + 1
            BY <2>4
        <3>2. F[i].end < F[i + 1].end
            BY <2>3, <3>1
        <3>3. PICK e, s, t : e = F[i].end /\ s = F[i + 1].start /\ t = F[i + 1].end
            OBVIOUS
        <3>4. Block(lines, F[i].start, e) /\ Block(lines, s, t) /\ e < t
            BY <2>3, <3>1, <3>2, <3>3
        <3>5. /\ e \in 1..l /\ lines[e].kind = "end" /\ s \in 1..l /\ lines[s].kind = "begin"
              /\ \A k \in 1..l : s < k /\ k < t => ~Marker(lines[k])
            BY <2>2, <3>4 DEF Block
        <3>6. ~(s < e) /\ s # e
            BY <3>4, <3>5 DEF Marker
        <3>7. e \in Int /\ s \in Int
            BY <3>5
        <3>q. QED
            BY <3>3, <3>6, <3>7
    <2>q. QED
        BY <2>1, <2>7, <2>8 DEF FindsCompleteBlocks
<1>q. QED
    BY <1>1, FilesAre, PTL

Markless(ls) == \A i \in 1..Len(ls) : ~Marker(ls[i])

LEMMA MarklessIs ==
    ASSUME NEW ls \in Seq(Line), Markless(ls) PROVE NoBlock(ls)
<1>1. ASSUME NEW s, NEW t, Block(ls, s, t) PROVE FALSE
    BY <1>1 DEF Markless, Block, Marker
<1>q. QED
    BY <1>1 DEF NoBlock

\* In an undamaged file the markers are in the blocks.
LEMMA UndamagedIs ==
    ASSUME FilesInv, Undamaged PROVE Markless(OwnOf(lines))
<1>1. PICK l : l = Len(lines) /\ l \in Nat /\ lines \in Seq(Line) /\ DOMAIN lines = 1..l
    BY HeldIs
<1>2. ASSUME NEW i \in 1..l, Marker(lines[i]) PROVE i \in Ours(lines)
    <2>1. PICK b \in Complete : i \in {b[1], b[2]}
        BY <1>1, <1>2 DEF Undamaged
    <2>2. PICK s, t : b = <<s, t>>
        BY DEF Complete
    <2>3. Block(lines, s, t) /\ i \in {s, t}
        BY <1>1, <2>1, <2>2, CompleteIs
    <2>4. s \in 1..l /\ t \in 1..l /\ s < t
        BY <1>1, <2>3 DEF Block
    <2>5. i \in s..t
        BY <2>3, <2>4
    <2>q. QED
        BY <1>1, <2>3, <2>5, OursIs
<1>3. PICK drop : drop = Ours(lines) \cup (DOMAIN lines \ (1..l))
    OBVIOUS
<1>4. OwnOf(lines) = Without(lines, drop)
    BY <1>1, <1>3 DEF OwnOf, Outside
<1>5. ASSUME NEW n \in 1..Len(Without(lines, drop)) PROVE ~Marker(Without(lines, drop)[n])
    <2>1. PICK i : i = Nth(Rest(Len(lines), drop), n)
        OBVIOUS
    <2>2. i \in Rest(Len(lines), drop) /\ Without(lines, drop)[n] = lines[i]
        BY <1>1, <2>1, KeptLines
    <2>3. i \in 1..l /\ i \notin Ours(lines)
        BY <1>1, <1>3, <2>2 DEF Rest
    <2>q. QED
        BY <1>2, <2>2, <2>3
<1>q. QED
    BY <1>4, <1>5 DEF Markless

LEMMA ThreeNamed ==
    ASSUME NEW a \in Seq(Line), NEW x \in Seq(Line), NEW b \in Seq(Line), NEW d, NEW p,
           NEW k, NEW m, NEW q, d = a \o x \o b, p = a \o b, k = Len(a), m = Len(x), q = Len(b)
    PROVE  /\ d \in Seq(Line) /\ Len(d) = k + m + q
           /\ \A n \in 1..k : d[n] = p[n]
           /\ \A n \in 1..m : d[k + n] = x[n]
           /\ \A n \in 1..q : d[k + m + n] = p[k + n]
<1>1. /\ a \o x \o b \in Seq(Line) /\ Len(a \o x \o b) = Len(a) + Len(x) + Len(b)
      /\ \A n \in 1..Len(a) : (a \o x \o b)[n] = (a \o b)[n]
      /\ \A n \in 1..Len(x) : (a \o x \o b)[Len(a) + n] = x[n]
      /\ \A n \in 1..Len(b) : (a \o x \o b)[Len(a) + Len(x) + n] = (a \o b)[Len(a) + n]
    BY ThreeParts
<1>q. QED
    BY <1>1, Zenon

\* The same lines but for the line ends, and what surrounds them.
Alike(x, y) == Len(x) = Len(y) /\ \A n \in 1..Len(x) : NoCR(x[n]) = NoCR(y[n])

LEMMA SameText ==
    ASSUME NEW a \in Seq(Line), NEW b \in Seq(Line), NEW x \in Seq(Line), NEW y \in Seq(Line),
           Alike(x, y)
    PROVE  Each(NoCR, a \o x \o b) = Each(NoCR, a \o y \o b)
<1>1. PICK d, e, p : d = a \o x \o b /\ e = a \o y \o b /\ p = a \o b
    OBVIOUS
<1>2. PICK k, m, q : k = Len(a) /\ m = Len(x) /\ q = Len(b)
    OBVIOUS
<1>3. k \in Nat /\ m \in Nat /\ q \in Nat /\ m = Len(y)
    BY <1>2 DEF Alike
<1>4. /\ d \in Seq(Line) /\ Len(d) = k + m + q
      /\ \A n \in 1..k : d[n] = p[n]
      /\ \A n \in 1..m : d[k + n] = x[n]
      /\ \A n \in 1..q : d[k + m + n] = p[k + n]
    BY <1>1, <1>2, ThreeNamed
<1>5. /\ e \in Seq(Line) /\ Len(e) = k + m + q
      /\ \A n \in 1..k : e[n] = p[n]
      /\ \A n \in 1..m : e[k + n] = y[n]
      /\ \A n \in 1..q : e[k + m + n] = p[k + n]
    BY <1>1, <1>2, <1>3, ThreeNamed, SMTT(30)
<1>6. \A n \in 1..m : NoCR(x[n]) = NoCR(y[n])
    BY <1>2 DEF Alike
<1>7. PICK l : l = k + m + q
    OBVIOUS
<1>8. DOMAIN d = 1..l /\ DOMAIN e = 1..l
    BY <1>4, <1>5, <1>7
<1>9. ASSUME NEW i \in 1..l PROVE NoCR(d[i]) = NoCR(e[i])
    <2>1. CASE i \in 1..k
        BY <1>4, <1>5, <2>1
    <2>2. CASE i \notin 1..k /\ i - k \in 1..m
        <3>1. PICK n : n = i - k
            OBVIOUS
        <3>2. n \in 1..m /\ k + n = i
            BY <1>3, <2>2, <3>1
        <3>3. d[i] = x[n] /\ e[i] = y[n]
            BY <1>4, <1>5, <3>2
        <3>q. QED
            BY <1>6, <3>2, <3>3
    <2>3. CASE i \notin 1..k /\ i - k \notin 1..m
        <3>1. PICK n : n = i - k - m
            OBVIOUS
        <3>2. n \in 1..q /\ k + m + n = i
            BY <1>3, <1>7, <2>3, <3>1
        <3>3. d[i] = p[k + n] /\ e[i] = p[k + n]
            BY <1>4, <1>5, <3>2
        <3>q. QED
            BY <3>3
    <2>q. QED
        BY <2>1, <2>2, <2>3
<1>10. [i \in DOMAIN d |-> NoCR(d[i])] = [i \in DOMAIN e |-> NoCR(e[i])]
    BY <1>8, <1>9
<1>q. QED
    BY <1>1, <1>10 DEF Each

\* The block of a file with other line ends.
LEMMA FramedText ==
    ASSUME NEW body \in Seq(Inner), body # <<>>, NEW r \in BOOLEAN
    PROVE  /\ Framed(body, r) \in Seq(Line) /\ Len(Framed(body, r)) = Len(body) + 2
           /\ NoCR(Framed(body, r)[1]) = Plain("begin")
           /\ NoCR(Framed(body, r)[Len(body) + 2]) = Plain("end")
           /\ \A n \in 1..Len(body) : NoCR(Framed(body, r)[n + 1]) = body[n]
<1>1. PICK k : k = Len(body) /\ k \in Nat
    OBVIOUS
<1>2. PICK x, y, all : x = <<Plain("begin")>> /\ y = <<Plain("end")>> /\ all = x \o body \o y
    OBVIOUS
<1>3. /\ x \in Seq(Line) /\ y \in Seq(Line) /\ Len(x) = 1 /\ Len(y) = 1
      /\ x[1] = Plain("begin") /\ y[1] = Plain("end") /\ body \in Seq(Line)
    <2>1. Plain("begin") \in Line /\ Plain("end") \in Line
        BY DEF Plain, Line
    <2>q. QED
        BY <1>2, <2>1, InnerLines
<1>4. /\ all \in Seq(Line) /\ Len(all) = 1 + k + 1 /\ all[1] = Plain("begin")
      /\ all[1 + k + 1] = Plain("end")
    <2>1. /\ all \in Seq(Line) /\ Len(all) = Len(x) + Len(body) + Len(y)
          /\ \A n \in 1..Len(x) : all[n] = (x \o y)[n]
          /\ \A n \in 1..Len(y) : all[Len(x) + Len(body) + n] = (x \o y)[Len(x) + n]
        BY <1>2, <1>3, ThreeParts
    <2>2. /\ \A n \in 1..Len(x) : (x \o y)[n] = x[n]
          /\ \A n \in 1..Len(y) : (x \o y)[Len(x) + n] = y[n]
        <3>1. x \in Seq(Line) /\ y \in Seq(Line)
            BY <1>3
        <3>q. QED
            BY <3>1, Concatenated
    <2>3. 1 \in 1..1
        OBVIOUS
    <2>4. all[1] = x[1] /\ all[1 + k + 1] = y[1]
        BY <1>1, <1>3, <2>1, <2>2, <2>3
    <2>q. QED
        BY <1>1, <1>3, <2>1, <2>4
<1>5. Framed(body, r) = [i \in DOMAIN all |-> WithCR(all[i], r)]
    BY <1>2 DEF Framed
<1>6. 1 \in DOMAIN all /\ k + 2 \in DOMAIN all /\ k + 2 = 1 + k + 1
    BY <1>1, <1>4
<1>7. Framed(body, r)[1] = WithCR(Plain("begin"), r) /\ Framed(body, r)[k + 2] = WithCR(Plain("end"), r)
    BY <1>4, <1>5, <1>6
<1>8. NoCR(WithCR(Plain("begin"), r)) = Plain("begin") /\ NoCR(WithCR(Plain("end"), r)) = Plain("end")
    <2>1. Plain("begin") \in Line /\ ~Plain("begin").cr /\ Plain("end") \in Line /\ ~Plain("end").cr
        BY DEF Plain, Line
    <2>q. QED
        BY <2>1, LineIs
<1>q. QED
    BY <1>1, <1>7, <1>8, FramedIs

LEMMA SameFramed ==
    ASSUME NEW body \in Seq(Inner), body # <<>>, NEW r \in BOOLEAN, NEW q \in BOOLEAN,
           NEW n \in 1..(Len(body) + 2)
    PROVE  NoCR(Framed(body, r)[n]) = NoCR(Framed(body, q)[n])
<1>1. PICK k : k = Len(body) /\ k \in Nat
    OBVIOUS
<1>2. n = 1 \/ n = k + 2 \/ (n - 1 \in 1..k /\ (n - 1) + 1 = n)
    BY <1>1
<1>3. CASE n = 1
    BY <1>3, FramedText
<1>4. CASE n = k + 2
    BY <1>1, <1>4, FramedText
<1>5. CASE n - 1 \in 1..k /\ (n - 1) + 1 = n
    <2>1. PICK m : m = n - 1
        OBVIOUS
    <2>2. m \in 1..Len(body) /\ m + 1 = n
        BY <1>1, <1>5, <2>1
    <2>3. NoCR(Framed(body, r)[m + 1]) = body[m] /\ NoCR(Framed(body, q)[m + 1]) = body[m]
        BY <2>2, FramedText
    <2>q. QED
        BY <2>2, <2>3
<1>q. QED
    BY <1>2, <1>3, <1>4, <1>5

LEMMA FramedAlike ==
    ASSUME NEW body \in Seq(Inner), body # <<>>, NEW r \in BOOLEAN, NEW q \in BOOLEAN
    PROVE  Alike(Framed(body, r), Framed(body, q))
<1>1. Len(Framed(body, r)) = Len(body) + 2 /\ Len(Framed(body, q)) = Len(body) + 2
    BY FramedText
<1>2. \A n \in 1..(Len(body) + 2) : NoCR(Framed(body, r)[n]) = NoCR(Framed(body, q)[n])
    BY SameFramed
<1>q. QED
    BY <1>1, <1>2 DEF Alike

Makes(c, body, out) == out = UpdateBlock(c, body)

\* What a write makes of a file without markers outside the blocks.
LEMMA OneIsWritten ==
    ASSUME NEW c \in Content, NEW body \in Seq(Inner), body # <<>>, Markless(OwnOf(c.lines)),
           NEW out, Makes(c, body, out)
    PROVE  \E a \in Seq(Line), b \in Seq(Line) :
              /\ NoBlock(a \o b) /\ a \o b = OwnOf(c.lines)
              /\ out = Joined(a \o Framed(body, HasCRLF(c)) \o b)
              /\ out.lines = a \o Framed(body, HasCRLF(c)) \o b
              /\ out \in Content
<1>1. PICK a \in Seq(Line), b \in Seq(Line) :
          a \o b = OwnOf(c.lines) /\ UpdateBlock(c, body) = Joined(a \o Written(c, body) \o b)
    BY UpdateIs
<1>2. Written(c, body) = Framed(body, HasCRLF(c)) /\ Written(c, body) \in Seq(Line)
    BY WrittenIs DEF Written
<1>3. a \o Written(c, body) \o b \in Seq(Line)
    BY <1>2, ThreeParts
<1>4. OwnOf(c.lines) \in Seq(Line)
    BY OwnIs DEF Content
<1>5. NoBlock(a \o b)
    BY <1>1, <1>4, MarklessIs
<1>6. out \in Content /\ out.lines = a \o Written(c, body) \o b
    BY <1>1, <1>3, JoinedIs DEF Makes
<1>q. QED
    BY <1>1, <1>2, <1>5, <1>6 DEF Makes

LEMMA FramedOnce ==
    ASSUME NEW body \in Seq(Inner), body # <<>>, NEW r \in BOOLEAN
    PROVE  /\ Framed(body, r) \in Seq(Line) /\ Whole(Framed(body, r)) /\ Framed(body, r) # <<>>
           /\ 1 < Len(Framed(body, r))
<1>1. Framed(body, r) \in Seq(Line) /\ Len(Framed(body, r)) = Len(body) + 2 /\ Whole(Framed(body, r))
    BY FramedIs
<1>2. Len(body) \in Nat /\ body # <<>>
    OBVIOUS
<1>3. 1 < Len(Framed(body, r)) /\ Len(Framed(body, r)) # 0
    BY <1>1, <1>2
<1>q. QED
    BY <1>1, <1>3

\* Writing again over what was written.
LEMMA WrittenAgain ==
    ASSUME NEW c \in Content, NEW body \in Seq(Inner), body # <<>>, Markless(OwnOf(c.lines)),
           NEW out, Makes(c, body, out), NEW next, Makes(out, body, next)
    PROVE  /\ out \in Content /\ Len(FindBlocks(out.lines)) = 1
           /\ OwnOf(out.lines) = OwnOf(c.lines)
           /\ Each(NoCR, next.lines) = Each(NoCR, out.lines)
           /\ HasCRLF(c) = HasCRLF(out) => next = out
           /\ UpdateBlock(out, <<>>).lines = OwnOf(c.lines)
<1>1. PICK a \in Seq(Line), b \in Seq(Line) :
          /\ NoBlock(a \o b) /\ a \o b = OwnOf(c.lines)
          /\ out = Joined(a \o Framed(body, HasCRLF(c)) \o b)
          /\ out.lines = a \o Framed(body, HasCRLF(c)) \o b
          /\ out \in Content
    BY OneIsWritten
<1>2. PICK x, y : x = Framed(body, HasCRLF(c)) /\ y = Framed(body, HasCRLF(out))
    OBVIOUS
<1>3. HasCRLF(c) \in BOOLEAN /\ HasCRLF(out) \in BOOLEAN
    BY DEF HasCRLF
<1>4. /\ x \in Seq(Line) /\ Whole(x) /\ x # <<>> /\ 1 < Len(x)
      /\ y \in Seq(Line) /\ Whole(y) /\ y # <<>>
    BY <1>2, <1>3, FramedOnce
<1>5. out.lines = a \o x \o b /\ out.lines \in Seq(Line)
    BY <1>1, <1>2, <1>4, ThreeParts
<1>6. next = Joined(a \o Written(out, body) \o b) /\ Written(out, body) = y
    <2>1. Written(out, body) = y
        BY <1>2 DEF Written
    <2>2. out \in Content /\ x \in Seq(Line) /\ OneIn(out.lines, a, x, b)
        BY <1>1, <1>4, <1>5 DEF OneIn
    <2>3. UpdateBlock(out, body) = Joined(a \o Written(out, body) \o b)
        BY <2>2, PartsKept
    <2>q. QED
        BY <2>1, <2>3 DEF Makes
<1>7. next.lines = a \o y \o b
    BY <1>4, <1>6, ThreeParts, JoinedIs
<1>8. Each(NoCR, next.lines) = Each(NoCR, out.lines)
    <2>1. Alike(y, x)
        BY <1>2, <1>3, FramedAlike
    <2>q. QED
        BY <1>4, <1>5, <1>7, <2>1, SameText
<1>9. HasCRLF(c) = HasCRLF(out) => next = out
    BY <1>1, <1>2, <1>6
<1>10. OwnOf(out.lines) = OwnOf(c.lines)
    <2>1. NoBlock(a \o b) /\ Whole(x) /\ x \in Seq(Line)
        BY <1>1, <1>4
    <2>2. OwnOf(a \o x \o b) = a \o b
        BY <2>1, InsertedOwn
    <2>q. QED
        BY <1>1, <1>5, <2>2
<1>11. Len(FindBlocks(out.lines)) = 1
    <2>1. PICK s, t : s = Len(a) + 1 /\ t = Len(a) + Len(x)
        OBVIOUS
    <2>2. PICK d : d = a \o x \o b
        OBVIOUS
    <2>3. \A i, j : Block(d, i, j) <=> i = s /\ j = t
        <3>1. NoBlock(a \o b) /\ Whole(x) /\ x \in Seq(Line) /\ x # <<>>
            BY <1>1, <1>4
        <3>2. ASSUME NEW i, NEW j
              PROVE  Block(a \o x \o b, i, j) <=> i = Len(a) + 1 /\ j = Len(a) + Len(x)
            BY <3>1, Inserted
        <3>q. QED
            BY <2>1, <2>2, <3>2
    <2>4. FindBlocks(d) = <<[start |-> s, end |-> t]>>
        BY <1>5, <2>2, <2>3, OneBlock
    <2>q. QED
        BY <1>5, <2>2, <2>4
<1>12. UpdateBlock(out, <<>>).lines = OwnOf(c.lines)
    <2>1. NoBlock(OwnOf(out.lines)) /\ <<>> \in Seq(Inner)
        BY <1>1, <1>10
    <2>q. QED
        BY <1>1, <1>10, <2>1, UpdateKeeps
<1>q. QED
    BY <1>1, <1>8, <1>9, <1>10, <1>11, <1>12

\* What is written is read back, whatever the file; in an undamaged file it is
\* the only block, the user's lines stay, repeating the write changes nothing
\* and removing the block leaves the user's lines.
THEOREM WritesOne == FilesSpec => []WritesOneBlock
<1>1. FilesInv => WritesOneBlock
    <2> SUFFICES ASSUME FilesInv, NEW body \in Bodies \ {<<>>}, NEW out, out = UpdateBlock(Held, body)
                 PROVE  /\ BlockBody(out) = body
                        /\ Undamaged =>
                             /\ Len(FindBlocks(out.lines)) = 1 /\ Users(out) = Users(Held)
                             /\ Each(NoCR, UpdateBlock(out, body).lines) = Each(NoCR, out.lines)
                             /\ HasCRLF(Held) = HasCRLF(out) => UpdateBlock(out, body) = out
                             /\ UpdateBlock(out, <<>>).lines = Users(Held)
        BY DEF WritesOneBlock
    <2>1. body \in Seq(Inner) /\ body # <<>>
        BY BodiesAssumption
    <2>2. Held \in Content /\ Held.lines = lines
        BY HeldIs
    <2>3. BlockBody(out) = body
        BY <2>1, <2>2, WhatIsWritten
    <2>4. Users(out) = OwnOf(out.lines) /\ Users(Held) = OwnOf(Held.lines)
        BY DEF Users, OwnOf
    <2>5. ASSUME Undamaged
          PROVE  /\ Len(FindBlocks(out.lines)) = 1 /\ OwnOf(out.lines) = OwnOf(Held.lines)
                 /\ Each(NoCR, UpdateBlock(out, body).lines) = Each(NoCR, out.lines)
                 /\ HasCRLF(Held) = HasCRLF(out) => UpdateBlock(out, body) = out
                 /\ UpdateBlock(out, <<>>).lines = OwnOf(Held.lines)
        <3>1. Markless(OwnOf(Held.lines))
            BY <2>2, <2>5, UndamagedIs
        <3>q. QED
            BY <2>1, <2>2, <3>1, WrittenAgain DEF Makes
    <2>q. QED
        BY <2>3, <2>4, <2>5
<1>q. QED
    BY <1>1, FilesAre, PTL

\* x is the lines from s to t.
Between(ls, s, t, x) ==
    Len(x) = t - s + 1 /\ \A n \in 1..(t - s + 1) : x[n] = ls[(s - 1) + n]

\* The file in three parts, the middle one from s to t.
Parted(ls, s, t, a, x, b) ==
    ls = a \o x \o b /\ Len(a) = s - 1 /\ Len(x) = t - s + 1

LEMMA TwoParts ==
    ASSUME NEW a \in Seq(Line), NEW r \in Seq(Line), NEW ls, ls = a \o r
    PROVE  Len(ls) = Len(a) + Len(r) /\ \A n \in 1..Len(r) : ls[Len(a) + n] = r[n]
BY Concatenated

\* A file with one block: what stands before it, the block and the rest.
LEMMA AroundIs ==
    ASSUME NEW ls \in Seq(Line), NEW s, NEW t, Block(ls, s, t)
    PROVE  \E a \in Seq(Line), x \in Seq(Line), b \in Seq(Line) :
              Parted(ls, s, t, a, x, b) /\ Between(ls, s, t, x)
<1>1. PICK l : l = Len(ls) /\ l \in Nat
    OBVIOUS
<1>2. s \in 1..l /\ t \in 1..l /\ s < t
    BY <1>1 DEF Block
<1>3. PICK a, r : a = SubSeq(ls, 1, s - 1) /\ r = SubSeq(ls, s, l)
    OBVIOUS
<1>4. a \in Seq(Line) /\ r \in Seq(Line) /\ Len(a) = s - 1 /\ ls = a \o r
    <2>1. s \in 1..(Len(ls) + 1)
        BY <1>1, <1>2
    <2>q. QED
        BY <1>1, <1>3, <2>1, Cut
<1>5. PICK q : q = Len(r) /\ q \in Nat
    BY <1>4
<1>6. l = (s - 1) + q /\ \A n \in 1..q : r[n] = ls[(s - 1) + n]
    <2>1. Len(ls) = Len(a) + Len(r) /\ \A n \in 1..Len(r) : ls[Len(a) + n] = r[n]
        <3>1. a \in Seq(Line) /\ r \in Seq(Line) /\ ls = a \o r
            BY <1>4
        <3>q. QED
            BY <3>1, TwoParts
    <2>2. Len(a) = s - 1
        BY <1>4
    <2>q. QED
        BY <1>1, <1>5, <2>1, <2>2
<1>7. PICK m : m = t - s + 1
    OBVIOUS
<1>8. m \in 1..q
    BY <1>1, <1>2, <1>5, <1>6, <1>7
<1>9. PICK x, b : x = SubSeq(r, 1, m) /\ b = SubSeq(r, m + 1, q)
    OBVIOUS
<1>10. /\ x \in Seq(Line) /\ b \in Seq(Line) /\ Len(x) = m /\ r = x \o b
       /\ \A n \in 1..m : x[n] = r[n]
    <2>1. PICK p : p = m + 1
        OBVIOUS
    <2>2. p \in 1..(Len(r) + 1) /\ p - 1 = m
        BY <1>5, <1>8, <2>1
    <2>3. r \in Seq(Line)
        BY <1>4
    <2>4. /\ SubSeq(r, 1, p - 1) \in Seq(Line) /\ SubSeq(r, p, Len(r)) \in Seq(Line)
          /\ Len(SubSeq(r, 1, p - 1)) = p - 1
          /\ r = SubSeq(r, 1, p - 1) \o SubSeq(r, p, Len(r))
          /\ \A n \in 1..(p - 1) : SubSeq(r, 1, p - 1)[n] = r[n]
        BY <2>2, <2>3, Cut
    <2>5. x = SubSeq(r, 1, p - 1) /\ b = SubSeq(r, p, Len(r))
        BY <1>5, <1>9, <2>1, <2>2
    <2>q. QED
        BY <2>2, <2>4, <2>5
<1>11. ls = a \o x \o b
    <2>1. a \in Seq(Line) /\ x \in Seq(Line) /\ b \in Seq(Line)
        BY <1>4, <1>10
    <2>2. a \o x \o b = a \o (x \o b)
        BY <2>1, Regrouped
    <2>3. ls = a \o r /\ r = x \o b
        BY <1>4, <1>10
    <2>q. QED
        BY <2>2, <2>3
<1>12. \A n \in 1..m : x[n] = ls[(s - 1) + n]
    BY <1>5, <1>6, <1>8, <1>10
<1>13. Len(x) = t - s + 1 /\ \A n \in 1..(t - s + 1) : x[n] = ls[(s - 1) + n]
    BY <1>7, <1>10, <1>12
<1>14. a \in Seq(Line) /\ Len(a) = s - 1 /\ x \in Seq(Line) /\ b \in Seq(Line)
    BY <1>4, <1>10
<1>q. QED
    BY <1>11, <1>13, <1>14 DEF Parted, Between

LEMMA LengthIs ==
    ASSUME NEW S, NEW f \in Seq(S), NEW k \in Nat, DOMAIN f = 1..k PROVE Len(f) = k
OBVIOUS

\* What blockBody returns, line by line.
LEMMA BodyLines ==
    ASSUME NEW c \in Content, FindBlocks(c.lines) # <<>>, NEW s, NEW t,
           FindBlocks(c.lines)[1] = [start |-> s, end |-> t]
    PROVE  /\ Block(c.lines, s, t) /\ Len(BlockBody(c)) = t - s - 1
           /\ \A n \in 1..(t - s - 1) : BlockBody(c)[n] = NoCR(c.lines[s + n])
<1>1. PICK ls, l : ls = c.lines /\ l = Len(ls)
    OBVIOUS
<1>2. ls \in Seq(Line) /\ l \in Nat /\ Block(ls, s, t)
    BY <1>1, FirstBlock DEF Content
<1>3. s \in 1..l /\ t \in 1..l /\ s < t
    BY <1>1, <1>2 DEF Block
<1>4. PICK m : m = SubSeq(ls, s + 1, t - 1)
    OBVIOUS
<1>5. BlockBody(c) = [i \in DOMAIN m |-> NoCR(m[i])]
    <2>1. FindBlocks(c.lines)[1].start = s /\ FindBlocks(c.lines)[1].end = t
        OBVIOUS
    <2>2. m = SubSeq(c.lines, FindBlocks(c.lines)[1].start + 1, FindBlocks(c.lines)[1].end - 1)
        BY <1>1, <1>4, <2>1
    <2>q. QED
        BY <2>2 DEF BlockBody, Each
<1>6. PICK k : k = t - s - 1 /\ k \in Nat
    BY <1>2, <1>3
<1>7. m = [n \in 1..k |-> ls[s + n]]
    <2>1. PICK u, v : u = s + 1 /\ v = t - 1
        OBVIOUS
    <2>2. u \in Int /\ v \in Int
        BY <1>2, <1>3, <2>1
    <2>3. SubSeq(ls, u, v) = [n \in 1..(v - u + 1) |-> ls[u + n - 1]]
        BY <1>2, <2>2, SubSeqIs
    <2>4. v - u + 1 = k /\ \A n \in 1..k : u + n - 1 = s + n
        <3>1. s \in Int /\ t \in Int /\ k \in Nat /\ k = t - s - 1
            BY <1>2, <1>3, <1>6
        <3>2. v - u + 1 = k
            BY <2>1, <3>1
        <3>3. ASSUME NEW n \in 1..k PROVE u + n - 1 = s + n
            <4>1. n \in Int /\ s \in Int /\ u = s + 1
                BY <2>1, <3>1
            <4>q. QED
                BY <4>1
        <3>q. QED
            BY <3>2, <3>3
    <2>q. QED
        BY <1>4, <2>1, <2>3, <2>4
<1>8. BlockBody(c) = [n \in 1..k |-> NoCR(ls[s + n])]
    BY <1>5, <1>7
<1>9. Len(BlockBody(c)) = k
    <2>1. BlockBody(c) \in Seq(Inner)
        BY BodyInner
    <2>2. DOMAIN BlockBody(c) = 1..k
        BY <1>8
    <2>q. QED
        BY <1>6, <2>1, <2>2, LengthIs
<1>q. QED
    BY <1>1, <1>2, <1>6, <1>8, <1>9

PlainMarkers(ls) == \A i \in 1..Len(ls) : Marker(ls[i]) => NoCR(ls[i]) = Plain(ls[i].kind)

\* A block is the frame of what is in it, but for its line ends.
LEMMA BlockIs ==
    ASSUME NEW ls \in Seq(Line), NEW s, NEW t, Block(ls, s, t), NEW x \in Seq(Line),
           Between(ls, s, t, x)
    PROVE  /\ Whole(x) /\ x # <<>> /\ x[1] = ls[s] /\ x[t - s + 1] = ls[t]
           /\ s \in 1..Len(ls) /\ t \in 1..Len(ls) /\ s < t
<1>1. PICK l : l = Len(ls) /\ l \in Nat
    OBVIOUS
<1>2. s \in 1..l /\ t \in 1..l /\ s < t /\ ls[s].kind = "begin" /\ ls[t].kind = "end"
      /\ \A k \in 1..l : s < k /\ k < t => ~Marker(ls[k])
    BY <1>1 DEF Block
<1>3. PICK m : m = t - s + 1 /\ m \in Nat /\ 1 < m
    BY <1>1, <1>2
<1>4. Len(x) = m /\ \A n \in 1..m : x[n] = ls[(s - 1) + n]
    BY <1>3 DEF Between
<1>5. 1 \in 1..m /\ m \in 1..m /\ (s - 1) + 1 = s /\ (s - 1) + m = t
    BY <1>1, <1>2, <1>3
<1>6. x[1] = ls[s] /\ x[m] = ls[t]
    BY <1>4, <1>5
<1>7. ASSUME NEW n \in 1..m, 1 < n, n < m PROVE ~Marker(x[n])
    <2>1. PICK j : j = (s - 1) + n
        OBVIOUS
    <2>2. j \in 1..l /\ s < j /\ j < t
        BY <1>1, <1>2, <1>3, <1>7, <2>1
    <2>3. x[n] = ls[j]
        BY <1>4, <2>1
    <2>q. QED
        BY <1>2, <2>2, <2>3
<1>8. x # <<>>
    <2>1. Len(x) # 0
        BY <1>3, <1>4
    <2>q. QED
        BY <2>1
<1>9. Whole(x)
    BY <1>2, <1>3, <1>4, <1>6, <1>7 DEF Whole
<1>q. QED
    BY <1>1, <1>2, <1>3, <1>6, <1>8, <1>9

\* The body of the block from s to t.
Holds(ls, s, t, body) ==
    Len(body) = t - s - 1 /\ \A n \in 1..(t - s - 1) : body[n] = NoCR(ls[s + n])

LEMMA BlockText ==
    ASSUME NEW ls \in Seq(Line), NEW s, NEW t, Block(ls, s, t), NEW x \in Seq(Line),
           Between(ls, s, t, x), PlainMarkers(ls), NEW body \in Seq(Inner), body # <<>>,
           Holds(ls, s, t, body), NEW r \in BOOLEAN
    PROVE  Alike(Framed(body, r), x)
<1>1. PICK l, k : l = Len(ls) /\ l \in Nat /\ k = Len(body) /\ k \in Nat
    BY SMTT(30)
<1>2. /\ x[1] = ls[s] /\ x[t - s + 1] = ls[t] /\ s \in 1..l /\ t \in 1..l
      /\ ls[s].kind = "begin" /\ ls[t].kind = "end"
    <2>1. x[1] = ls[s] /\ x[t - s + 1] = ls[t] /\ s \in 1..l /\ t \in 1..l
        BY <1>1, BlockIs
    <2>2. ls[s].kind = "begin" /\ ls[t].kind = "end"
        BY DEF Block
    <2>q. QED
        BY <2>1, <2>2
<1>3. t - s + 1 = k + 2 /\ t - s - 1 = k
    <2>1. k = t - s - 1 /\ s \in Int /\ t \in Int
        BY <1>1, <1>2 DEF Holds
    <2>q. QED
        BY <2>1
<1>4. Len(x) = k + 2 /\ \A n \in 1..(k + 2) : x[n] = ls[(s - 1) + n]
    BY <1>3 DEF Between
<1>5. PICK f : f = Framed(body, r)
    OBVIOUS
<1>6. /\ Len(f) = k + 2 /\ NoCR(f[1]) = Plain("begin") /\ NoCR(f[k + 2]) = Plain("end")
      /\ \A n \in 1..k : NoCR(f[n + 1]) = body[n]
    BY <1>1, <1>5, FramedText
<1>7. NoCR(x[1]) = Plain("begin") /\ NoCR(x[k + 2]) = Plain("end")
    BY <1>1, <1>2, <1>3 DEF PlainMarkers, Marker
<1>8. \A n \in 1..k : body[n] = NoCR(ls[s + n])
    BY <1>3 DEF Holds
<1>9. ASSUME NEW n \in 1..(k + 2) PROVE NoCR(f[n]) = NoCR(x[n])
    <2>1. CASE n = 1
        BY <1>6, <1>7, <2>1
    <2>2. CASE n = k + 2
        BY <1>6, <1>7, <2>2
    <2>3. CASE n # 1 /\ n # k + 2
        <3>1. PICK m : m = n - 1
            OBVIOUS
        <3>2. m \in 1..k /\ m + 1 = n
            BY <1>1, <2>3, <3>1
        <3>3. (s - 1) + n = s + m
            BY <1>2, <3>1
        <3>4. x[n] = ls[s + m]
            BY <1>4, <3>3
        <3>5. NoCR(f[m + 1]) = body[m] /\ body[m] = NoCR(ls[s + m])
            BY <1>6, <1>8, <3>2
        <3>q. QED
            BY <3>2, <3>4, <3>5
    <2>q. QED
        BY <2>1, <2>2, <2>3
<1>q. QED
    BY <1>4, <1>5, <1>6, <1>9 DEF Alike

OnlyBlock(ls, s, t) == \A i, j : Block(ls, i, j) <=> i = s /\ j = t

\* What stands around the only block is what is outside the blocks.
LEMMA AroundOne ==
    ASSUME NEW a \in Seq(Line), NEW x \in Seq(Line), NEW b \in Seq(Line), NEW ls,
           NEW s \in Int, NEW t \in Int, Parted(ls, s, t, a, x, b), OnlyBlock(ls, s, t)
    PROVE  OwnOf(ls) = a \o b
<1>0. /\ a \o x \o b \in Seq(Line) /\ Len(a \o x \o b) = Len(a) + Len(x) + Len(b)
      /\ Len(a) \in Nat /\ Len(x) \in Nat /\ Len(b) \in Nat
    BY ThreeParts
<1>1. PICK l, k, m, q : l = Len(ls) /\ k = Len(a) /\ m = Len(x) /\ q = Len(b)
    OBVIOUS
<1>2. ls \in Seq(Line) /\ l = k + m + q /\ k \in Nat /\ m \in Nat /\ q \in Nat /\ ls = a \o x \o b
    BY <1>0, <1>1 DEF Parted
<1>3. \A i : i \in Ours(ls) <=> i \in s..t
    <2>1. ls \in Seq(Line)
        BY <1>2
    <2>2. \A i : i \in Ours(ls) <=> \E p, e : Block(ls, p, e) /\ i \in p..e
        BY <2>1, OursIs
    <2>q. QED
        BY <2>2, SMTT(30) DEF OnlyBlock
<1>4. PICK drop : drop = Ours(ls) \cup (DOMAIN ls \ (1..l))
    OBVIOUS
<1>5. k = s - 1 /\ m = t - s + 1 /\ DOMAIN ls = 1..l
    <2>1. k = s - 1 /\ m = t - s + 1
        BY <1>1 DEF Parted
    <2>2. ls \in Seq(Line)
        BY <1>2
    <2>q. QED
        BY <1>1, <2>1, <2>2
<1>6. \A i \in 1..l : i \in drop <=> k + 1 <= i /\ i <= k + m
    <2>1. \A i \in 1..l : i \in drop <=> i \in s..t
        BY <1>3, <1>4, <1>5
    <2>2. k + 1 = s /\ k + m = t
        BY <1>5
    <2>q. QED
        BY <2>1, <2>2
<1>7. Without(a \o x \o b, drop) = a \o b
    <2>1. \A i \in 1..Len(a \o x \o b) : i \in drop <=> Len(a) + 1 <= i /\ i <= Len(a) + Len(x)
        BY <1>1, <1>2, <1>6
    <2>q. QED
        BY <2>1, WithoutMiddle
<1>q. QED
    BY <1>1, <1>2, <1>4, <1>7 DEF OwnOf, Outside

\* A file with one block, which is not empty.
LEMMA OnlyIs ==
    ASSUME NEW c \in Content, Len(FindBlocks(c.lines)) <= 1, BlockBody(c) # <<>>,
           Markless(OwnOf(c.lines)), PlainMarkers(c.lines)
    PROVE  \E a \in Seq(Line), x \in Seq(Line), b \in Seq(Line) :
              /\ OneIn(c.lines, a, x, b)
              /\ \A r \in BOOLEAN : Alike(Framed(BlockBody(c), r), x)
<1>1. PICK ls, F, body : ls = c.lines /\ F = FindBlocks(ls) /\ body = BlockBody(c)
    OBVIOUS
<1>2. ls \in Seq(Line) /\ F # <<>> /\ body \in Seq(Inner) /\ body # <<>>
    BY <1>1, BodyInner DEF Content, BlockBody
<1>3. /\ F \in Seq([start : 1..Len(ls), end : 1..Len(ls)])
      /\ \A b, e : Block(ls, b, e) => \E n \in 1..Len(F) : F[n] = [start |-> b, end |-> e]
    BY <1>1, <1>2, BlocksFound
<1>4. PICK s, t : F[1] = [start |-> s, end |-> t]
    BY <1>2, <1>3, HeadIn
<1>5. Block(ls, s, t) /\ Holds(ls, s, t, body)
    BY <1>1, <1>2, <1>4, BodyLines DEF Holds
<1>6. s \in Int /\ t \in Int
    BY <1>5 DEF Block
<1>7. OnlyBlock(ls, s, t)
    <2>1. \A n \in 1..Len(F) : n = 1
        BY <1>1, <1>3
    <2>2. ASSUME NEW i, NEW j, Block(ls, i, j) PROVE i = s /\ j = t
        <3>1. F[1] = [start |-> i, end |-> j]
            BY <1>3, <2>1, <2>2
        <3>q. QED
            BY <1>4, <3>1
    <2>q. QED
        BY <1>5, <2>2 DEF OnlyBlock
<1>8. PICK a \in Seq(Line), x \in Seq(Line), b \in Seq(Line) :
          Parted(ls, s, t, a, x, b) /\ Between(ls, s, t, x)
    BY <1>2, <1>5, AroundIs
<1>9. Whole(x) /\ x # <<>>
    BY <1>2, <1>5, <1>8, BlockIs
<1>10. OwnOf(ls) = a \o b /\ a \o b \in Seq(Line)
    BY <1>6, <1>7, <1>8, AroundOne, Concatenated
<1>11. NoBlock(a \o b)
    <2>1. Markless(a \o b)
        BY <1>1, <1>10
    <2>q. QED
        BY <1>10, <2>1, MarklessIs
<1>12. OneIn(ls, a, x, b)
    BY <1>8, <1>9, <1>11 DEF OneIn, Parted
<1>13. \A r \in BOOLEAN : Alike(Framed(body, r), x)
    <2>1. PlainMarkers(ls)
        BY <1>1
    <2>q. QED
        BY <1>2, <1>5, <1>8, <2>1, BlockText
<1>q. QED
    BY <1>1, <1>12, <1>13

\* Writing the old body over a new one.
LEMMA WrittenBack ==
    ASSUME NEW c \in Content, NEW body \in Seq(Inner), body # <<>>,
           NEW old \in Seq(Inner), old # <<>>, NEW a \in Seq(Line), NEW x \in Seq(Line),
           NEW b \in Seq(Line), OneIn(c.lines, a, x, b),
           \A r \in BOOLEAN : Alike(Framed(old, r), x),
           NEW out, Makes(c, body, out), NEW next, Makes(out, old, next)
    PROVE  Each(NoCR, next.lines) = Each(NoCR, c.lines)
<1>1. PICK y, z : y = Framed(body, HasCRLF(c)) /\ z = Framed(old, HasCRLF(out))
    OBVIOUS
<1>2. HasCRLF(c) \in BOOLEAN /\ HasCRLF(out) \in BOOLEAN
    BY DEF HasCRLF
<1>3. y \in Seq(Line) /\ Whole(y) /\ y # <<>> /\ z \in Seq(Line)
    BY <1>1, <1>2, FramedOnce
<1>4. NoBlock(a \o b) /\ c.lines = a \o x \o b
    BY DEF OneIn
<1>5. out = Joined(a \o y \o b)
    <2>1. Written(c, body) = y
        BY <1>1 DEF Written
    <2>2. UpdateBlock(c, body) = Joined(a \o Written(c, body) \o b)
        BY PartsKept
    <2>q. QED
        BY <2>1, <2>2 DEF Makes
<1>6. a \o y \o b \in Seq(Line) /\ a \o z \o b \in Seq(Line)
    BY <1>3, ThreeParts
<1>7. out \in Content /\ OneIn(out.lines, a, y, b)
    BY <1>3, <1>4, <1>5, <1>6, JoinedIs DEF OneIn
<1>8. next = Joined(a \o z \o b)
    <2>1. Written(out, old) = z
        BY <1>1 DEF Written
    <2>2. UpdateBlock(out, old) = Joined(a \o Written(out, old) \o b)
        BY <1>3, <1>7, PartsKept
    <2>q. QED
        BY <2>1, <2>2 DEF Makes
<1>9. next.lines = a \o z \o b
    BY <1>6, <1>8, JoinedIs
<1>10. Alike(z, x)
    BY <1>1, <1>2
<1>q. QED
    BY <1>3, <1>4, <1>9, <1>10, SameText

\* Writing back the body that was read undoes any write of a block, for an
\* undamaged file with at most one block.
THEOREM WritesBack == FilesSpec => []WriteBackUndoes
<1>1. FilesInv => WriteBackUndoes
    <2> SUFFICES ASSUME FilesInv, Undamaged, Len(FindBlocks(lines)) <= 1,
                        NEW body \in Bodies \ {<<>>}, NEW out, Makes(Held, body, out),
                        NEW next, Makes(out, BlockBody(Held), next)
                 PROVE  Each(NoCR, next.lines)
                        = Each(NoCR, IF BlockBody(Held) = <<>> THEN Users(Held) ELSE lines)
        BY DEF WriteBackUndoes, Makes
    <2>1. body \in Seq(Inner) /\ body # <<>>
        BY BodiesAssumption
    <2>2. Held \in Content /\ Held.lines = lines
        BY HeldIs
    <2>3. Markless(OwnOf(Held.lines))
        BY <2>2, UndamagedIs
    <2>4. CASE BlockBody(Held) = <<>>
        <3>1. PICK again : Makes(out, body, again)
            BY DEF Makes
        <3>2. UpdateBlock(out, <<>>).lines = OwnOf(Held.lines)
            BY <2>1, <2>2, <2>3, <3>1, WrittenAgain
        <3>3. next.lines = Users(Held)
            BY <2>4, <3>2 DEF Makes, Users, OwnOf
        <3>q. QED
            BY <2>4, <3>3
    <2>5. CASE BlockBody(Held) # <<>>
        <3>1. PlainMarkers(Held.lines) /\ Len(FindBlocks(Held.lines)) <= 1
            BY <2>2 DEF FilesInv, PlainMarkers
        <3>2. PICK old : old = BlockBody(Held)
            OBVIOUS
        <3>3. old \in Seq(Inner) /\ old # <<>>
            BY <2>2, <2>5, <3>2, BodyInner
        <3>4. PICK a \in Seq(Line), x \in Seq(Line), b \in Seq(Line) :
                  /\ OneIn(Held.lines, a, x, b)
                  /\ \A r \in BOOLEAN : Alike(Framed(old, r), x)
            BY <2>2, <2>3, <2>5, <3>1, <3>2, OnlyIs
        <3>5. Makes(out, old, next)
            BY <3>2
        <3>6. Each(NoCR, next.lines) = Each(NoCR, Held.lines)
            BY <2>1, <2>2, <3>3, <3>4, <3>5, WrittenBack
        <3>q. QED
            BY <2>2, <2>5, <3>6
    <2>q. QED
        BY <2>4, <2>5
<1>q. QED
    BY <1>1, FilesAre, PTL
=============================================================================
