-------------------------- MODULE AppConfigProofs --------------------------
(***************************************************************************)
(* That WriteAppConfig and ClearAppConfig do what they report and keep the *)
(* lines of others, for any settings of any length, any number of          *)
(* goroutines, calls and failures.                                         *)
(***************************************************************************)
EXTENDS AppConfig, LinesProofs

-----------------------------------------------------------------------------
(* Sets of positions have a greatest element.                              *)

LEMMA MaxIs ==
    ASSUME NEW S \in SUBSET Nat, NEW m \in S, \A y \in S : y <= m
    PROVE  Max(S) = m
<1>1. \A x \in S : (\A y \in S : y <= x) => x = m
    OBVIOUS
<1>2. Max(S) = CHOOSE x \in S : \A y \in S : y <= x
    BY Zenon DEF Max
<1>q. QED
    BY <1>1, <1>2

LEMMA MaxOf ==
    ASSUME NEW n \in Nat, NEW S \in SUBSET (1..n), S # {}
    PROVE  Max(S) \in S /\ \A y \in S : y <= Max(S)
<1>0. \A i \in S : i \in Int /\ 1 <= i /\ i <= n
    OBVIOUS
<1>1. {n - i : i \in S} \in SUBSET Nat /\ {n - i : i \in S} # {}
    <2>1. \A i \in S : n - i \in Nat
        BY <1>0
    <2>2. PICK i \in S : TRUE
        OBVIOUS
    <2>3. n - i \in {n - k : k \in S}
        BY <2>2
    <2>q. QED
        BY <2>1, <2>3
<1>2. PICK x \in {n - i : i \in S} : \A y \in {n - i : i \in S} : x <= y
    BY <1>1, Least, Zenon
<1>3. PICK m \in S : x = n - m
    OBVIOUS
<1>4. \A i \in S : n - m <= n - i
    BY <1>2, <1>3
<1>5. \A i \in S : i <= m
    BY <1>0, <1>4
<1>6. S \in SUBSET Nat
    BY <1>0
<1>7. Max(S) = m
    BY <1>5, <1>6, MaxIs
<1>q. QED
    BY <1>5, <1>7

-----------------------------------------------------------------------------
(* The edits of a file.                                                    *)

\* What a file may hold.
FileText == {file \in Seq(FileLine) : \A i \in DOMAIN file :
                file[i].kind = "header" => file[i] = Header(file[i].name)}

LEMMA FileTextIs ==
    ASSUME NEW file
    PROVE  file \in FileText <=>
             /\ file \in Seq(FileLine)
             /\ \A i \in 1..Len(file) : file[i].kind = "header" => file[i] = Header(file[i].name)
<1>1. file \in Seq(FileLine) => DOMAIN file = 1..Len(file)
    OBVIOUS
<1>q. QED
    BY <1>1 DEF FileText

LEMMA LinesType ==
    ASSUME NEW file \in {None} \cup FileText
    PROVE  /\ Lines(file) \in FileText /\ Lines(file) \in Seq(FileLine)
           /\ file # None => Lines(file) = file
<1>1. <<>> \in Seq(FileLine) /\ Len(<<>>) = 0
    OBVIOUS
<1>2. <<>> \in FileText
    BY <1>1 DEF FileText
<1>q. QED
    BY <1>2 DEF Lines, FileText

LEMMA NoneIsNoText == None \notin FileText
BY AppAssumption DEF FileText

LEMMA NewLines ==
    ASSUME NEW key \in Name, NEW value \in Url
    PROVE  /\ Entry(key, value) \in FileLine /\ Header(key) \in FileLine
           /\ Entry(key, value).kind = "entry" /\ Entry(key, value).name = key
           /\ Entry(key, value).value = value /\ Entry(key, value).spelling = "exact"
           /\ Header(key).kind = "header" /\ Header(key).name = key
           /\ Header(key).spelling = "exact"
BY DEF Entry, Header, FileLine

\* A text is changed by writing entries over entries and appending lines.
LEMMA EntriesOver ==
    ASSUME NEW lines \in FileText, NEW mine, NEW key \in Name, NEW value \in Url, NEW new,
           new = [i \in DOMAIN lines |-> IF i \in mine THEN Entry(key, value) ELSE lines[i]]
    PROVE  /\ new \in FileText /\ Len(new) = Len(lines)
           /\ \A i \in 1..Len(lines) : new[i] = IF i \in mine THEN Entry(key, value) ELSE lines[i]
<1>1. /\ lines \in Seq(FileLine) /\ Len(lines) \in Nat /\ DOMAIN lines = 1..Len(lines)
      /\ \A i \in 1..Len(lines) : lines[i] \in FileLine
      /\ \A i \in 1..Len(lines) : lines[i].kind = "header" => lines[i] = Header(lines[i].name)
    <2>1. lines \in Seq(FileLine)
        BY FileTextIs
    <2>q. QED
        BY <2>1, FileTextIs
<1>2. Entry(key, value) \in FileLine /\ Entry(key, value).kind = "entry"
    BY NewLines
<1>3. \A i \in 1..Len(lines) : new[i] = IF i \in mine THEN Entry(key, value) ELSE lines[i]
    BY <1>1
<1>4. new \in [1..Len(lines) -> FileLine]
    BY <1>1, <1>2
<1>5. new \in Seq(FileLine) /\ Len(new) = Len(lines)
    BY <1>1, <1>4
<1>6. \A i \in 1..Len(new) : new[i].kind = "header" => new[i] = Header(new[i].name)
    BY <1>1, <1>2, <1>3, <1>5
<1>7. new \in FileText
    BY <1>5, <1>6, FileTextIs
<1>q. QED
    BY <1>3, <1>5, <1>7

LEMMA LineAfter ==
    ASSUME NEW lines \in FileText, NEW line \in FileLine,
           line.kind = "header" => line = Header(line.name)
    PROVE  /\ Append(lines, line) \in FileText /\ Append(lines, line) = lines \o <<line>>
           /\ Len(Append(lines, line)) = Len(lines) + 1
           /\ Append(lines, line)[Len(lines) + 1] = line
           /\ \A i \in 1..Len(lines) : Append(lines, line)[i] = lines[i]
<1> DEFINE new == Append(lines, line)
<1>1. /\ lines \in Seq(FileLine) /\ Len(lines) \in Nat
      /\ \A i \in 1..Len(lines) : lines[i].kind = "header" => lines[i] = Header(lines[i].name)
    BY FileTextIs
<1>2. new \in Seq(FileLine) /\ Len(new) = Len(lines) + 1 /\ new = lines \o <<line>>
    BY <1>1
<1>3. new[Len(lines) + 1] = line /\ \A i \in 1..Len(lines) : new[i] = lines[i]
    BY <1>1
<1> HIDE DEF new
<1>4. \A i \in 1..Len(new) : i \in 1..Len(lines) \/ i = Len(lines) + 1
    BY <1>1, <1>2
<1>5. \A i \in 1..Len(new) : new[i].kind = "header" => new[i] = Header(new[i].name)
    BY <1>1, <1>3, <1>4
<1>6. new \in FileText
    BY <1>2, <1>5, FileTextIs
<1>q. QED
    BY <1>2, <1>3, <1>6 DEF new

\* editKeyValueFile: entries of the key in the package's spelling get the
\* value, an entry with it is there, and all other lines stay.
LEMMA EditKeyValueIs ==
    ASSUME NEW file \in {None} \cup FileText, NEW key \in Name, NEW value \in Url
    PROVE  LET lines == Lines(file)
               new   == EditKeyValue(file, key, value)
           IN  /\ new \in FileText /\ Len(lines) <= Len(new)
               /\ \A i \in 1..Len(lines) :
                     new[i] = IF Is(lines[i], key) /\ lines[i].spelling = "exact"
                              THEN Entry(key, value) ELSE lines[i]
               /\ \A i \in 1..Len(new) : i > Len(lines) => new[i] = Entry(key, value)
               /\ \E i \in 1..Len(new) : new[i] = Entry(key, value)
<1> DEFINE lines == Lines(file)
           new   == EditKeyValue(file, key, value)
           mine  == {i \in DOMAIN lines : Is(lines[i], key) /\ lines[i].spelling = "exact"}
<1>1. lines \in FileText /\ lines \in Seq(FileLine)
    BY LinesType
<1>2. Len(lines) \in Nat /\ DOMAIN lines = 1..Len(lines)
    BY <1>1
<1>3. Entry(key, value) \in FileLine /\ Entry(key, value).kind = "entry"
    BY NewLines
<1> SUFFICES /\ new \in FileText /\ Len(lines) <= Len(new)
             /\ \A i \in 1..Len(lines) :
                   new[i] = IF Is(lines[i], key) /\ lines[i].spelling = "exact"
                            THEN Entry(key, value) ELSE lines[i]
             /\ \A i \in 1..Len(new) : i > Len(lines) => new[i] = Entry(key, value)
             /\ \E i \in 1..Len(new) : new[i] = Entry(key, value)
    BY Zenon
<1>4. CASE mine = {}
    <2>1. new = Append(lines, Entry(key, value))
        BY <1>4 DEF EditKeyValue
    <2>2. \A i \in 1..Len(lines) : ~(Is(lines[i], key) /\ lines[i].spelling = "exact")
        BY <1>2, <1>4
    <2> HIDE DEF lines, new, mine
    <2>3. /\ new \in FileText /\ Len(new) = Len(lines) + 1
          /\ new[Len(lines) + 1] = Entry(key, value)
          /\ \A i \in 1..Len(lines) : new[i] = lines[i]
        BY <1>1, <1>3, <2>1, LineAfter
    <2>4. \A i \in 1..Len(new) : i > Len(lines) => i = Len(lines) + 1
        BY <1>2, <2>3
    <2>5. Len(lines) + 1 \in 1..Len(new) /\ Len(lines) <= Len(new)
        BY <1>2, <2>3
    <2>q. QED
        BY <2>2, <2>3, <2>4, <2>5
<1>5. CASE mine # {}
    <2>1. new = [i \in DOMAIN lines |-> IF i \in mine THEN Entry(key, value) ELSE lines[i]]
        BY <1>5, Zenon DEF EditKeyValue
    <2>2. \A i \in 1..Len(lines) : i \in mine <=> Is(lines[i], key) /\ lines[i].spelling = "exact"
        BY <1>2
    <2>3. mine \subseteq 1..Len(lines)
        BY <1>2
    <2> HIDE DEF lines, new, mine
    <2>4. /\ new \in FileText /\ Len(new) = Len(lines)
          /\ \A i \in 1..Len(lines) :
                new[i] = IF i \in mine THEN Entry(key, value) ELSE lines[i]
        BY <1>1, <2>1, EntriesOver
    <2>5. \A i \in 1..Len(new) : ~(i > Len(lines))
        BY <1>2, <2>4
    <2>6. \E i \in 1..Len(new) : new[i] = Entry(key, value)
        BY <1>5, <2>3, <2>4
    <2>7. Len(lines) <= Len(new)
        BY <1>2, <2>4
    <2>q. QED
        BY <2>2, <2>4, <2>5, <2>6, <2>7
<1>q. QED
    BY <1>4, <1>5

\* The entries of a key in a section, and the headers of that section.
IniEntries(lines, section, key) ==
    {i \in InSection(lines, section) : Is(lines[i], key) /\ lines[i].spelling # "tight"}
IniHeaders(lines, section) == {i \in DOMAIN lines : lines[i] = Header(section)}

\* editINIFile: the same, for the entries of the key in the section, of any
\* spelling but "key=value"; without one the entry, and the header if that is
\* missing too, come last.
INIEdited(lines, new, section, key, value, mine, header) ==
    /\ new \in FileText /\ Len(lines) <= Len(new)
    /\ \A i \in 1..Len(lines) : new[i] = IF i \in mine THEN Entry(key, value) ELSE lines[i]
    /\ mine # {} => Len(new) = Len(lines)
    /\ mine = {} /\ header # {} =>
          Len(new) = Len(lines) + 1 /\ new[Len(lines) + 1] = Entry(key, value)
    /\ mine = {} /\ header = {} =>
          /\ Len(new) = Len(lines) + 2 /\ new[Len(lines) + 1] = Header(section)
          /\ new[Len(lines) + 2] = Entry(key, value)

LEMMA EditINIIs ==
    ASSUME NEW file \in {None} \cup FileText, NEW section \in Name, NEW key \in Name,
           NEW value \in Url, NEW lines, lines = Lines(file),
           NEW new, new = EditINI(file, section, key, value),
           NEW mine, mine = IniEntries(lines, section, key),
           NEW header, header = IniHeaders(lines, section)
    PROVE  INIEdited(lines, new, section, key, value, mine, header)
<1> DEFINE entry  == Entry(key, value)
           head   == Header(section)
<1>1. lines \in FileText /\ lines \in Seq(FileLine)
    BY LinesType
<1>2. Len(lines) \in Nat
    BY <1>1
<1>3. /\ entry \in FileLine /\ entry.kind = "entry"
      /\ head \in FileLine /\ head = Header(head.name)
    BY NewLines
<1>4. new = IF mine # {} THEN [i \in DOMAIN lines |-> IF i \in mine THEN entry ELSE lines[i]]
            ELSE lines \o (IF header = {} THEN <<head>> ELSE <<>>) \o <<entry>>
    <2>1. EditINI(file, section, key, value) =
            IF IniEntries(Lines(file), section, key) # {}
            THEN [i \in DOMAIN Lines(file) |-> IF i \in IniEntries(Lines(file), section, key)
                                               THEN entry ELSE Lines(file)[i]]
            ELSE Lines(file) \o (IF IniHeaders(Lines(file), section) = {} THEN <<head>> ELSE <<>>)
                             \o <<entry>>
        BY Zenon DEF EditINI, IniEntries, IniHeaders
    <2>q. QED
        BY <2>1
<1>5. mine = {} => \A i \in 1..Len(lines) : i \notin mine
    OBVIOUS
<1> SUFFICES /\ new \in FileText /\ Len(lines) <= Len(new)
             /\ \A i \in 1..Len(lines) : new[i] = IF i \in mine THEN entry ELSE lines[i]
             /\ mine # {} => Len(new) = Len(lines)
             /\ mine = {} /\ header # {} =>
                   Len(new) = Len(lines) + 1 /\ new[Len(lines) + 1] = entry
             /\ mine = {} /\ header = {} =>
                   /\ Len(new) = Len(lines) + 2 /\ new[Len(lines) + 1] = head
                   /\ new[Len(lines) + 2] = entry
    BY Zenon DEF entry, head, INIEdited
<1>7. CASE mine # {}
    <2>1. new = [i \in DOMAIN lines |-> IF i \in mine THEN Entry(key, value) ELSE lines[i]]
        BY <1>4, <1>7
    <2>2. /\ new \in FileText /\ Len(new) = Len(lines)
          /\ \A i \in 1..Len(lines) :
                new[i] = IF i \in mine THEN entry ELSE lines[i]
        BY <1>1, <2>1, EntriesOver
    <2> HIDE DEF entry, head
    <2>3. Len(lines) <= Len(new)
        BY <1>2, <2>2
    <2>q. QED
        BY <1>7, <2>2, <2>3
<1> HIDE DEF entry, head
<1>8. CASE mine = {} /\ header # {}
    <2>1. new = lines \o <<>> \o <<entry>>
        BY <1>4, <1>8
    <2>2. new = Append(lines, entry)
        BY <1>1, <1>3, <2>1
    <2>a. entry.kind = "header" => entry = Header(entry.name)
        BY <1>3
    <2>b. /\ Append(lines, entry) \in FileText /\ Len(Append(lines, entry)) = Len(lines) + 1
          /\ Append(lines, entry)[Len(lines) + 1] = entry
          /\ \A i \in 1..Len(lines) : Append(lines, entry)[i] = lines[i]
        BY <1>1, <1>3, <2>a, LineAfter
    <2>3. /\ new \in FileText /\ Len(new) = Len(lines) + 1 /\ new[Len(lines) + 1] = entry
          /\ \A i \in 1..Len(lines) : new[i] = lines[i]
        BY <2>2, <2>b, Zenon
    <2>4. Len(lines) <= Len(new)
        BY <1>2, <2>3
    <2>5. \A i \in 1..Len(lines) : new[i] = IF i \in mine THEN entry ELSE lines[i]
        BY <1>8, <2>3
    <2>q. QED
        BY <1>8, <2>3, <2>4, <2>5, Zenon
<1>9. CASE mine = {} /\ header = {}
    <2>1. new = lines \o <<head>> \o <<entry>>
        BY <1>4, <1>9
    <2> DEFINE mid == Append(lines, head)
    <2>2. /\ mid \in FileText /\ Len(mid) = Len(lines) + 1 /\ mid[Len(lines) + 1] = head
          /\ mid = lines \o <<head>> /\ \A i \in 1..Len(lines) : mid[i] = lines[i]
        BY <1>1, <1>3, LineAfter
    <2> HIDE DEF mid
    <2>3. /\ Append(mid, entry) \in FileText /\ Append(mid, entry) = mid \o <<entry>>
          /\ Len(Append(mid, entry)) = Len(mid) + 1 /\ Append(mid, entry)[Len(mid) + 1] = entry
          /\ \A i \in 1..Len(mid) : Append(mid, entry)[i] = mid[i]
        BY <1>3, <2>2, LineAfter
    <2>4. new = Append(mid, entry)
        BY <2>1, <2>2, <2>3
    <2>5. Len(lines) + 1 \in 1..Len(mid) /\ \A i \in 1..Len(lines) : i \in 1..Len(mid)
        BY <1>2, <2>2
    <2>6. Len(new) = Len(lines) + 2 /\ new[Len(lines) + 2] = entry
        BY <1>2, <2>2, <2>3, <2>4
    <2>7. new[Len(lines) + 1] = head /\ \A i \in 1..Len(lines) : new[i] = lines[i]
        BY <2>2, <2>3, <2>4, <2>5
    <2>8. Len(lines) <= Len(new)
        BY <1>2, <2>6
    <2>q. QED
        BY <1>5, <1>9, <2>3, <2>4, <2>6, <2>7, <2>8
<1>q. QED
    BY <1>7, <1>8, <1>9

LEMMA WithoutText ==
    ASSUME NEW lines \in FileText, NEW drop PROVE Without(lines, drop) \in FileText
<1>0. lines \in Seq(FileLine)
    BY FileTextIs
<1>1. \A i \in 1..Len(lines) : lines[i].kind = "header" => lines[i] = Header(lines[i].name)
    BY FileTextIs
<1>2. /\ Without(lines, drop) \in Seq(FileLine)
      /\ \A n \in 1..Len(Without(lines, drop)) :
            /\ Nth(Rest(Len(lines), drop), n) \in Rest(Len(lines), drop)
            /\ Without(lines, drop)[n] = lines[Nth(Rest(Len(lines), drop), n)]
    BY <1>0, WithoutType, ZenonT(30)
<1>3. \A i \in Rest(Len(lines), drop) : i \in 1..Len(lines)
    BY DEF Rest
<1>4. \A n \in 1..Len(Without(lines, drop)) : Without(lines, drop)[n].kind = "header" =>
          Without(lines, drop)[n] = Header(Without(lines, drop)[n].name)
    BY <1>1, <1>2, <1>3
<1>q. QED
    BY <1>2, <1>4, FileTextIs

-----------------------------------------------------------------------------
(* Sections.                                                               *)

\* The headers up to line i.
Heads(lines, i) == {j \in 1..i : lines[j].kind = "header"}

LEMMA SectionIs ==
    ASSUME NEW lines \in Seq(FileLine), NEW section, NEW i \in 1..Len(lines)
    PROVE  /\ i \in InSection(lines, section) <=>
                 Heads(lines, i) # {} /\ lines[Max(Heads(lines, i))].name = section
           /\ Heads(lines, i) # {} =>
                 /\ Max(Heads(lines, i)) \in Heads(lines, i)
                 /\ \A j \in Heads(lines, i) : j <= Max(Heads(lines, i))
<1>1. i \in Nat /\ i \in DOMAIN lines
    OBVIOUS
<1>2. i \in InSection(lines, section) <=>
          Heads(lines, i) # {} /\ lines[Max(Heads(lines, i))].name = section
    BY <1>1, Zenon DEF InSection, Heads
<1>3. Heads(lines, i) \in SUBSET (1..i)
    BY DEF Heads
<1>4. Heads(lines, i) # {} =>
          /\ Max(Heads(lines, i)) \in Heads(lines, i)
          /\ \A j \in Heads(lines, i) : j <= Max(Heads(lines, i))
    BY <1>1, <1>3, MaxOf
<1>q. QED
    BY <1>2, <1>4

\* A file with the same headers so far has the same sections.
LEMMA SectionsStay ==
    ASSUME NEW lines \in Seq(FileLine), NEW lines2 \in Seq(FileLine), NEW section,
           Len(lines) <= Len(lines2),
           \A j \in 1..Len(lines) :
              /\ lines2[j].kind = "header" <=> lines[j].kind = "header"
              /\ lines[j].kind = "header" => lines2[j].name = lines[j].name,
           NEW i \in 1..Len(lines)
    PROVE  i \in InSection(lines2, section) <=> i \in InSection(lines, section)
<1>1. i \in 1..Len(lines2) /\ \A j \in 1..i : j \in 1..Len(lines)
    OBVIOUS
<1>2. Heads(lines2, i) = Heads(lines, i)
    BY <1>1 DEF Heads
<1>3. Heads(lines, i) # {} =>
          lines2[Max(Heads(lines, i))].name = lines[Max(Heads(lines, i))].name
    <2>1. \A j \in Heads(lines, i) : lines2[j].name = lines[j].name
        BY <1>1 DEF Heads
    <2>q. QED
        BY <2>1, SectionIs
<1>4. i \in InSection(lines, section) <=>
          Heads(lines, i) # {} /\ lines[Max(Heads(lines, i))].name = section
    BY SectionIs
<1>5. i \in InSection(lines2, section) <=>
          Heads(lines2, i) # {} /\ lines2[Max(Heads(lines2, i))].name = section
    BY <1>1, SectionIs
<1>q. QED
    BY <1>2, <1>3, <1>4, <1>5

\* So does one from which lines are dropped that are no headers.
LEMMA SectionsKept ==
    ASSUME NEW lines \in Seq(FileLine), NEW drop, NEW section,
           \A i \in 1..Len(lines) : i \in drop => lines[i].kind # "header",
           NEW n \in 1..Len(Without(lines, drop))
    PROVE  n \in InSection(Without(lines, drop), section) <=>
             Nth(Rest(Len(lines), drop), n) \in InSection(lines, section)
<1> DEFINE l == Len(lines)
           K == Rest(l, drop)
           new == Without(lines, drop)
           i == Nth(K, n)
<1>1. l \in Nat /\ K \in SUBSET (1..l) /\ lines \in Seq(FileLine)
    BY DEF Rest
<1>2. /\ new \in Seq(FileLine) /\ Len(new) = Cardinality(K)
      /\ \A k \in 1..Len(new) : Nth(K, k) \in K /\ new[k] = lines[Nth(K, k)]
    BY <1>1, WithoutType
<1>3. \A j \in 1..l : lines[j].kind = "header" => j \in K
    BY DEF Rest
<1>4. \A k \in 1..Len(new) : Rank(K, Nth(K, k)) = k
    BY <1>1, <1>2, NthIs
<1>5. \A j \in K : Rank(K, j) \in 1..Len(new) /\ Nth(K, Rank(K, j)) = j
    BY <1>1, <1>2, NthIs
<1>0. n \in 1..Len(new)
    OBVIOUS
<1> HIDE DEF l, K, new
<1>a. \A x \in K : x \in Int /\ x \in 0..l /\ 1 <= x
    BY <1>1
<1>6. i \in K /\ i \in 1..l /\ Rank(K, i) = n
    BY <1>0, <1>1, <1>2, <1>4
<1> HIDE DEF i
<1>7. ASSUME NEW j \in K, NEW k \in K PROVE j <= k <=> Rank(K, j) <= Rank(K, k)
    <2>1. j \in 0..l /\ k \in 0..l /\ j \in Int /\ k \in Int
        BY <1>a
    <2>2. Rank(K, j) \in Nat /\ Rank(K, k) \in Nat
        BY <1>1, <2>1, Positions
    <2>3. j < k => Rank(K, j) < Rank(K, k)
        BY <1>1, <2>1, RankGrows
    <2>4. k < j => Rank(K, k) < Rank(K, j)
        BY <1>1, <2>1, RankGrows
    <2>q. QED
        BY <2>1, <2>2, <2>3, <2>4
<1>8. ASSUME NEW j \in Heads(lines, i) PROVE Rank(K, j) \in Heads(new, n)
    <2>1. j \in 1..l /\ j <= i /\ lines[j].kind = "header"
        BY <1>1, <1>6 DEF Heads
    <2>2. j \in K
        BY <1>3, <2>1
    <2>3. Rank(K, j) \in 1..Len(new) /\ Rank(K, j) <= n
        BY <1>5, <1>6, <1>7, <2>1, <2>2
    <2>4. new[Rank(K, j)].kind = "header"
        BY <1>2, <1>5, <2>1, <2>2, <2>3
    <2>5. Rank(K, j) \in 1..n
        BY <1>0, <2>3
    <2>q. QED
        BY <2>4, <2>5 DEF Heads
<1>9. ASSUME NEW k \in Heads(new, n) PROVE Nth(K, k) \in Heads(lines, i)
    <2>1. k \in 1..Len(new) /\ k <= n /\ new[k].kind = "header"
        BY <1>0 DEF Heads
    <2>2. Nth(K, k) \in K /\ lines[Nth(K, k)].kind = "header" /\ Rank(K, Nth(K, k)) = k
        BY <1>2, <1>4, <2>1
    <2>3. Nth(K, k) <= i
        BY <1>6, <1>7, <2>1, <2>2
    <2>4. Nth(K, k) \in 1..i
        <3>1. Nth(K, k) \in Int /\ 1 <= Nth(K, k)
            BY <1>a, <2>2
        <3>2. i \in Int
            BY <1>6, <1>a
        <3>q. QED
            BY <2>3, <3>1, <3>2
    <2>q. QED
        BY <2>2, <2>4 DEF Heads
<1>10. i \in InSection(lines, section) <=>
          Heads(lines, i) # {} /\ lines[Max(Heads(lines, i))].name = section
    BY <1>6, SectionIs DEF l
<1>11. n \in InSection(new, section) <=>
          Heads(new, n) # {} /\ new[Max(Heads(new, n))].name = section
    BY <1>0, <1>2, SectionIs
<1>12. Heads(lines, i) # {} <=> Heads(new, n) # {}
    BY <1>8, <1>9
<1>13. ASSUME Heads(new, n) # {} PROVE new[Max(Heads(new, n))] = lines[Max(Heads(lines, i))]
    <2> DEFINE k == Max(Heads(new, n))
               j == Max(Heads(lines, i))
    <2>1. k \in Heads(new, n) /\ \A x \in Heads(new, n) : x <= k
        BY <1>0, <1>2, <1>13, SectionIs
    <2>2. j \in Heads(lines, i) /\ \A x \in Heads(lines, i) : x <= j
        BY <1>6, <1>12, <1>13, SectionIs DEF l
    <2> HIDE DEF k, j
    <2>3. Nth(K, k) <= j /\ Rank(K, j) <= k
        BY <1>8, <1>9, <2>1, <2>2
    <2>4. k \in 1..Len(new) /\ Nth(K, k) \in K /\ Rank(K, Nth(K, k)) = k /\ new[k] = lines[Nth(K, k)]
        BY <1>0, <1>2, <1>4, <2>1 DEF Heads
    <2>5. j \in 1..l /\ j \in K
        BY <1>1, <1>3, <1>6, <2>2 DEF Heads
    <2>6. j <= Nth(K, k)
        BY <1>7, <2>3, <2>4, <2>5
    <2>7. Nth(K, k) \in Int /\ j \in Int
        BY <1>a, <2>4, <2>5
    <2>8. j = Nth(K, k)
        BY <2>3, <2>6, <2>7
    <2>q. QED
        BY <2>4, <2>8 DEF k, j
<1>q. QED
    BY <1>10, <1>11, <1>12, <1>13 DEF i, K, l, new

-----------------------------------------------------------------------------
(* What a tool reads.                                                      *)

\* The lines that it looks at.
Places(lines, key) ==
    {i \in DOMAIN lines : Is(lines[i], key)}
    \cap (IF app = "pip" THEN InSection(lines, "global") ELSE DOMAIN lines)

LEMMA ReadsIs ==
    ASSUME NEW settings, NEW key, app \notin Commands
    PROVE  Reads(settings, key) =
             IF Places(Lines(settings), key) = {} THEN None
             ELSE IF app = "pip" /\ Cardinality(Places(Lines(settings), key)) > 1 THEN Error
             ELSE Lines(settings)[Max(Places(Lines(settings), key))].value
BY Zenon DEF Reads, Places

LEMMA PlacesIs ==
    ASSUME NEW lines \in Seq(FileLine), NEW key
    PROVE  /\ Places(lines, key) \in SUBSET (1..Len(lines))
           /\ \A i \in 1..Len(lines) : i \in Places(lines, key) <=>
                 Is(lines[i], key) /\ (app = "pip" => i \in InSection(lines, "global"))
           /\ Places(lines, key) # {} => Max(Places(lines, key)) \in Places(lines, key)
<1>1. Len(lines) \in Nat /\ DOMAIN lines = 1..Len(lines)
    OBVIOUS
<1>2. Places(lines, key) \in SUBSET (1..Len(lines))
    BY <1>1 DEF Places
<1>3. \A i \in 1..Len(lines) : i \in Places(lines, key) <=>
          Is(lines[i], key) /\ (app = "pip" => i \in InSection(lines, "global"))
    BY <1>1 DEF Places
<1>4. Places(lines, key) # {} => Max(Places(lines, key)) \in Places(lines, key)
    BY <1>1, <1>2, MaxOf
<1>q. QED
    BY <1>2, <1>3, <1>4

\* It finds a value when all lines it looks at have that value; pip, when
\* there is only one.
LEMMA ReadsValue ==
    ASSUME NEW settings, NEW key, NEW value, app \notin Commands,
           Lines(settings) \in Seq(FileLine), Places(Lines(settings), key) # {},
           \A i \in Places(Lines(settings), key) : Lines(settings)[i].value = value,
           app = "pip" => ~(Cardinality(Places(Lines(settings), key)) > 1)
    PROVE  Reads(settings, key) = value
<1>1. Max(Places(Lines(settings), key)) \in Places(Lines(settings), key)
    BY PlacesIs
<1>2. Lines(settings)[Max(Places(Lines(settings), key))].value = value
    BY <1>1
<1>q. QED
    BY <1>2, ReadsIs

-----------------------------------------------------------------------------
(* The edits take effect.                                                  *)

Exact(lines) == \A i \in 1..Len(lines) : lines[i].spelling = "exact"

LEMMA KeyNames ==
    ASSUME app \in App
    PROVE  /\ KeySet(app) \subseteq Name /\ "global" \in Name
           /\ app = "pip" => KeySet(app) = {"proxy"}
<1>1. KeySet(app) \subseteq Name /\ "global" \in Name
    BY AppAssumption
<1>2. ASSUME app = "pip" PROVE KeySet(app) = {"proxy"}
    <2>1. Keys(app) = <<"proxy">>
        BY <1>2 DEF Keys
    <2>2. DOMAIN <<"proxy">> = {1} /\ <<"proxy">>[1] = "proxy"
        OBVIOUS
    <2>3. KeySet(app) = {Keys(app)[i] : i \in DOMAIN Keys(app)}
        BY Zenon DEF KeySet
    <2>q. QED
        BY <2>1, <2>2, <2>3
<1>q. QED
    BY <1>1, <1>2

\* curl and wget: the key that was written is read, and so is another key as
\* before, when the package's spelling was used.
LEMMA KeyValueIsRead ==
    ASSUME app \notin Commands, app # "pip", NEW file \in {None} \cup FileText,
           NEW key \in Name, NEW value \in Url, Exact(Lines(file))
    PROVE  /\ Reads(EditKeyValue(file, key, value), key) = value
           /\ Exact(Lines(EditKeyValue(file, key, value)))
           /\ \A other \in Name \ {key} :
                 Reads(EditKeyValue(file, key, value), other) = Reads(file, other)
<1> DEFINE lines == Lines(file)
           new == EditKeyValue(file, key, value)
<1>1. /\ lines \in Seq(FileLine) /\ Len(lines) \in Nat
      /\ new \in FileText /\ Len(lines) <= Len(new)
      /\ \A i \in 1..Len(lines) : new[i] = IF Is(lines[i], key) /\ lines[i].spelling = "exact"
                                           THEN Entry(key, value) ELSE lines[i]
      /\ \A i \in 1..Len(new) : i > Len(lines) => new[i] = Entry(key, value)
      /\ \E i \in 1..Len(new) : new[i] = Entry(key, value)
    <2>1. lines \in Seq(FileLine)
        BY LinesType
    <2>2. Len(lines) \in Nat
        BY <2>1
    <2>q. QED
        BY <2>1, <2>2, EditKeyValueIs
<1>2. Lines(new) = new /\ new \in Seq(FileLine) /\ Len(new) \in Nat
    <2>1. Lines(new) = new /\ new \in Seq(FileLine)
        BY <1>1, LinesType, NoneIsNoText
    <2>q. QED
        BY <2>1
<1>3. Exact(lines)
    OBVIOUS
<1>4. /\ Entry(key, value).kind = "entry" /\ Entry(key, value).name = key
      /\ Entry(key, value).value = value /\ Entry(key, value).spelling = "exact"
    BY NewLines
<1> HIDE DEF lines, new
<1>5. \A i \in 1..Len(new) : i \in 1..Len(lines) \/ i > Len(lines)
    BY <1>1, <1>2
<1>6. \A i \in 1..Len(new) : Is(new[i], key) => new[i] = Entry(key, value)
    BY <1>1, <1>3, <1>5 DEF Exact
<1>7. Reads(new, key) = value
    <2>1. \A i \in Places(new, key) : new[i].value = value
        BY <1>2, <1>4, <1>6, PlacesIs
    <2>2. PICK i \in 1..Len(new) : new[i] = Entry(key, value)
        BY <1>1
    <2>3. i \in Places(new, key)
        BY <1>2, <1>4, <2>2, PlacesIs DEF Is
    <2>q. QED
        BY <1>2, <2>1, <2>3, ReadsValue
<1>8. Exact(Lines(new))
    BY <1>1, <1>2, <1>3, <1>4, <1>5 DEF Exact
<1>9. ASSUME NEW other \in Name \ {key} PROVE Reads(new, other) = Reads(file, other)
    <2>1. \A i \in 1..Len(new) : i \in Places(new, other) <=> i \in Places(lines, other)
        <3>1. ASSUME NEW i \in 1..Len(lines)
              PROVE  /\ Is(new[i], other) <=> Is(lines[i], other)
                     /\ Is(lines[i], other) => new[i] = lines[i]
            BY <1>1, <1>4, <3>1 DEF Is
        <3>2. ASSUME NEW i \in 1..Len(new), i > Len(lines) PROVE ~Is(new[i], other)
            BY <1>1, <1>4, <3>2 DEF Is
        <3>3. \A i \in 1..Len(lines) : i \in 1..Len(new)
            BY <1>1, <1>2
        <3>4. \A i \in 1..Len(new) : i \in Places(new, other) <=> Is(new[i], other)
            BY <1>2, PlacesIs
        <3>5. \A i \in 1..Len(lines) : i \in Places(lines, other) <=> Is(lines[i], other)
            BY <1>1, PlacesIs
        <3>6. \A i \in 1..Len(new) : i > Len(lines) => i \notin Places(lines, other)
            <4>1. Places(lines, other) \subseteq 1..Len(lines)
                BY <1>1, PlacesIs
            <4>q. QED
                BY <1>1, <4>1
        <3>q. QED
            BY <1>5, <3>1, <3>2, <3>3, <3>4, <3>5, <3>6
    <2>2. Places(new, other) \subseteq 1..Len(new) /\ Places(lines, other) \subseteq 1..Len(new)
        <3>1. Places(new, other) \subseteq 1..Len(new) /\ Places(lines, other) \subseteq 1..Len(lines)
            BY <1>1, <1>2, PlacesIs
        <3>2. 1..Len(lines) \subseteq 1..Len(new)
            BY <1>1, <1>2
        <3>q. QED
            BY <3>1, <3>2
    <2>3. Places(new, other) = Places(lines, other)
        BY <2>1, <2>2
    <2>4. \A i \in Places(lines, other) : new[i] = lines[i]
        <3>1. \A i \in Places(lines, other) : i \in 1..Len(lines) /\ Is(lines[i], other)
            BY <1>1, PlacesIs
        <3>q. QED
            BY <1>1, <3>1 DEF Is
    <2>5. Places(lines, other) # {} => Max(Places(lines, other)) \in Places(lines, other)
        BY <1>1, PlacesIs
    <2>6. Reads(new, other) = IF Places(lines, other) = {} THEN None
                              ELSE new[Max(Places(lines, other))].value
        BY <1>2, <2>3, ReadsIs
    <2>7. Reads(file, other) = IF Places(lines, other) = {} THEN None
                               ELSE lines[Max(Places(lines, other))].value
        BY ReadsIs DEF lines
    <2>q. QED
        BY <2>4, <2>5, <2>6, <2>7
<1>q. QED
    BY <1>7, <1>8, <1>9 DEF new

\* They read nothing any more of the keys that were removed.
LEMMA RemovedKeysAreNotRead ==
    ASSUME app \notin Commands, app # "pip", NEW file \in {None} \cup FileText,
           Exact(Lines(file)), NEW keys, NEW key \in keys
    PROVE  Reads(RemoveKeys(file, keys), key) = None
<1> DEFINE new == RemoveKeys(file, keys)
<1>1. CASE file = None
    <2>1. Lines(new) = <<>> /\ <<>> \in Seq(FileLine)
        BY <1>1 DEF RemoveKeys, Lines
    <2>2. Places(<<>>, key) \in SUBSET (1..Len(<<>>)) /\ Len(<<>>) = 0
        BY <2>1, PlacesIs
    <2>3. Places(<<>>, key) = {}
        BY <2>2
    <2>q. QED
        BY <2>1, <2>3, ReadsIs
<1>2. CASE file # None
    <2> DEFINE drop == {i \in DOMAIN file : /\ file[i].spelling # "tight"
                                           /\ \E k \in keys : Is(file[i], k)}
    <2>1. file \in FileText /\ file \in Seq(FileLine) /\ Lines(file) = file
        BY <1>2, LinesType
    <2>2. DOMAIN file = 1..Len(file)
        BY <2>1
    <2>3. new = Without(file, drop)
        BY <1>2, Zenon DEF RemoveKeys
    <2>4. \A i \in 1..Len(file) : Is(file[i], key) => i \in drop
        BY <2>1, <2>2 DEF Exact
    <2> HIDE DEF drop, new
    <2>5. new \in FileText
        BY <2>1, <2>3, WithoutText
    <2>6. Lines(new) = new /\ new \in Seq(FileLine)
        BY <2>5, LinesType, NoneIsNoText
    <2>7. \A n \in 1..Len(new) : /\ Nth(Rest(Len(file), drop), n) \in Rest(Len(file), drop)
                                 /\ new[n] = file[Nth(Rest(Len(file), drop), n)]
        BY <2>1, <2>3, WithoutType
    <2>8. \A n \in 1..Len(new) : ~Is(new[n], key)
        BY <2>4, <2>7 DEF Rest
    <2>9. Places(new, key) = {}
        BY <2>6, <2>8, PlacesIs
    <2>q. QED
        BY <2>6, <2>9, ReadsIs DEF new
<1>q. QED
    BY <1>1, <1>2

\* pip: where editINIFile leaves the sections, and which lines pip looks at.
LEMMA PipPlaces ==
    ASSUME app = "pip", NEW file \in {None} \cup FileText, NEW value \in Url,
           NEW i \in 1..Len(Lines(file))
    PROVE  LET lines == Lines(file)
               new   == EditINI(file, "global", "proxy", value)
           IN  /\ i \in InSection(new, "global") <=> i \in InSection(lines, "global")
               /\ Is(new[i], "proxy") <=> Is(lines[i], "proxy")
               /\ i \in Places(new, "proxy") <=> i \in Places(lines, "proxy")
<1> DEFINE lines == Lines(file)
           new == EditINI(file, "global", "proxy", value)
           mine == IniEntries(lines, "global", "proxy")
<1>0. "proxy" \in Name /\ "global" \in Name
    BY KeyNames DEF App
<1>1. /\ lines \in Seq(FileLine) /\ Len(lines) \in Nat
      /\ new \in FileText /\ Len(lines) <= Len(new)
      /\ \A k \in 1..Len(lines) : new[k] = IF k \in mine THEN Entry("proxy", value) ELSE lines[k]
    <2>1. lines \in Seq(FileLine)
        BY LinesType
    <2>2. Len(lines) \in Nat
        BY <2>1
    <2> DEFINE header == IniHeaders(lines, "global")
    <2>3. INIEdited(lines, new, "global", "proxy", value, mine, header)
        BY <1>0, EditINIIs, Zenon
    <2> HIDE DEF lines, new, mine, header
    <2>q. QED
        BY <2>1, <2>2, <2>3 DEF INIEdited
<1>2. Entry("proxy", value).kind = "entry" /\ Entry("proxy", value).name = "proxy"
    BY <1>0, NewLines
<1>3. new \in Seq(FileLine) /\ Len(new) \in Nat
    <2>1. new \in Seq(FileLine)
        BY <1>1 DEF FileText
    <2>q. QED
        BY <2>1
<1>4. \A k \in mine : lines[k].kind = "entry" /\ lines[k].name = "proxy"
    BY DEF Is, IniEntries
<1>5. i \in 1..Len(lines)
    OBVIOUS
<1> SUFFICES /\ i \in InSection(new, "global") <=> i \in InSection(lines, "global")
             /\ Is(new[i], "proxy") <=> Is(lines[i], "proxy")
             /\ i \in Places(new, "proxy") <=> i \in Places(lines, "proxy")
    BY Zenon
<1> HIDE DEF lines, new, mine
<1>6. \A k \in 1..Len(lines) :
          /\ new[k].kind = "header" <=> lines[k].kind = "header"
          /\ lines[k].kind = "header" => new[k].name = lines[k].name
          /\ Is(new[k], "proxy") <=> Is(lines[k], "proxy")
    BY <1>1, <1>2, <1>4 DEF Is
<1>7. i \in InSection(new, "global") <=> i \in InSection(lines, "global")
    BY <1>1, <1>3, <1>5, <1>6, SectionsStay
<1>8. i \in 1..Len(new)
    BY <1>1, <1>3, <1>5
<1>q. QED
    BY <1>1, <1>3, <1>5, <1>6, <1>7, <1>8, PlacesIs

\* pip: with one place that it reads, or none and [global] last or missing,
\* the key is read.
LEMMA PipIsRead ==
    ASSUME app = "pip", NEW file \in {None} \cup FileText, NEW value \in Url,
           WellSpelled(file), WellPlaced(file)
    PROVE  Reads(EditINI(file, "global", "proxy", value), "proxy") = value
<1> DEFINE lines == Lines(file)
           new == EditINI(file, "global", "proxy", value)
           mine == IniEntries(lines, "global", "proxy")
           header == IniHeaders(lines, "global")
           l == Len(lines)
           P == Places(lines, "proxy")
           Q == Places(new, "proxy")
<1>0. "proxy" \in Name /\ "global" \in Name /\ app \notin Commands /\ "proxy" \in KeySet(app)
    <2>1. app \in App /\ app \notin Commands
        BY DEF App, Commands
    <2>q. QED
        BY <2>1, KeyNames
<1>1. /\ lines \in FileText /\ lines \in Seq(FileLine) /\ l \in Nat /\ DOMAIN lines = 1..l
      /\ new \in FileText /\ l <= Len(new)
      /\ \A k \in 1..l : new[k] = IF k \in mine THEN Entry("proxy", value) ELSE lines[k]
      /\ mine # {} => Len(new) = l
      /\ mine = {} /\ header # {} => Len(new) = l + 1 /\ new[l + 1] = Entry("proxy", value)
      /\ mine = {} /\ header = {} =>
            /\ Len(new) = l + 2 /\ new[l + 1] = Header("global")
            /\ new[l + 2] = Entry("proxy", value)
    <2>1. lines \in FileText /\ lines \in Seq(FileLine)
        BY LinesType
    <2>2. l \in Nat /\ DOMAIN lines = 1..l
        BY <2>1
    <2>0. "proxy" \in Name /\ "global" \in Name
        BY <1>0
    <2>7. lines = Lines(file) /\ l = Len(lines) /\ new = EditINI(file, "global", "proxy", value)
        OBVIOUS
    <2>8. mine = IniEntries(lines, "global", "proxy") /\ header = IniHeaders(lines, "global")
        OBVIOUS
    <2> HIDE DEF mine, header, new, lines, l
    <2>9. file \in {None} \cup FileText /\ value \in Url
        OBVIOUS
    <2>3. INIEdited(lines, new, "global", "proxy", value, mine, header)
        BY <2>0, <2>7, <2>8, <2>9, EditINIIs, Zenon
    <2>q. QED
        BY <2>1, <2>2, <2>3, <2>7 DEF INIEdited
<1>2. /\ Entry("proxy", value).kind = "entry" /\ Entry("proxy", value).name = "proxy"
      /\ Entry("proxy", value).value = value
      /\ Header("global").kind = "header" /\ Header("global").name = "global"
    BY <1>0, NewLines
<1>3. Lines(new) = new /\ new \in Seq(FileLine) /\ Len(new) \in Nat
    <2>1. Lines(new) = new /\ new \in Seq(FileLine)
        BY <1>1, LinesType, NoneIsNoText
    <2>q. QED
        BY <2>1
<1>4. (\A k \in 1..l : lines[k].spelling = "exact") /\ Reads(file, "proxy") # Error
    BY <1>0, <1>1 DEF WellSpelled
<1>5. \A k \in 1..l : k \in Q <=> k \in P
    BY PipPlaces
<1>6. mine = P
    <2>1. P \subseteq 1..l /\ \A k \in 1..l : k \in P <=> Is(lines[k], "proxy") /\ k \in InSection(lines, "global")
        BY <1>1, PlacesIs
    <2>2. InSection(lines, "global") \subseteq 1..l
        BY <1>1 DEF InSection
    <2>q. QED
        BY <1>4, <2>1, <2>2 DEF IniEntries
<1>7. Reads(file, "proxy") = IF P = {} THEN None
                             ELSE IF Cardinality(P) > 1 THEN Error ELSE lines[Max(P)].value
    BY <1>0, ReadsIs
<1>8. P \subseteq 1..l /\ Q \subseteq 1..Len(new)
    BY <1>1, <1>3, PlacesIs
<1>9. \A k \in 1..Len(new) : k \in Q <=> Is(new[k], "proxy") /\ k \in InSection(new, "global")
    BY <1>3, PlacesIs
<1>10. Q # {} /\ (\A k \in Q : new[k].value = value) /\ ~(Cardinality(Q) > 1) =>
          Reads(new, "proxy") = value
    BY <1>0, <1>3, ReadsValue
<1>11. WellPlaced(file) /\ P = {} =>
          LET heads == {i \in DOMAIN lines : lines[i].kind = "header"}
          IN  Header("global") \in {lines[i] : i \in heads} => lines[Max(heads)] = Header("global")
    BY <1>7 DEF WellPlaced
<1> HIDE DEF lines, new, mine, header, l, P, Q
<1>12. CASE mine # {}
    <2>1. Q = P
        BY <1>1, <1>5, <1>8, <1>12
    <2>2. ~(Cardinality(P) > 1)
        BY <1>4, <1>6, <1>7, <1>12
    <2>3. \A k \in Q : new[k] = Entry("proxy", value)
        BY <1>1, <1>6, <1>8, <2>1
    <2>q. QED
        BY <1>2, <1>6, <1>10, <1>12, <2>1, <2>2, <2>3 DEF new
<1>13. ASSUME mine = {}, NEW n \in 1..Len(new), new[n] = Entry("proxy", value),
              n \in InSection(new, "global"),
              \A k \in 1..Len(new) : k \in 1..l \/ k = n \/ new[k].kind = "header"
       PROVE  Reads(new, "proxy") = value
    <2>1. \A k \in Q : k = n
        BY <1>5, <1>6, <1>8, <1>9, <1>13 DEF Is
    <2>2. n \in Q
        BY <1>2, <1>9, <1>13 DEF Is
    <2>3. Q = {n}
        BY <2>1, <2>2
    <2>4. Cardinality(Q) = 1
        BY <2>3, FS_Singleton
    <2>q. QED
        BY <1>2, <1>10, <1>13, <2>3, <2>4
<1>14. CASE mine = {} /\ header # {}
    <2> DEFINE heads == {i \in DOMAIN lines : lines[i].kind = "header"}
    <2>1. PICK i \in 1..l : lines[i] = Header("global")
        BY <1>1, <1>14 DEF header, IniHeaders
    <2>2. i \in heads
        BY <1>1, <1>2, <2>1
    <2>3. lines[Max(heads)] = Header("global")
        BY <1>6, <1>11, <1>14, <2>1, <2>2
    <2>4. Len(new) = l + 1 /\ new[l + 1] = Entry("proxy", value) /\ \A k \in 1..l : new[k] = lines[k]
        BY <1>1, <1>14
    <2>5. Heads(new, l + 1) = heads
        <3>1. \A k \in 1..(l + 1) : k \in 1..l \/ k = l + 1
            BY <1>1
        <3>2. \A k \in 1..l : k \in 1..(l + 1)
            BY <1>1
        <3>q. QED
            BY <1>1, <1>2, <2>4, <3>1, <3>2 DEF Heads
    <2>6. Max(heads) \in heads
        <3>1. heads \in SUBSET (1..l)
            BY <1>1
        <3> HIDE DEF heads
        <3>q. QED
            BY <1>1, <2>2, <3>1, MaxOf
    <2>7. l + 1 \in 1..Len(new)
        BY <1>1, <2>4
    <2>8. new[Max(heads)].name = "global"
        <3>1. Max(heads) \in 1..l
            BY <1>1, <2>6
        <3> HIDE DEF heads
        <3>q. QED
            BY <1>2, <2>3, <2>4, <3>1
    <2>9. l + 1 \in InSection(new, "global")
        <3>1. heads # {}
            BY <2>2
        <3> HIDE DEF heads
        <3>q. QED
            BY <1>3, <2>5, <2>7, <2>8, <3>1, SectionIs
    <2>10. \A k \in 1..Len(new) : k \in 1..l \/ k = l + 1
        BY <1>1, <2>4
    <2>11. Reads(new, "proxy") = value
        BY <1>13, <1>14, <2>4, <2>7, <2>9, <2>10
    <2>q. QED
        BY <2>11 DEF new
<1>15. CASE mine = {} /\ header = {}
    <2>1. /\ Len(new) = l + 2 /\ new[l + 1] = Header("global") /\ new[l + 2] = Entry("proxy", value)
        BY <1>1, <1>15
    <2>2. l + 2 \in 1..Len(new) /\ l + 1 \in 1..(l + 2)
        BY <1>1, <2>1
    <2>3. l + 1 \in Heads(new, l + 2)
        BY <1>2, <2>1, <2>2 DEF Heads
    <2>4. \A k \in Heads(new, l + 2) : k \in Nat /\ k <= l + 1
        <3>1. \A k \in 1..(l + 2) : k \in Nat /\ (k <= l + 1 \/ k = l + 2)
            BY <1>1
        <3>2. l + 2 \notin Heads(new, l + 2)
            BY <1>2, <2>1 DEF Heads
        <3>q. QED
            BY <3>1, <3>2 DEF Heads
    <2>5. Max(Heads(new, l + 2)) = l + 1
        BY <2>3, <2>4, MaxIs
    <2>6. l + 2 \in InSection(new, "global")
        BY <1>2, <1>3, <2>1, <2>2, <2>3, <2>5, SectionIs
    <2>7. \A k \in 1..Len(new) : k \in 1..l \/ k = l + 1 \/ k = l + 2
        BY <1>1, <2>1
    <2>8. \A k \in 1..Len(new) : k \in 1..l \/ k = l + 2 \/ new[k].kind = "header"
        BY <1>2, <2>1, <2>7
    <2>9. Reads(new, "proxy") = value
        BY <1>13, <1>15, <2>1, <2>2, <2>6, <2>8
    <2>q. QED
        BY <2>9 DEF new
<1>q. QED
    BY <1>12, <1>14, <1>15

\* pip reads nothing any more after removeINIKey.
LEMMA PipReadsNothing ==
    ASSUME app = "pip", NEW file \in {None} \cup FileText
    PROVE  Reads(RemoveINI(file, "global", "proxy"), "proxy") = None
<1> DEFINE new == RemoveINI(file, "global", "proxy")
<1>0. app \notin Commands
    BY DEF Commands
<1>1. CASE file = None
    <2>1. Lines(new) = <<>> /\ <<>> \in Seq(FileLine)
        BY <1>1 DEF RemoveINI, Lines
    <2>2. Places(<<>>, "proxy") \in SUBSET (1..Len(<<>>)) /\ Len(<<>>) = 0
        BY <2>1, PlacesIs
    <2>3. Places(<<>>, "proxy") = {}
        BY <2>2
    <2>q. QED
        BY <1>0, <2>1, <2>3, ReadsIs
<1>2. CASE file # None
    <2> DEFINE drop == {i \in InSection(file, "global") :
                         \E name \in {"proxy"} \cup Longer : Is(file[i], name)}
    <2>1. file \in FileText /\ file \in Seq(FileLine)
        BY <1>2, LinesType
    <2>2. new = Without(file, drop)
        BY <1>2, Zenon DEF RemoveINI
    <2>3. \A i \in 1..Len(file) : i \in drop => file[i].kind # "header"
        BY DEF Is
    <2>4. \A i \in 1..Len(file) : Is(file[i], "proxy") /\ i \in InSection(file, "global") => i \in drop
        OBVIOUS
    <2> HIDE DEF drop, new
    <2>5. new \in FileText
        BY <2>1, <2>2, WithoutText
    <2>6. Lines(new) = new /\ new \in Seq(FileLine)
        BY <2>5, LinesType, NoneIsNoText
    <2>7. \A n \in 1..Len(new) : /\ Nth(Rest(Len(file), drop), n) \in Rest(Len(file), drop)
                                 /\ new[n] = file[Nth(Rest(Len(file), drop), n)]
        BY <2>1, <2>2, WithoutType
    <2>8. \A n \in 1..Len(new) : n \in InSection(new, "global") <=>
              Nth(Rest(Len(file), drop), n) \in InSection(file, "global")
        BY <2>1, <2>2, <2>3, SectionsKept
    <2>9. \A n \in 1..Len(new) : ~(Is(new[n], "proxy") /\ n \in InSection(new, "global"))
        BY <2>4, <2>7, <2>8 DEF Rest
    <2>10. Places(new, "proxy") = {}
        BY <2>6, <2>9, PlacesIs
    <2>q. QED
        BY <1>0, <2>6, <2>10, ReadsIs DEF new
<1>q. QED
    BY <1>1, <1>2

-----------------------------------------------------------------------------
(* The edits keep the lines that are not for the proxy.                    *)

\* The lines for options of these names.
Own(lines, names) ==
    {i \in DOMAIN lines : lines[i].kind = "entry" /\ lines[i].name \in names}
    \cap (IF app = "pip" THEN InSection(lines, "global") ELSE DOMAIN lines)

LEMMA ForeignIs ==
    ASSUME NEW lines, NEW names
    PROVE  Foreign(lines, names) = Without(lines, Own(lines, names))
BY Zenon DEF Foreign, Own

LEMMA OwnIs ==
    ASSUME NEW lines \in Seq(FileLine), NEW names
    PROVE  /\ Own(lines, names) \subseteq 1..Len(lines)
           /\ \A i \in 1..Len(lines) : i \in Own(lines, names) <=>
                 /\ lines[i].kind = "entry" /\ lines[i].name \in names
                 /\ app = "pip" => i \in InSection(lines, "global")
<1>1. Len(lines) \in Nat /\ DOMAIN lines = 1..Len(lines)
    OBVIOUS
<1>q. QED
    BY <1>1 DEF Own

LEMMA ForeignStays ==
    ASSUME NEW lines \in Seq(FileLine), NEW names
    PROVE  Continues(Foreign(lines, names), Foreign(lines, names))
<1>1. Foreign(lines, names) \in Seq(FileLine)
    BY ForeignIs, WithoutType
<1> DEFINE f == Foreign(lines, names)
<1> HIDE DEF f
<1>2. f \in Seq(FileLine)
    BY <1>1 DEF f
<1>3. Len(f) <= Len(f) /\ \A n \in 1..Len(f) : f[n] = f[n]
    BY <1>2
<1>4. Continues(f, f)
    BY <1>2, <1>3, ContinuesIs
<1>q. QED
    BY <1>4 DEF f

LEMMA KeyValueKeeps ==
    ASSUME app \in App, app # "pip", NEW file \in {None} \cup FileText,
           NEW key \in KeySet(app), NEW value \in Url
    PROVE  Continues(Foreign(Lines(file), KeySet(app)), Foreign(Lines(EditKeyValue(file, key, value)), KeySet(app)))
<1> DEFINE lines == Lines(file)
           new == EditKeyValue(file, key, value)
<1>0. key \in Name
    BY KeyNames
<1>1. lines \in Seq(FileLine)
    BY LinesType
<1>2. /\ new \in FileText /\ Len(lines) <= Len(new)
      /\ \A i \in 1..Len(lines) :
            new[i] = IF Is(lines[i], key) /\ lines[i].spelling = "exact"
                     THEN Entry(key, value) ELSE lines[i]
    BY <1>0, EditKeyValueIs
<1>3. Entry(key, value).kind = "entry" /\ Entry(key, value).name = key
    BY <1>0, NewLines
<1>4. Lines(new) = new /\ new \in Seq(FileLine)
    BY <1>2, LinesType, NoneIsNoText
<1> HIDE DEF lines, new
<1>5. \A i \in 1..Len(lines) : i \in 1..Len(new)
    <2>1. Len(lines) \in Nat /\ Len(new) \in Nat
        BY <1>1, <1>4
    <2>q. QED
        BY <1>2, <2>1
<1>6. \A i \in 1..Len(lines) : i \in Own(lines, KeySet(app)) <=> i \in Own(new, KeySet(app))
    BY <1>1, <1>2, <1>3, <1>4, <1>5, OwnIs DEF Is
<1>7. \A i \in (1..Len(lines)) \ Own(lines, KeySet(app)) : new[i] = lines[i]
    BY <1>1, <1>2, OwnIs DEF Is
<1>8. Continues(Without(lines, Own(lines, KeySet(app))), Without(new, Own(new, KeySet(app))))
    BY <1>1, <1>2, <1>4, <1>6, <1>7, WithoutGrows
<1>9. Foreign(lines, KeySet(app)) = Without(lines, Own(lines, KeySet(app))) /\ Foreign(new, KeySet(app)) = Without(new, Own(new, KeySet(app)))
    BY ForeignIs
<1>q. QED
    BY <1>4, <1>8, <1>9 DEF lines, new

LEMMA RemoveKeysKeeps ==
    ASSUME app # "pip", NEW file \in {None} \cup FileText
    PROVE  Continues(Foreign(Lines(file), KeySet(app)), Foreign(Lines(RemoveKeys(file, KeySet(app))), KeySet(app)))
<1> DEFINE new == RemoveKeys(file, KeySet(app))
<1>0. Lines(file) \in Seq(FileLine)
    BY LinesType
<1>1. CASE file = None
    <2>1. new = file
        BY <1>1 DEF RemoveKeys
    <2>q. QED
        BY <1>0, <2>1, ForeignStays
<1>2. CASE file # None
    <2> DEFINE drop == {i \in DOMAIN file : /\ file[i].spelling # "tight"
                                           /\ \E k \in KeySet(app) : Is(file[i], k)}
    <2>1. file \in FileText /\ file \in Seq(FileLine) /\ Lines(file) = file
        BY <1>2, LinesType
    <2>2. DOMAIN file = 1..Len(file)
        BY <2>1
    <2>3. new = Without(file, drop)
        BY <1>2, Zenon DEF RemoveKeys
    <2>4. drop \subseteq Own(file, KeySet(app))
        BY <2>1, <2>2, OwnIs DEF Is
    <2> HIDE DEF drop, new
    <2>5. Lines(new) = new /\ new \in Seq(FileLine)
        BY <2>1, <2>3, WithoutText, LinesType, NoneIsNoText
    <2>6. \A n \in 1..Len(new) : /\ Nth(Rest(Len(file), drop), n) \in Rest(Len(file), drop)
                                 /\ new[n] = file[Nth(Rest(Len(file), drop), n)]
        BY <2>1, <2>3, WithoutType
    <2>7. \A i \in Rest(Len(file), drop) : i \in 1..Len(file)
        BY DEF Rest
    <2>8. \A n \in 1..Len(new) : n \in Own(new, KeySet(app)) <=> Nth(Rest(Len(file), drop), n) \in Own(file, KeySet(app))
        BY <2>1, <2>5, <2>6, <2>7, OwnIs
    <2>9. Without(new, Own(new, KeySet(app))) = Without(file, Own(file, KeySet(app)))
        BY <2>1, <2>3, <2>4, <2>8, WithoutTwice
    <2>10. Foreign(new, KeySet(app)) = Foreign(file, KeySet(app))
        BY <2>9, ForeignIs
    <2>q. QED
        BY <2>1, <2>5, <2>10, ForeignStays DEF new
<1>q. QED
    BY <1>1, <1>2

\* pip: the line for the proxy is where pip reads it.
LEMMA PipOwn ==
    ASSUME app = "pip", NEW lines \in Seq(FileLine), NEW i \in 1..Len(lines)
    PROVE  i \in Own(lines, KeySet(app)) <=> i \in Places(lines, "proxy")
<1>1. KeySet(app) = {"proxy"}
    BY KeyNames DEF App
<1>q. QED
    BY <1>1, OwnIs, PlacesIs DEF Is

LEMMA INIKeeps ==
    ASSUME app = "pip", NEW file \in {None} \cup FileText, NEW value \in Url
    PROVE  Continues(Foreign(Lines(file), KeySet(app)),
                     Foreign(Lines(EditINI(file, "global", "proxy", value)), KeySet(app)))
<1> DEFINE lines == Lines(file)
           new == EditINI(file, "global", "proxy", value)
           mine == IniEntries(lines, "global", "proxy")
           header == IniHeaders(lines, "global")
<1>0. "proxy" \in Name /\ "global" \in Name
    BY KeyNames DEF App
<1>1. lines \in Seq(FileLine)
    BY LinesType
<1>2. INIEdited(lines, new, "global", "proxy", value, mine, header)
    BY <1>0, EditINIIs, Zenon
<1>3. \A i \in 1..Len(lines) : i \in Places(new, "proxy") <=> i \in Places(lines, "proxy")
    BY PipPlaces
<1>4. \A i \in mine : Is(lines[i], "proxy") /\ i \in InSection(lines, "global")
    BY DEF IniEntries
<1> HIDE DEF lines, new, mine, header
<1>5. /\ new \in FileText /\ Len(lines) <= Len(new)
      /\ \A i \in 1..Len(lines) : i \notin mine => new[i] = lines[i]
    BY <1>2 DEF INIEdited
<1>6. Lines(new) = new /\ new \in Seq(FileLine)
    BY <1>5, LinesType, NoneIsNoText
<1>7. \A i \in 1..Len(lines) : i \in 1..Len(new)
    <2>1. Len(lines) \in Nat /\ Len(new) \in Nat
        BY <1>1, <1>6
    <2>q. QED
        BY <1>5, <2>1
<1>8. \A i \in 1..Len(lines) : i \in Own(lines, KeySet(app)) <=> i \in Own(new, KeySet(app))
    BY <1>1, <1>3, <1>6, <1>7, PipOwn
<1>9. \A i \in (1..Len(lines)) \ Own(lines, KeySet(app)) : new[i] = lines[i]
    BY <1>1, <1>4, <1>5, PipOwn, PlacesIs
<1>10. Continues(Without(lines, Own(lines, KeySet(app))), Without(new, Own(new, KeySet(app))))
    BY <1>1, <1>5, <1>6, <1>8, <1>9, WithoutGrows
<1>11. Foreign(lines, KeySet(app)) = Without(lines, Own(lines, KeySet(app))) /\ Foreign(new, KeySet(app)) = Without(new, Own(new, KeySet(app)))
    BY ForeignIs
<1>q. QED
    BY <1>6, <1>10, <1>11 DEF lines, new

LEMMA RemoveINIKeeps ==
    ASSUME app = "pip", NEW file \in {None} \cup FileText,
           NEW names, names = KeySet(app) \cup Longer
    PROVE  Continues(Foreign(Lines(file), names), Foreign(Lines(RemoveINI(file, "global", "proxy")), names))
<1> DEFINE new == RemoveINI(file, "global", "proxy")
<1>0. Lines(file) \in Seq(FileLine)
    BY LinesType
<1>1. CASE file = None
    <2>1. new = file
        BY <1>1 DEF RemoveINI
    <2>q. QED
        BY <1>0, <2>1, ForeignStays
<1>2. CASE file # None
    <2> DEFINE drop == {i \in InSection(file, "global") :
                         \E name \in {"proxy"} \cup Longer : Is(file[i], name)}
    <2>1. file \in FileText /\ file \in Seq(FileLine) /\ Lines(file) = file
        BY <1>2, LinesType
    <2>2. new = Without(file, drop)
        BY <1>2, Zenon DEF RemoveINI
    <2>3. \A i \in 1..Len(file) : i \in drop => file[i].kind # "header"
        BY DEF Is
    <2>a. InSection(file, "global") \subseteq 1..Len(file)
        BY <2>1 DEF InSection
    <2>4. drop \subseteq Own(file, names)
        <3>1. names = {"proxy"} \cup Longer
            BY KeyNames DEF App
        <3>2. \A i \in drop : /\ i \in 1..Len(file) /\ i \in InSection(file, "global")
                              /\ file[i].kind = "entry" /\ file[i].name \in names
            BY <2>a, <3>1 DEF Is
        <3> HIDE DEF drop
        <3>q. QED
            BY <2>1, <3>2, OwnIs
    <2> HIDE DEF drop, new
    <2>5. Lines(new) = new /\ new \in Seq(FileLine)
        BY <2>1, <2>2, WithoutText, LinesType, NoneIsNoText
    <2>6. \A n \in 1..Len(new) : /\ Nth(Rest(Len(file), drop), n) \in Rest(Len(file), drop)
                                 /\ new[n] = file[Nth(Rest(Len(file), drop), n)]
        BY <2>1, <2>2, WithoutType
    <2>7. \A i \in Rest(Len(file), drop) : i \in 1..Len(file)
        BY DEF Rest
    <2>8. \A n \in 1..Len(new) : n \in InSection(new, "global") <=>
              Nth(Rest(Len(file), drop), n) \in InSection(file, "global")
        BY <2>1, <2>2, <2>3, SectionsKept
    <2>9. \A n \in 1..Len(new) : n \in Own(new, names) <=> Nth(Rest(Len(file), drop), n) \in Own(file, names)
        BY <2>1, <2>5, <2>6, <2>7, <2>8, OwnIs
    <2>b. \A n \in 1..Len(Without(file, drop)) :
              n \in Own(new, names) <=> Nth(Rest(Len(file), drop), n) \in Own(file, names)
        BY <2>2, <2>9, Zenon
    <2>c. Without(Without(file, drop), Own(new, names)) = Without(file, Own(file, names))
        <3> DEFINE all  == Own(file, names)
                   rest == Own(new, names)
        <3>1. /\ drop \subseteq all
              /\ \A n \in 1..Len(Without(file, drop)) :
                    n \in rest <=> Nth(Rest(Len(file), drop), n) \in all
            BY <2>4, <2>b
        <3> HIDE DEF all, rest
        <3>2. Without(Without(file, drop), rest) = Without(file, all)
            BY <2>1, <3>1, WithoutTwice
        <3>q. QED
            BY <3>2 DEF all, rest
    <2>10. Without(new, Own(new, names)) = Without(file, Own(file, names))
        BY <2>2, <2>c, Zenon
    <2>11. Foreign(new, names) = Foreign(file, names)
        BY <2>10, ForeignIs
    <2>q. QED
        BY <2>1, <2>5, <2>11, ForeignStays DEF new
<1>q. QED
    BY <1>1, <1>2

-----------------------------------------------------------------------------
(* What the calls keep.                                                    *)

\* The steps that a call begins with.
Steps(call) == IF call = "write" THEN WriteSteps ELSE ClearSteps

Call == [call : {"none", "write", "clear"}, url : Url \cup {None},
         todo : Seq(KeySet(app) \cup {"all"}), ended : BOOLEAN]

\* A call under way has the last of its steps to do.
CallInv ==
    \A p \in Proc : doing[p] # Idle =>
        /\ doing[p].call \in {"write", "clear"}
        /\ IF doing[p].call = "write" THEN doing[p].url \in Url ELSE doing[p].url = None
        /\ doing[p].todo \in {Steps(doing[p].call), Tail(Steps(doing[p].call))} \ {<<>>}

TypeInv == TypeOK /\ doing \in [Proc -> Call] /\ CallInv

\* Nothing goes on beside a call that was alone.
AloneInv == \A p \in Proc : alone[p] => \A q \in Proc \ {p} : doing[q] = Idle

\* What a call has reached that was alone: the keys of a command that it is
\* through with have its value, for a clear if nothing failed; of the files
\* only wget's takes two edits.
ProgressOf(call, settings, before, unspoilt) ==
    IF app \in Commands
    THEN call.call = "write" \/ unspoilt =>
            \A key \in KeySet(app) :
                settings[key] = call.url \/ \E i \in DOMAIN call.todo : call.todo[i] = key
    ELSE \/ call.todo = Steps(call.call) /\ settings = before
         \/ /\ app = "wget" /\ call.call = "write" /\ call.todo = <<"https_proxy">>
            /\ settings = EditKeyValue(before, "http_proxy", call.url)

Progress(p) == ProgressOf(doing[p], conf, start[p], clean)

WriteDone(settings, before) ==
    WellSpelled(before) /\ WellPlaced(before) =>
        \E url \in Url : \A key \in KeySet(app) : Reads(settings, key) = url

ClearDone(settings, before) ==
    WellSpelled(before) => \A key \in KeySet(app) : Reads(settings, key) = None

Effect(p) ==
    /\ outcome[p] = "write" => WriteDone(conf, start[p])
    /\ outcome[p] = "clear" /\ clean => ClearDone(conf, start[p])

CallKeeps(p) == alone[p] => IF doing[p] = Idle THEN Effect(p) ELSE Progress(p)

AppInv == TypeInv /\ AloneInv /\ \A p \in Proc : CallKeeps(p)

\* The tool stays the same, so that what it reads of new settings is what it
\* would have read of them before.
LEMMA SameTool ==
    ASSUME app' = app, NEW p
    PROVE  /\ WriteDone(conf, start[p])' <=> WriteDone(conf', start'[p])
           /\ ClearDone(conf, start[p])' <=> ClearDone(conf', start'[p])
           /\ Progress(p)' <=> ProgressOf(doing'[p], conf', start'[p], clean')
<1>1. \A key : Reads(conf, key)' = Reads(conf', key)
    BY Zenon DEF Reads
<1>2. WellSpelled(start[p])' <=> WellSpelled(start'[p])
    BY Zenon DEF WellSpelled, Reads
<1>3. WellPlaced(start[p])' <=> WellPlaced(start'[p])
    BY Zenon DEF WellPlaced, Reads
<1>4. Progress(p)' <=> ProgressOf(doing'[p], conf', start'[p], clean')
    BY Zenon DEF Progress, ProgressOf, Steps, WriteSteps, ClearSteps
<1>q. QED
    BY <1>1, <1>2, <1>3, <1>4, Zenon DEF WriteDone, ClearDone

LEMMA KeysAre ==
    ASSUME app \in App
    PROVE  \/ app \in {"curl", "pip"} /\ Keys(app) = <<"proxy">> /\ KeySet(app) = {"proxy"}
           \/ \E a, b : /\ app \in {"wget", "git", "npm"} /\ Keys(app) = <<a, b>> /\ a # b
                        /\ KeySet(app) = {a, b}
                        /\ app = "wget" => a = "http_proxy" /\ b = "https_proxy"
<1>1. \A a : Keys(app) = <<a>> => KeySet(app) = {a}
    BY DEF KeySet
<1>2. \A a, b : Keys(app) = <<a, b>> => KeySet(app) = {a, b}
    BY DEF KeySet
<1>3. CASE app \in {"curl", "pip"}
    <2>1. Keys(app) = <<"proxy">>
        BY <1>3 DEF Keys
    <2>q. QED
        BY <1>1, <1>3, <2>1
<1>4. CASE app = "wget"
    <2>1. Keys(app) = <<"http_proxy", "https_proxy">>
        BY <1>4 DEF Keys
    <2>q. QED
        BY <1>2, <1>4, <2>1
<1>5. CASE app = "git"
    <2>1. Keys(app) = <<"http.proxy", "https.proxy">>
        BY <1>5 DEF Keys
    <2>q. QED
        BY <1>2, <1>5, <2>1
<1>6. CASE app = "npm"
    <2>1. Keys(app) = <<"proxy", "https-proxy">>
        BY <1>6 DEF Keys
    <2>q. QED
        BY <1>2, <1>6, <2>1
<1>q. QED
    BY <1>3, <1>4, <1>5, <1>6 DEF App, Commands

LEMMA StepsAre ==
    ASSUME app \in App, NEW call \in {"write", "clear"}
    PROVE  /\ Steps(call) \in Seq(KeySet(app) \cup {"all"})
           /\ Steps(call) # <<>> /\ Tail(Tail(Steps(call))) = <<>>
           /\ Tail(Steps(call)) \in Seq(KeySet(app) \cup {"all"})
           /\ call = "write" \/ app \in Commands => Steps(call) = Keys(app)
           /\ ~(call = "write" \/ app \in Commands) => Steps(call) = <<"all">>
<1>1. /\ call = "write" \/ app \in Commands => Steps(call) = Keys(app)
      /\ ~(call = "write" \/ app \in Commands) => Steps(call) = <<"all">>
    BY DEF Steps, WriteSteps, ClearSteps
<1>2. \A S, a, b : a \in S /\ b \in S =>
          /\ <<a>> \in Seq(S) /\ <<a>> # <<>> /\ Tail(<<a>>) = <<>> /\ Tail(Tail(<<a>>)) = <<>>
          /\ <<a, b>> \in Seq(S) /\ <<a, b>> # <<>> /\ Tail(<<a, b>>) = <<b>>
          /\ Tail(Tail(<<a, b>>)) = <<>> /\ <<>> \in Seq(S) /\ <<b>> \in Seq(S)
    OBVIOUS
<1>3. /\ Keys(app) \in Seq(KeySet(app) \cup {"all"})
      /\ Keys(app) # <<>> /\ Tail(Tail(Keys(app))) = <<>>
      /\ Tail(Keys(app)) \in Seq(KeySet(app) \cup {"all"})
    <2>1. CASE app \in {"curl", "pip"} /\ Keys(app) = <<"proxy">> /\ KeySet(app) = {"proxy"}
        BY <1>2, <2>1
    <2>2. ASSUME NEW a, NEW b, Keys(app) = <<a, b>>, KeySet(app) = {a, b}
          PROVE  /\ Keys(app) \in Seq(KeySet(app) \cup {"all"})
                 /\ Keys(app) # <<>> /\ Tail(Tail(Keys(app))) = <<>>
                 /\ Tail(Keys(app)) \in Seq(KeySet(app) \cup {"all"})
        <3>1. a \in KeySet(app) \cup {"all"} /\ b \in KeySet(app) \cup {"all"}
            BY <2>2
        <3>q. QED
            BY <1>2, <2>2, <3>1
    <2>q. QED
        BY <2>1, <2>2, KeysAre
<1>4. /\ <<"all">> \in Seq(KeySet(app) \cup {"all"})
      /\ <<"all">> # <<>> /\ Tail(Tail(<<"all">>)) = <<>>
      /\ Tail(<<"all">>) \in Seq(KeySet(app) \cup {"all"})
    BY <1>2
<1>q. QED
    BY <1>1, <1>3, <1>4

LEMMA SettingsAre ==
    ASSUME app \in App
    PROVE  /\ app \in Commands => SettingsOf(app) = [KeySet(app) -> Url \cup {"user", None}]
           /\ app \notin Commands => SettingsOf(app) = {None} \cup FileText
BY Zenon DEF SettingsOf, FileText

LEMMA CallIs ==
    ASSUME TypeInv, NEW p \in Proc, doing[p] # Idle
    PROVE  /\ doing[p] \in Call /\ doing[p].call \in {"write", "clear"} /\ app \in App
           /\ doing[p].url \in Url \cup {None}
           /\ doing[p].call = "write" => doing[p].url \in Url /\ Head(doing[p].todo) \in KeySet(app)
           /\ doing[p].call # "write" => doing[p].url = None
           /\ app \in Commands => Head(doing[p].todo) \in KeySet(app)
           /\ doing[p].todo \in Seq(KeySet(app) \cup {"all"}) /\ doing[p].todo # <<>>
           /\ doing[p].todo \in {Steps(doing[p].call), Tail(Steps(doing[p].call))}
<1>1. /\ doing[p] \in Call /\ doing[p].call \in {"write", "clear"} /\ app \in App
      /\ doing[p].call = "write" => doing[p].url \in Url
      /\ doing[p].call # "write" => doing[p].url = None
      /\ doing[p].todo \in {Steps(doing[p].call), Tail(Steps(doing[p].call))}
      /\ doing[p].todo # <<>>
    <2>1. app \in App /\ doing \in [Proc -> Call]
        BY DEF TypeInv, TypeOK
    <2>q. QED
        BY <2>1 DEF TypeInv, CallInv
<1>2. doing[p].todo \in Seq(KeySet(app) \cup {"all"}) /\ doing[p].url \in Url \cup {None}
    BY <1>1 DEF Call
<1>3. \A S, a, b : /\ Head(<<a>>) = a /\ Tail(<<a>>) = <<>>
                   /\ Head(<<a, b>>) = a /\ Tail(<<a, b>>) = <<b>>
    OBVIOUS
<1>4. ASSUME Steps(doing[p].call) = Keys(app)
      PROVE  Head(doing[p].todo) \in KeySet(app)
    <2>1. doing[p].todo = Keys(app) \/ doing[p].todo = Tail(Keys(app))
        BY <1>1, <1>4
    <2>2. ASSUME Keys(app) = <<"proxy">>, KeySet(app) = {"proxy"}
          PROVE  Head(doing[p].todo) \in KeySet(app)
        BY <1>1, <1>3, <2>1, <2>2
    <2>3. ASSUME NEW a, NEW b, Keys(app) = <<a, b>>, KeySet(app) = {a, b}
          PROVE  Head(doing[p].todo) \in KeySet(app)
        BY <1>3, <2>1, <2>3
    <2>q. QED
        BY <1>1, <2>2, <2>3, KeysAre
<1>5. doing[p].call = "write" \/ app \in Commands => Steps(doing[p].call) = Keys(app)
    BY <1>1, StepsAre
<1>q. QED
    BY <1>1, <1>2, <1>4, <1>5

\* What a step makes of the settings has their type.
LEMMA AppliedType ==
    ASSUME TypeInv, NEW p \in Proc, doing[p] # Idle
    PROVE  Applied(p, Head(doing[p].todo)) \in SettingsOf(app)
<1> DEFINE step == Head(doing[p].todo)
           url == doing[p].url
<1>1. conf \in SettingsOf(app)
    BY DEF TypeInv, TypeOK
<1>2. /\ app \in App /\ url \in Url \cup {None}
      /\ doing[p].call = "write" => url \in Url /\ step \in KeySet(app)
      /\ app \in Commands => step \in KeySet(app)
    BY CallIs
<1>3. CASE app \in Commands
    <2>1. Applied(p, step) = [conf EXCEPT ![step] = url]
        BY <1>3 DEF Applied
    <2>2. SettingsOf(app) = [KeySet(app) -> Url \cup {"user", None}]
        BY <1>2, <1>3, SettingsAre
    <2> HIDE DEF step, url
    <2>q. QED
        BY <1>1, <1>2, <1>3, <2>1, <2>2 DEF step
<1>4. CASE app \notin Commands
    <2>1. SettingsOf(app) = {None} \cup FileText
        BY <1>2, <1>4, SettingsAre
    <2>2. conf \in {None} \cup FileText
        BY <1>1, <2>1
    <2>3. CASE app = "pip" /\ doing[p].call = "write"
        <3>1. Applied(p, step) = EditINI(conf, "global", step, url)
            BY <1>4, <2>3 DEF Applied
        <3>2. "global" \in Name /\ step \in Name /\ url \in Url
            BY <1>2, <2>3, KeyNames
        <3> HIDE DEF step, url
        <3>a. INIEdited(Lines(conf), EditINI(conf, "global", step, url), "global", step, url,
                        IniEntries(Lines(conf), "global", step), IniHeaders(Lines(conf), "global"))
            BY <2>2, <3>2, EditINIIs, Zenon
        <3>3. EditINI(conf, "global", step, url) \in FileText
            BY <3>a DEF INIEdited
        <3>q. QED
            BY <2>1, <3>1, <3>3 DEF step
    <2>4. CASE app = "pip" /\ doing[p].call # "write"
        <3>1. Applied(p, step) = RemoveINI(conf, "global", "proxy")
            BY <1>4, <2>4 DEF Applied
        <3>2. RemoveINI(conf, "global", "proxy") \in {None} \cup FileText
            BY <2>2, WithoutText DEF RemoveINI
        <3>q. QED
            BY <2>1, <3>1, <3>2
    <2>5. CASE app # "pip" /\ doing[p].call = "write"
        <3>1. Applied(p, step) = EditKeyValue(conf, step, url)
            BY <1>4, <2>5 DEF Applied
        <3>2. step \in Name /\ url \in Url
            BY <1>2, <2>5, KeyNames
        <3>3. EditKeyValue(conf, step, url) \in FileText
            BY <2>2, <3>2, EditKeyValueIs
        <3>q. QED
            BY <2>1, <3>1, <3>3
    <2>6. CASE app # "pip" /\ doing[p].call # "write"
        <3>1. Applied(p, step) = RemoveKeys(conf, KeySet(app))
            BY <1>4, <2>6 DEF Applied
        <3>2. RemoveKeys(conf, KeySet(app)) \in {None} \cup FileText
            BY <2>2, WithoutText DEF RemoveKeys
        <3>q. QED
            BY <2>1, <3>1, <3>2
    <2>q. QED
        BY <2>3, <2>4, <2>5, <2>6
<1>q. QED
    BY <1>3, <1>4

\* What a step makes of a file continues its lines that are not for the proxy.
LEMMA AppliedKeeps ==
    ASSUME TypeInv, NEW p \in Proc, doing[p] # Idle, app \notin Commands,
           NEW names, names = IF app = "pip" /\ doing[p].call # "write"
                              THEN KeySet(app) \cup Longer ELSE KeySet(app)
    PROVE  Continues(Foreign(Lines(conf), names),
                     Foreign(Lines(Applied(p, Head(doing[p].todo))), names))
<1> DEFINE step == Head(doing[p].todo)
           url == doing[p].url
<1>1. /\ app \in App
      /\ doing[p].call = "write" => url \in Url /\ step \in KeySet(app)
    BY CallIs
<1>2. conf \in {None} \cup FileText
    BY <1>1, SettingsAre DEF TypeInv, TypeOK
<1>3. CASE app = "pip" /\ doing[p].call = "write"
    <2>1. step = "proxy" /\ url \in Url
        BY <1>1, <1>3, KeyNames
    <2>2. Applied(p, step) = EditINI(conf, "global", "proxy", url)
        BY <1>3, <2>1 DEF Applied
    <2>q. QED
        BY <1>2, <1>3, <2>1, <2>2, INIKeeps
<1>4. CASE app = "pip" /\ doing[p].call # "write"
    <2>1. Applied(p, step) = RemoveINI(conf, "global", "proxy")
        BY <1>4 DEF Applied
    <2>q. QED
        BY <1>2, <1>4, <2>1, RemoveINIKeeps
<1>5. CASE app # "pip" /\ doing[p].call = "write"
    <2>1. Applied(p, step) = EditKeyValue(conf, step, url)
        BY <1>5 DEF Applied
    <2>q. QED
        BY <1>1, <1>2, <1>5, <2>1, KeyValueKeeps
<1>6. CASE app # "pip" /\ doing[p].call # "write"
    <2>1. Applied(p, step) = RemoveKeys(conf, KeySet(app))
        BY <1>6 DEF Applied
    <2>q. QED
        BY <1>2, <1>6, <2>1, RemoveKeysKeeps
<1>q. QED
    BY <1>3, <1>4, <1>5, <1>6

-----------------------------------------------------------------------------
(* Type correctness.                                                       *)

LEMMA IdleIs == Idle \in Call /\ Idle.call = "none"
BY DEF Idle, Call

LEMMA SameSteps ==
    ASSUME app' = app
    PROVE  /\ \A call : Steps(call)' = Steps(call)
           /\ Call' = Call /\ KeySet(app)' = KeySet(app) /\ SettingsOf(app)' = SettingsOf(app)
BY Zenon DEF Steps, WriteSteps, ClearSteps, Call

\* A step ends the call, or takes the step off what the call has left to do.
LEMMA AfterStepIs ==
    ASSUME TypeInv, NEW p \in Proc, doing[p] # Idle, NEW ok \in BOOLEAN, AfterStep(p, ok)
    PROVE  \/ /\ doing' = [doing EXCEPT ![p] = Idle]
              /\ outcome' = [outcome EXCEPT ![p] = IF ok \/ ~(doing[p].call = "write" \/ app \notin Commands)
                                                   THEN doing[p].call ELSE "error"]
              /\ Tail(doing[p].todo) = <<>>
                 \/ (~ok /\ (doing[p].call = "write" \/ app \notin Commands))
           \/ /\ doing' = [doing EXCEPT ![p] = [doing[p] EXCEPT !.todo = Tail(doing[p].todo)]]
              /\ outcome' = outcome /\ Tail(doing[p].todo) # <<>>
              /\ ok \/ ~(doing[p].call = "write" \/ app \notin Commands)
              /\ doing[p].todo = Steps(doing[p].call)
<1>1. /\ doing[p].todo \in {Steps(doing[p].call), Tail(Steps(doing[p].call))}
      /\ doing[p].call \in {"write", "clear"} /\ app \in App
    BY CallIs
<1>2. Tail(Tail(Steps(doing[p].call))) = <<>>
    BY <1>1, StepsAre
<1>3. Tail(doing[p].todo) # <<>> => doing[p].todo = Steps(doing[p].call)
    BY <1>1, <1>2
<1>4. [doing EXCEPT ![p].todo = Tail(doing[p].todo)] =
          [doing EXCEPT ![p] = [doing[p] EXCEPT !.todo = Tail(doing[p].todo)]]
    OBVIOUS
<1> DEFINE left == Tail(doing[p].todo)
           counts == doing[p].call = "write" \/ app \notin Commands
<1>5. IF left = <<>> \/ (~ok /\ counts)
      THEN /\ doing' = [doing EXCEPT ![p] = Idle]
           /\ outcome' = [outcome EXCEPT ![p] = IF ok \/ ~counts THEN doing[p].call ELSE "error"]
      ELSE doing' = [doing EXCEPT ![p].todo = left] /\ UNCHANGED outcome
    BY Zenon DEF AfterStep
<1>6. CASE left = <<>> \/ (~ok /\ counts)
    BY <1>5, <1>6, Zenon
<1>7. CASE ~(left = <<>> \/ (~ok /\ counts))
    <2>1. doing' = [doing EXCEPT ![p].todo = left] /\ outcome' = outcome
        BY <1>5, <1>7
    <2>q. QED
        BY <1>3, <1>4, <1>7, <2>1, Zenon
<1>q. QED
    BY <1>6, <1>7

LEMMA StepType ==
    ASSUME TypeInv, NEW p \in Proc, doing[p] # Idle, NEW ok \in BOOLEAN, AfterStep(p, ok),
           app' = app
    PROVE  /\ (doing \in [Proc -> Call])' /\ CallInv'
           /\ outcome' \in [Proc -> {"none", "write", "clear", "error"}]
           /\ \A q \in Proc \ {p} : doing'[q] = doing[q] /\ outcome'[q] = outcome[q]
           /\ \A q \in Proc : doing'[q] = Idle \/ doing'[q].todo # <<>>
<1>0. /\ doing \in [Proc -> Call] /\ CallInv
      /\ outcome \in [Proc -> {"none", "write", "clear", "error"}]
      /\ \A q \in Proc : doing[q] = Idle \/ doing[q].todo # <<>>
    BY DEF TypeInv, TypeOK
<1>1. /\ doing[p] \in Call /\ doing[p].call \in {"write", "clear"} /\ app \in App
      /\ doing[p].todo \in {Steps(doing[p].call), Tail(Steps(doing[p].call))}
      /\ IF doing[p].call = "write" THEN doing[p].url \in Url ELSE doing[p].url = None
    BY CallIs
<1>2. Tail(Steps(doing[p].call)) \in Seq(KeySet(app) \cup {"all"})
    BY <1>1, StepsAre
<1>3. Call' = Call /\ \A call : Steps(call)' = Steps(call)
    BY SameSteps
<1>4. CASE /\ doing' = [doing EXCEPT ![p] = Idle]
           /\ outcome' = [outcome EXCEPT ![p] = IF ok \/ ~(doing[p].call = "write" \/ app \notin Commands)
                                                THEN doing[p].call ELSE "error"]
    <2>1. doing' \in [Proc -> Call] /\ outcome' \in [Proc -> {"none", "write", "clear", "error"}]
        BY <1>0, <1>1, <1>4, IdleIs
    <2>2. /\ doing'[p] = Idle
          /\ \A q \in Proc \ {p} : doing'[q] = doing[q] /\ outcome'[q] = outcome[q]
        BY <1>0, <1>4
    <2>3. CallInv'
        BY <1>0, <1>3, <2>2, Zenon DEF CallInv
    <2>q. QED
        BY <1>0, <1>3, <2>1, <2>2, <2>3
<1>5. CASE /\ doing' = [doing EXCEPT ![p] = [doing[p] EXCEPT !.todo = Tail(doing[p].todo)]]
           /\ outcome' = outcome /\ Tail(doing[p].todo) # <<>>
           /\ doing[p].todo = Steps(doing[p].call)
    <2> DEFINE rec == [doing[p] EXCEPT !.todo = Tail(doing[p].todo)]
    <2>1. /\ rec \in Call /\ rec.call = doing[p].call /\ rec.url = doing[p].url
          /\ rec.todo = Tail(Steps(doing[p].call)) /\ rec.todo # <<>>
        BY <1>1, <1>2, <1>5 DEF Call
    <2>2. doing' = [doing EXCEPT ![p] = rec]
        BY <1>5
    <2> HIDE DEF rec
    <2>3. doing' \in [Proc -> Call] /\ outcome' \in [Proc -> {"none", "write", "clear", "error"}]
        BY <1>0, <1>5, <2>1, <2>2
    <2>4. /\ doing'[p] = rec
          /\ \A q \in Proc \ {p} : doing'[q] = doing[q] /\ outcome'[q] = outcome[q]
        BY <1>0, <1>5, <2>2
    <2>5. /\ doing'[p].call \in {"write", "clear"}
          /\ IF doing'[p].call = "write" THEN doing'[p].url \in Url ELSE doing'[p].url = None
          /\ doing'[p].todo \in {Steps(doing'[p].call), Tail(Steps(doing'[p].call))} \ {<<>>}
        BY <1>1, <2>1, <2>4
    <2>6. ASSUME NEW q \in Proc, doing'[q] # Idle
          PROVE  /\ doing'[q].call \in {"write", "clear"}
                 /\ IF doing'[q].call = "write" THEN doing'[q].url \in Url ELSE doing'[q].url = None
                 /\ doing'[q].todo \in {Steps(doing'[q].call), Tail(Steps(doing'[q].call))} \ {<<>>}
        <3>1. CASE q = p
            BY <2>5, <3>1
        <3>2. CASE q # p
            <4>1. doing'[q] = doing[q]
                BY <2>4, <3>2
            <4>q. QED
                BY <1>0, <2>6, <4>1 DEF CallInv
        <3>q. QED
            BY <3>1, <3>2
    <2>7. CallInv'
        BY <1>3, <2>6, Zenon DEF CallInv
    <2>q. QED
        BY <1>0, <1>3, <2>1, <2>3, <2>4, <2>7
<1>q. QED
    BY <1>4, <1>5, AfterStepIs

LEMMA TypeInit == Init => TypeInv
<1> SUFFICES ASSUME Init PROVE TypeInv
    OBVIOUS
<1>1. PICK pair \in Initial : app = pair.app /\ conf = pair.conf
    BY DEF Init
<1>2. app \in App /\ conf \in SettingsOf(app)
    BY <1>1, AppAssumption
<1>3. /\ doing = [p \in Proc |-> Idle] /\ outcome = [p \in Proc |-> "none"]
      /\ start = [p \in Proc |-> conf] /\ alone = [p \in Proc |-> TRUE] /\ clean = TRUE
      /\ ops = 0 /\ faults = 0
    BY DEF Init
<1>4. doing \in [Proc -> Call] /\ \A p \in Proc : doing[p] = Idle
    BY <1>3, IdleIs
<1>5. CallInv
    BY <1>4 DEF CallInv
<1>6. /\ start \in [Proc -> SettingsOf(app)] /\ alone \in [Proc -> BOOLEAN] /\ clean \in BOOLEAN
      /\ outcome \in [Proc -> {"none", "write", "clear", "error"}]
    BY <1>2, <1>3
<1>7. ops \in 0..MaxOps /\ faults \in 0..MaxFaults
    BY <1>3, AppAssumption
<1>q. QED
    BY <1>2, <1>4, <1>5, <1>6, <1>7 DEF TypeInv, TypeOK

LEMMA StartIs ==
    ASSUME TypeInv, NEW p \in Proc, NEW call \in {"write", "clear"}, NEW url \in Url \cup {None},
           call = "write" => url \in Url, call # "write" => url = None, Start(p, call, url)
    PROVE  /\ TypeInv' /\ doing'[p].call = call /\ doing'[p].url = url
           /\ doing'[p].todo = Steps(call) /\ doing'[p] # Idle
           /\ \A q \in Proc \ {p} : doing'[q] = doing[q]
<1>0. /\ doing \in [Proc -> Call] /\ CallInv /\ app \in App /\ conf \in SettingsOf(app)
      /\ start \in [Proc -> SettingsOf(app)] /\ alone \in [Proc -> BOOLEAN] /\ clean \in BOOLEAN
      /\ \A q \in Proc : doing[q] = Idle \/ doing[q].todo # <<>>
      /\ outcome \in [Proc -> {"none", "write", "clear", "error"}]
      /\ ops \in 0..MaxOps /\ faults \in 0..MaxFaults
    BY DEF TypeInv, TypeOK
<1> DEFINE rec == [call |-> call, url |-> url, ended |-> FALSE, todo |-> Steps(call)]
<1>1. /\ doing' = [doing EXCEPT ![p] = rec] /\ app' = app /\ conf' = conf /\ outcome' = outcome
      /\ start' = [start EXCEPT ![p] = conf] /\ faults' = faults
      /\ alone' = [q \in Proc |-> IF q = p THEN Busy = {} ELSE FALSE]
      /\ clean' = (clean /\ Busy = {})
    BY Zenon DEF Start, Steps
<1>a. ops < MaxOps /\ ops' = ops + 1
    BY DEF Start
<1>2. /\ rec \in Call /\ rec.call = call /\ rec.url = url /\ rec.todo = Steps(call)
      /\ Steps(call) # <<>> /\ rec # Idle
    <2>1. Steps(call) \in Seq(KeySet(app) \cup {"all"}) /\ Steps(call) # <<>>
        BY <1>0, StepsAre
    <2>q. QED
        BY <2>1, IdleIs DEF Call
<1> HIDE DEF rec
<1>3. Call' = Call /\ SettingsOf(app)' = SettingsOf(app) /\ \A c : Steps(c)' = Steps(c)
    BY <1>1, SameSteps
<1>4. /\ doing' \in [Proc -> Call] /\ doing'[p] = rec
      /\ \A q \in Proc \ {p} : doing'[q] = doing[q]
    BY <1>0, <1>1, <1>2
<1>5. ASSUME NEW q \in Proc, doing'[q] # Idle
      PROVE  /\ doing'[q].call \in {"write", "clear"}
             /\ IF doing'[q].call = "write" THEN doing'[q].url \in Url ELSE doing'[q].url = None
             /\ doing'[q].todo \in {Steps(doing'[q].call), Tail(Steps(doing'[q].call))} \ {<<>>}
    <2>1. CASE q = p
        BY <1>2, <1>4, <2>1
    <2>2. CASE q # p
        <3>1. doing'[q] = doing[q]
            BY <1>4, <2>2
        <3>q. QED
            BY <1>0, <1>5, <3>1 DEF CallInv
    <2>q. QED
        BY <2>1, <2>2
<1>6. CallInv'
    BY <1>3, <1>5, Zenon DEF CallInv
<1>7. \A q \in Proc : doing'[q] = Idle \/ doing'[q].todo # <<>>
    BY <1>5
<1>8. start' \in [Proc -> SettingsOf(app)] /\ clean' \in BOOLEAN
    BY <1>0, <1>1
<1>b. alone' \in [Proc -> BOOLEAN]
    BY <1>1
<1>9. ops' \in 0..MaxOps
    BY <1>0, <1>a, AppAssumption
<1>10. /\ app' \in App /\ conf' \in SettingsOf(app)' /\ start' \in [Proc -> SettingsOf(app)']
       /\ outcome' \in [Proc -> {"none", "write", "clear", "error"}] /\ faults' \in 0..MaxFaults
       /\ doing' \in [Proc -> Call']
    BY <1>0, <1>1, <1>3, <1>4, <1>8
<1>11. TypeInv'
    BY <1>6, <1>7, <1>8, <1>9, <1>10, <1>b, Zenon DEF TypeInv, TypeOK
<1>q. QED
    BY <1>2, <1>4, <1>11

\* A step of a call that works, and one that fails.
LEMMA WorksType ==
    ASSUME TypeInv, NEW p \in Proc, StepWorks(p) PROVE TypeInv'
<1>0. /\ app \in App /\ start \in [Proc -> SettingsOf(app)]
      /\ alone \in [Proc -> BOOLEAN] /\ clean \in BOOLEAN
      /\ ops \in 0..MaxOps /\ faults \in 0..MaxFaults
    BY DEF TypeInv, TypeOK
<1>1. /\ doing[p] # Idle /\ AfterStep(p, TRUE) /\ conf' = Applied(p, Head(doing[p].todo))
      /\ app' = app /\ start' = start /\ alone' = alone /\ clean' = clean
      /\ ops' = ops /\ faults' = faults
    BY DEF StepWorks
<1>2. /\ (doing \in [Proc -> Call])' /\ CallInv'
      /\ outcome' \in [Proc -> {"none", "write", "clear", "error"}]
      /\ \A q \in Proc : doing'[q] = Idle \/ doing'[q].todo # <<>>
    BY <1>1, StepType
<1>3. conf' \in SettingsOf(app) /\ SettingsOf(app)' = SettingsOf(app)
    BY <1>1, AppliedType, SameSteps
<1>q. QED
    BY <1>0, <1>1, <1>2, <1>3, Zenon DEF TypeInv, TypeOK

LEMMA FailsType ==
    ASSUME TypeInv, NEW p \in Proc, StepFails(p) PROVE TypeInv'
<1>0. /\ app \in App /\ start \in [Proc -> SettingsOf(app)] /\ conf \in SettingsOf(app)
      /\ alone \in [Proc -> BOOLEAN] /\ ops \in 0..MaxOps /\ faults \in 0..MaxFaults
    BY DEF TypeInv, TypeOK
<1>1. /\ doing[p] # Idle /\ AfterStep(p, FALSE)
      /\ conf' = conf \/ conf' = Applied(p, Head(doing[p].todo))
      /\ app' = app /\ start' = start /\ alone' = alone /\ clean' = FALSE /\ ops' = ops
    BY DEF StepFails
<1>2. /\ (doing \in [Proc -> Call])' /\ CallInv'
      /\ outcome' \in [Proc -> {"none", "write", "clear", "error"}]
      /\ \A q \in Proc : doing'[q] = Idle \/ doing'[q].todo # <<>>
    BY <1>1, StepType
<1>3. conf' \in SettingsOf(app) /\ SettingsOf(app)' = SettingsOf(app)
    BY <1>0, <1>1, AppliedType, SameSteps
<1>4. faults' \in 0..MaxFaults
    <2>1. faults' = faults \/ (faults < MaxFaults /\ faults' = faults + 1)
        BY DEF StepFails
    <2>q. QED
        BY <1>0, <2>1, AppAssumption
<1>5. clean' \in BOOLEAN
    BY <1>1
<1>q. QED
    BY <1>0, <1>1, <1>2, <1>3, <1>4, <1>5, Zenon DEF TypeInv, TypeOK

\* The context of a call ends.
LEMMA CancelIs ==
    ASSUME TypeInv, NEW p \in Proc, Cancel(p)
    PROVE  /\ TypeInv' /\ doing'[p].call = doing[p].call /\ doing'[p].url = doing[p].url
           /\ doing'[p].todo = doing[p].todo /\ doing'[p] # Idle
           /\ \A q \in Proc \ {p} : doing'[q] = doing[q]
<1>0. /\ doing \in [Proc -> Call] /\ CallInv /\ app \in App /\ conf \in SettingsOf(app)
      /\ start \in [Proc -> SettingsOf(app)] /\ alone \in [Proc -> BOOLEAN] /\ clean \in BOOLEAN
      /\ \A q \in Proc : doing[q] = Idle \/ doing[q].todo # <<>>
      /\ outcome \in [Proc -> {"none", "write", "clear", "error"}]
      /\ ops \in 0..MaxOps /\ faults \in 0..MaxFaults
    BY DEF TypeInv, TypeOK
<1> DEFINE rec == [doing[p] EXCEPT !.ended = TRUE]
<1>1. /\ doing' = [doing EXCEPT ![p] = rec] /\ app' = app /\ conf' = conf /\ outcome' = outcome
      /\ start' = start /\ alone' = alone /\ clean' = clean /\ ops' = ops
      /\ doing[p] # Idle
    BY DEF Cancel
<1>a. faults < MaxFaults /\ faults' = faults + 1
    BY DEF Cancel
<1>b. doing[p] \in Call /\ doing[p].call \in {"write", "clear"} /\ doing[p].todo # <<>>
    BY <1>1, CallIs
<1>2. /\ rec \in Call /\ rec.call = doing[p].call /\ rec.url = doing[p].url
      /\ rec.todo = doing[p].todo
    BY <1>b DEF Call
<1>c. rec # Idle
    BY <1>b, <1>2, IdleIs
<1> HIDE DEF rec
<1>3. Call' = Call /\ SettingsOf(app)' = SettingsOf(app) /\ \A c : Steps(c)' = Steps(c)
    BY <1>1, SameSteps
<1>4. /\ doing' \in [Proc -> Call] /\ doing'[p] = rec
      /\ \A q \in Proc \ {p} : doing'[q] = doing[q]
    BY <1>0, <1>1, <1>2
<1>5. ASSUME NEW q \in Proc, doing'[q] # Idle
      PROVE  /\ doing'[q].call \in {"write", "clear"}
             /\ IF doing'[q].call = "write" THEN doing'[q].url \in Url ELSE doing'[q].url = None
             /\ doing'[q].todo \in {Steps(doing'[q].call), Tail(Steps(doing'[q].call))} \ {<<>>}
    <2>1. /\ doing[q] # Idle /\ doing'[q].call = doing[q].call /\ doing'[q].url = doing[q].url
          /\ doing'[q].todo = doing[q].todo
        BY <1>1, <1>2, <1>4, <1>5
    <2>q. QED
        BY <1>0, <2>1 DEF CallInv
<1>6. CallInv'
    BY <1>3, <1>5, Zenon DEF CallInv
<1>7. \A q \in Proc : doing'[q] = Idle \/ doing'[q].todo # <<>>
    BY <1>5
<1>9. faults' \in 0..MaxFaults
    BY <1>0, <1>a, AppAssumption
<1>10. /\ app' \in App /\ conf' \in SettingsOf(app)' /\ start' \in [Proc -> SettingsOf(app)']
       /\ outcome' \in [Proc -> {"none", "write", "clear", "error"}] /\ ops' \in 0..MaxOps
       /\ doing' \in [Proc -> Call'] /\ alone' \in [Proc -> BOOLEAN] /\ clean' \in BOOLEAN
    BY <1>0, <1>1, <1>3, <1>4
<1>11. TypeInv'
    BY <1>6, <1>7, <1>9, <1>10, Zenon DEF TypeInv, TypeOK
<1>q. QED
    BY <1>2, <1>4, <1>11, <1>c

LEMMA RefuseIs ==
    ASSUME TypeInv, NEW p \in Proc, Refuse(p)
    PROVE  /\ TypeInv' /\ outcome'[p] = "error"
           /\ \A q \in Proc \ {p} : outcome'[q] = outcome[q]
           /\ app' = app /\ conf' = conf /\ doing' = doing /\ start' = start /\ alone' = alone
           /\ clean' = clean
<1>0. /\ doing \in [Proc -> Call] /\ CallInv /\ app \in App /\ conf \in SettingsOf(app)
      /\ start \in [Proc -> SettingsOf(app)] /\ alone \in [Proc -> BOOLEAN] /\ clean \in BOOLEAN
      /\ \A q \in Proc : doing[q] = Idle \/ doing[q].todo # <<>>
      /\ outcome \in [Proc -> {"none", "write", "clear", "error"}]
      /\ ops \in 0..MaxOps /\ faults \in 0..MaxFaults
    BY DEF TypeInv, TypeOK
<1>1. /\ app' = app /\ conf' = conf /\ doing' = doing /\ start' = start /\ alone' = alone
      /\ clean' = clean /\ faults' = faults
      /\ outcome' = [outcome EXCEPT ![p] = "error"] /\ ops < MaxOps /\ ops' = ops + 1
    BY DEF Refuse
<1>2. /\ outcome' \in [Proc -> {"none", "write", "clear", "error"}] /\ outcome'[p] = "error"
      /\ \A q \in Proc \ {p} : outcome'[q] = outcome[q]
    BY <1>0, <1>1
<1>3. ops' \in 0..MaxOps
    BY <1>0, <1>1, AppAssumption
<1>4. Call' = Call /\ SettingsOf(app)' = SettingsOf(app) /\ \A c : Steps(c)' = Steps(c)
    BY <1>1, SameSteps
<1>5. CallInv'
    BY <1>0, <1>1, <1>4, Zenon DEF CallInv
<1>6. TypeInv'
    BY <1>0, <1>1, <1>2, <1>3, <1>4, <1>5, Zenon DEF TypeInv, TypeOK
<1>q. QED
    BY <1>1, <1>2, <1>6

LEMMA TypeNext == TypeInv /\ [Next]_vars => TypeInv'
<1> SUFFICES ASSUME TypeInv, [Next]_vars PROVE TypeInv'
    OBVIOUS
<1>1. ASSUME NEW p \in Proc, NEW url \in Url, Start(p, "write", url) PROVE TypeInv'
    BY <1>1, StartIs
<1>2. ASSUME NEW p \in Proc, Start(p, "clear", None) PROVE TypeInv'
    BY <1>2, StartIs
<1>3. ASSUME NEW p \in Proc, Refuse(p) PROVE TypeInv'
    BY <1>3, RefuseIs
<1>4. ASSUME NEW p \in Proc, StepWorks(p) PROVE TypeInv'
    BY <1>4, WorksType
<1>5. ASSUME NEW p \in Proc, StepFails(p) PROVE TypeInv'
    BY <1>5, FailsType
<1>6. ASSUME NEW p \in Proc, Cancel(p) PROVE TypeInv'
    BY <1>6, CancelIs
<1>7. CASE UNCHANGED vars
    <2>1. /\ app' = app /\ conf' = conf /\ doing' = doing /\ outcome' = outcome /\ start' = start
          /\ alone' = alone /\ clean' = clean /\ ops' = ops /\ faults' = faults
        BY <1>7 DEF vars
    <2>2. Call' = Call /\ SettingsOf(app)' = SettingsOf(app) /\ \A c : Steps(c)' = Steps(c)
        BY <2>1, SameSteps
    <2>3. CallInv'
        BY <2>1, <2>2, Zenon DEF TypeInv, CallInv
    <2>q. QED
        BY <2>1, <2>2, <2>3, Zenon DEF TypeInv, TypeOK
<1>q. QED
    BY <1>1, <1>2, <1>3, <1>4, <1>5, <1>6, <1>7, Zenon DEF Next

LEMMA TypesAlways == Spec => []TypeInv
BY TypeInit, TypeNext, PTL DEF Spec

\* Type correctness of the model: the settings are a value for each key or a
\* file that the tool could hold, whatever calls overlap and fail, and a call
\* under way has a step to do.
THEOREM SettingsTyped == Spec => []TypeOK
<1>1. TypeInv => TypeOK
    BY DEF TypeInv
<1>q. QED
    BY <1>1, TypesAlways, PTL

-----------------------------------------------------------------------------
(* Lines for other things are kept.                                        *)

\* A step that works is one of a clear if its call is.
LEMMA WhoClears ==
    ASSUME TypeInv, NEW p \in Proc, StepWorks(p)
    PROVE  Clears <=> doing[p].call # "write"
<1>1. doing[p] # Idle /\ AfterStep(p, TRUE) /\ app' = app
    BY DEF StepWorks
<1>2. doing \in [Proc -> Call] /\ doing[p].call \in {"write", "clear"} /\ doing[p] \in Call
    BY <1>1, CallIs DEF TypeInv
<1>3. \A q \in Proc \ {p} : doing'[q] = doing[q]
    BY <1>1, <1>2, StepType
<1>4. doing'[p] # doing[p]
    <2>1. doing[p].todo \in Seq(KeySet(app) \cup {"all"}) /\ doing[p].todo # <<>>
        BY <1>1, CallIs
    <2>2. Tail(doing[p].todo) # doing[p].todo
        <3> DEFINE todo == doing[p].todo
        <3>1. Len(todo) \in Nat \ {0} /\ Len(Tail(todo)) = Len(todo) - 1
            BY <2>1
        <3>2. ASSUME NEW n \in Nat \ {0}, NEW m, m = n - 1 PROVE m # n
            BY <3>2
        <3> HIDE DEF todo
        <3>3. Len(Tail(todo)) # Len(todo)
            BY <3>1, <3>2, Zenon
        <3>q. QED
            BY <3>3, Zenon DEF todo
    <2>3. CASE doing' = [doing EXCEPT ![p] = Idle]
        BY <1>1, <1>2, <2>3
    <2>4. CASE doing' = [doing EXCEPT ![p] = [doing[p] EXCEPT !.todo = Tail(doing[p].todo)]]
        <3>1. doing'[p] = [doing[p] EXCEPT !.todo = Tail(doing[p].todo)]
            BY <1>2, <2>4
        <3>2. doing'[p].todo = Tail(doing[p].todo)
            BY <1>2, <3>1 DEF Call
        <3>q. QED
            BY <2>2, <3>2
    <2>q. QED
        BY <1>1, <1>2, <2>3, <2>4, AfterStepIs
<1>q. QED
    BY <1>2, <1>3, <1>4 DEF Clears

\* Lines of a file that are not for the proxy are kept as they are and in
\* their order, by every step of every call, however calls overlap and fail;
\* but for the options of [global] that a clear for pip takes for its own.
THEOREM OtherLines_Stay == Spec => OthersKept
<1> DEFINE names == IF app = "pip" /\ Clears THEN KeySet(app) \cup Longer ELSE KeySet(app)
<1>1. ASSUME TypeInv, [Next]_vars, app \notin Commands, ~UNCHANGED vars
      PROVE  Continues(Foreign(Lines(conf), names), Foreign(Lines(conf)', names))
    <2>1. Lines(conf) \in Seq(FileLine) /\ Lines(conf)' = Lines(conf')
        BY <1>1, SettingsAre, LinesType DEF TypeInv, TypeOK, Lines
    <2>2. CASE conf' = conf
        BY <2>1, <2>2, ForeignStays
    <2>3. ASSUME NEW p \in Proc, StepWorks(p)
          PROVE  Continues(Foreign(Lines(conf), names), Foreign(Lines(conf)', names))
        <3>1. doing[p] # Idle /\ conf' = Applied(p, Head(doing[p].todo))
            BY <2>3 DEF StepWorks
        <3>2. names = IF app = "pip" /\ doing[p].call # "write"
                      THEN KeySet(app) \cup Longer ELSE KeySet(app)
            BY <1>1, <2>3, WhoClears
        <3> HIDE DEF names
        <3>q. QED
            BY <1>1, <2>1, <3>1, <3>2, AppliedKeeps
    <2>4. ASSUME NEW p \in Proc, StepFails(p) PROVE conf' = conf
        BY <1>1, <2>4 DEF StepFails
    <2>5. ASSUME NEW p \in Proc, Cancel(p) PROVE conf' = conf
        BY <2>5 DEF Cancel
    <2>6. ASSUME NEW p \in Proc, Refuse(p) PROVE conf' = conf
        BY <2>6 DEF Refuse
    <2>7. ASSUME NEW p \in Proc, NEW call, NEW url, Start(p, call, url) PROVE conf' = conf
        BY <2>7 DEF Start
    <2> HIDE DEF names
    <2>q. QED
        BY <1>1, <2>2, <2>3, <2>4, <2>5, <2>6, <2>7, Zenon DEF Next
<1>2. ASSUME TypeInv, [Next]_vars, app \notin Commands, ~UNCHANGED vars PROVE Kept(names)
    BY <1>1, <1>2, Zenon DEF Kept, Continues
<1>q. QED
    BY <1>2, TypesAlways, PTL DEF Spec, OthersKept

-----------------------------------------------------------------------------
(* Calls take effect.                                                      *)

\* The last edit of a file: what the call promises holds of what it makes.
LEMMA LastEditWrites ==
    ASSUME TypeInv, NEW p \in Proc, doing[p] # Idle, app \notin Commands, Progress(p),
           doing[p].call = "write", Tail(doing[p].todo) = <<>>
    PROVE  WriteDone(Applied(p, Head(doing[p].todo)), start[p])
<1> DEFINE url == doing[p].url
           new == Applied(p, Head(doing[p].todo))
<1>1. app \in App /\ url \in Url
    BY CallIs
<1>2. start[p] \in {None} \cup FileText
    BY <1>1, SettingsAre DEF TypeInv, TypeOK
<1>3. Steps("write") = Keys(app)
    BY <1>1, StepsAre
<1>4. \/ doing[p].todo = Keys(app) /\ conf = start[p]
      \/ /\ app = "wget" /\ doing[p].todo = <<"https_proxy">>
         /\ conf = EditKeyValue(start[p], "http_proxy", url)
    BY <1>3 DEF Progress, ProgressOf
<1>5. \A a, b : Head(<<a>>) = a /\ Head(<<a, b>>) = a /\ Tail(<<a, b>>) = <<b>> /\ <<b>> # <<>>
    OBVIOUS
<1>6. SUFFICES ASSUME WellSpelled(start[p]), WellPlaced(start[p])
               PROVE  \A key \in KeySet(app) : Reads(new, key) = url
    BY <1>1 DEF WriteDone
<1>7. Exact(Lines(start[p]))
    <2>1. Lines(start[p]) \in Seq(FileLine)
        BY <1>2, LinesType
    <2>q. QED
        BY <1>6, <2>1 DEF WellSpelled, Exact
<1>8. KeySet(app) \subseteq Name
    BY <1>1, KeyNames
<1>9. CASE app = "curl"
    <2>1. Keys(app) = <<"proxy">> /\ KeySet(app) = {"proxy"}
        BY <1>1, <1>9, KeysAre
    <2>2. Head(doing[p].todo) = "proxy" /\ conf = start[p]
        BY <1>4, <1>5, <1>9, <2>1
    <2>3. new = EditKeyValue(start[p], "proxy", url)
        BY <1>9, <2>2 DEF Applied, Commands
    <2> HIDE DEF new, url
    <2>4. Reads(EditKeyValue(start[p], "proxy", url), "proxy") = url
        BY <1>1, <1>2, <1>7, <1>8, <1>9, <2>1, KeyValueIsRead
    <2>q. QED
        BY <2>1, <2>3, <2>4
<1>10. CASE app = "pip"
    <2>1. Keys(app) = <<"proxy">> /\ KeySet(app) = {"proxy"}
        BY <1>1, <1>10, KeysAre
    <2>2. Head(doing[p].todo) = "proxy" /\ conf = start[p]
        BY <1>4, <1>5, <1>10, <2>1
    <2>3. new = EditINI(start[p], "global", "proxy", url)
        BY <1>10, <2>2 DEF Applied, Commands
    <2> HIDE DEF new, url
    <2>4. Reads(EditINI(start[p], "global", "proxy", url), "proxy") = url
        BY <1>1, <1>2, <1>6, <1>10, PipIsRead
    <2>q. QED
        BY <2>1, <2>3, <2>4
<1>11. CASE app = "wget"
    <2> DEFINE first == EditKeyValue(start[p], "http_proxy", url)
    <2>1. Keys(app) = <<"http_proxy", "https_proxy">> /\ KeySet(app) = {"http_proxy", "https_proxy"}
        BY <1>1, <1>11, KeysAre
    <2>2. Head(doing[p].todo) = "https_proxy" /\ conf = first
        BY <1>4, <1>5, <2>1
    <2>3. new = EditKeyValue(first, "https_proxy", url)
        BY <1>11, <2>2 DEF Applied, Commands
    <2>4. "http_proxy" \in Name /\ "https_proxy" \in Name \ {"http_proxy"}
        BY <1>8, <2>1
    <2> HIDE DEF new, url
    <2>5. Reads(first, "http_proxy") = url /\ Exact(Lines(first))
        BY <1>1, <1>2, <1>7, <1>11, <2>4, KeyValueIsRead
    <2>6. first \in FileText
        BY <1>1, <1>2, <2>4, EditKeyValueIs
    <2> HIDE DEF first
    <2>7. /\ Reads(EditKeyValue(first, "https_proxy", url), "https_proxy") = url
          /\ Reads(EditKeyValue(first, "https_proxy", url), "http_proxy") = Reads(first, "http_proxy")
        <3>1. "https_proxy" \in Name /\ "http_proxy" \in Name \ {"https_proxy"}
            BY <2>4
        <3>q. QED
            BY <1>1, <1>11, <2>5, <2>6, <3>1, KeyValueIsRead
    <2>q. QED
        BY <2>1, <2>3, <2>5, <2>7
<1>q. QED
    BY <1>1, <1>9, <1>10, <1>11 DEF App, Commands

LEMMA LastEditClears ==
    ASSUME TypeInv, NEW p \in Proc, doing[p] # Idle, app \notin Commands, Progress(p),
           doing[p].call # "write"
    PROVE  /\ ClearDone(Applied(p, Head(doing[p].todo)), start[p])
           /\ Tail(doing[p].todo) = <<>>
<1> DEFINE new == Applied(p, Head(doing[p].todo))
<1>1. app \in App /\ doing[p].call = "clear"
    BY CallIs
<1>2. start[p] \in {None} \cup FileText
    BY <1>1, SettingsAre DEF TypeInv, TypeOK
<1>3. Steps("clear") = <<"all">>
    BY <1>1, StepsAre
<1>4. doing[p].todo = <<"all">> /\ conf = start[p]
    BY <1>1, <1>3 DEF Progress, ProgressOf
<1>5. Tail(doing[p].todo) = <<>>
    BY <1>4
<1>6. ASSUME WellSpelled(start[p]), NEW key \in KeySet(app) PROVE Reads(new, key) = None
    <2>1. Exact(Lines(start[p]))
        <3>1. Lines(start[p]) \in Seq(FileLine)
            BY <1>2, LinesType
        <3>q. QED
            BY <1>6, <3>1 DEF WellSpelled, Exact
    <2>2. CASE app = "pip"
        <3>1. new = RemoveINI(start[p], "global", "proxy")
            BY <1>1, <1>4, <2>2 DEF Applied
        <3>2. key = "proxy"
            BY <1>1, <2>2, KeyNames
        <3>q. QED
            BY <1>2, <2>2, <3>1, <3>2, PipReadsNothing
    <2>3. CASE app # "pip"
        <3>1. new = RemoveKeys(start[p], KeySet(app))
            BY <1>1, <1>4, <2>3 DEF Applied
        <3> HIDE DEF new
        <3>q. QED
            BY <1>2, <2>1, <2>3, <3>1, RemovedKeysAreNotRead
    <2>q. QED
        BY <2>2, <2>3
<1>q. QED
    BY <1>5, <1>6 DEF ClearDone

\* Only wget's file takes another edit.
LEMMA OneMoreEdit ==
    ASSUME TypeInv, NEW p \in Proc, doing[p] # Idle, app \notin Commands, Progress(p),
           Tail(doing[p].todo) # <<>>
    PROVE  /\ app = "wget" /\ doing[p].call = "write"
           /\ Tail(doing[p].todo) = <<"https_proxy">>
           /\ Applied(p, Head(doing[p].todo)) = EditKeyValue(start[p], "http_proxy", doing[p].url)
<1>1. app \in App /\ doing[p].call = "write"
    BY CallIs, LastEditClears
<1>2. Steps("write") = Keys(app)
    BY <1>1, StepsAre
<1>3. \A a, b : /\ Head(<<a, b>>) = a /\ Tail(<<a, b>>) = <<b>> /\ Tail(<<a>>) = <<>>
    OBVIOUS
<1>4. doing[p].todo = Keys(app) /\ conf = start[p]
    BY <1>1, <1>2, <1>3 DEF Progress, ProgressOf
<1>5. app = "wget" /\ Keys(app) = <<"http_proxy", "https_proxy">>
    BY <1>1, <1>3, <1>4, KeysAre DEF Commands
<1>6. Head(doing[p].todo) = "http_proxy" /\ Tail(doing[p].todo) = <<"https_proxy">>
    BY <1>3, <1>4, <1>5
<1>7. Applied(p, "http_proxy") = EditKeyValue(start[p], "http_proxy", doing[p].url)
    BY <1>1, <1>4, <1>5 DEF Applied, Commands
<1>q. QED
    BY <1>1, <1>5, <1>6, <1>7

\* A command gives its key the value of the call.
LEMMA CommandSets ==
    ASSUME TypeInv, NEW p \in Proc, doing[p] # Idle, app \in Commands, Progress(p),
           doing[p].call = "write" \/ clean, NEW new, new = Applied(p, Head(doing[p].todo)),
           NEW key \in KeySet(app)
    PROVE  \/ new[key] = doing[p].url
           \/ \E i \in DOMAIN Tail(doing[p].todo) : Tail(doing[p].todo)[i] = key
<1> DEFINE todo == doing[p].todo
           step == Head(todo)
           url == doing[p].url
           S == KeySet(app) \cup {"all"}
<1>1. step \in KeySet(app) /\ todo \in Seq(S) /\ todo # <<>> /\ app \in App
    BY CallIs
<1>2. conf \in [KeySet(app) -> Url \cup {"user", None}]
    BY <1>1, SettingsAre DEF TypeInv, TypeOK
<1>3. new = [conf EXCEPT ![step] = url]
    BY DEF Applied
<1>4. conf[key] = url \/ \E i \in DOMAIN todo : todo[i] = key
    BY DEF Progress, ProgressOf
<1> HIDE DEF url
<1>5. step = todo[1]
    OBVIOUS
<1> HIDE DEF step, todo, S
<1>6. CASE key = step
    BY <1>1, <1>2, <1>3, <1>6 DEF url
<1>7. CASE key # step /\ conf[key] = url
    <2>1. new[key] = url
        BY <1>1, <1>2, <1>3, <1>7
    <2>q. QED
        BY <2>1 DEF url
<1>8. CASE key # step /\ \E i \in DOMAIN todo : todo[i] = key
    <2>1. PICK i \in DOMAIN todo : todo[i] = key
        BY <1>8
    <2>2. i \in 1..Len(todo) /\ Len(todo) \in Nat /\ i # 1
        BY <1>1, <1>5, <1>8, <2>1
    <2>3. i - 1 \in 1..Len(Tail(todo)) /\ Tail(todo)[i - 1] = key
        BY <1>1, <2>1, <2>2
    <2>4. Tail(todo) \in Seq(S)
        BY <1>1
    <2>5. i - 1 \in DOMAIN Tail(todo)
        BY <2>3, <2>4
    <2>q. QED
        BY <2>3, <2>5 DEF todo
<1>q. QED
    BY <1>4, <1>6, <1>7, <1>8

LEMMA LastCommand ==
    ASSUME TypeInv, NEW p \in Proc, doing[p] # Idle, app \in Commands, Progress(p),
           Tail(doing[p].todo) = <<>>, NEW new, new = Applied(p, Head(doing[p].todo))
    PROVE  /\ doing[p].call = "write" => WriteDone(new, start[p])
           /\ doing[p].call # "write" /\ clean => ClearDone(new, start[p])
<1>1. doing[p].call = "write" \/ clean => \A key \in KeySet(app) : new[key] = doing[p].url
    <2>1. DOMAIN Tail(doing[p].todo) = {}
        OBVIOUS
    <2>q. QED
        BY <2>1, CommandSets
<1>2. \A key : Reads(new, key) = new[key]
    BY DEF Reads
<1>3. /\ doing[p].call = "write" => doing[p].url \in Url
      /\ doing[p].call # "write" => doing[p].url = None
    BY CallIs
<1>q. QED
    BY <1>1, <1>2, <1>3, Zenon DEF WriteDone, ClearDone

LEMMA WorksKeeps ==
    ASSUME AppInv, NEW p \in Proc, StepWorks(p), alone[p]
    PROVE  CallKeeps(p)'
<1>1. /\ doing[p] # Idle /\ AfterStep(p, TRUE) /\ conf' = Applied(p, Head(doing[p].todo))
      /\ app' = app /\ start' = start /\ alone' = alone /\ clean' = clean
    BY DEF StepWorks
<1>2. TypeInv /\ Progress(p) /\ doing \in [Proc -> Call]
      /\ outcome \in [Proc -> {"none", "write", "clear", "error"}]
    BY <1>1 DEF AppInv, CallKeeps, TypeInv, TypeOK
<1>3. /\ WriteDone(conf, start[p])' <=> WriteDone(conf', start'[p])
      /\ ClearDone(conf, start[p])' <=> ClearDone(conf', start'[p])
      /\ Progress(p)' <=> ProgressOf(doing'[p], conf', start'[p], clean')
    BY <1>1, SameTool
<1>4. doing[p].call \in {"write", "clear"} /\ doing[p] \in Call
    BY <1>1, <1>2, CallIs
<1>5. CASE /\ doing' = [doing EXCEPT ![p] = Idle]
           /\ outcome' = [outcome EXCEPT ![p] = doing[p].call]
           /\ Tail(doing[p].todo) = <<>>
    <2>1. doing'[p] = Idle /\ outcome'[p] = doing[p].call
        BY <1>2, <1>5
    <2>2. doing[p].call = "write" => WriteDone(conf', start[p])
        BY <1>1, <1>2, <1>5, LastEditWrites, LastCommand
    <2>3. doing[p].call # "write" /\ clean => ClearDone(conf', start[p])
        BY <1>1, <1>2, <1>5, LastEditClears, LastCommand
    <2>4. Effect(p)'
        BY <1>1, <1>3, <2>1, <2>2, <2>3 DEF Effect
    <2>q. QED
        BY <2>1, <2>4, Zenon DEF CallKeeps
<1>6. CASE /\ doing' = [doing EXCEPT ![p] = [doing[p] EXCEPT !.todo = Tail(doing[p].todo)]]
           /\ Tail(doing[p].todo) # <<>>
    <2>1. doing'[p] = [doing[p] EXCEPT !.todo = Tail(doing[p].todo)]
        BY <1>2, <1>6
    <2>2. /\ doing'[p].call = doing[p].call /\ doing'[p].url = doing[p].url
          /\ doing'[p].todo = Tail(doing[p].todo)
        BY <1>4, <2>1 DEF Call
    <2>3. doing'[p] # Idle
        BY <1>4, <2>2, IdleIs
    <2>4. CASE app \in Commands
        <3>1. doing[p].call = "write" \/ clean => \A key \in KeySet(app) :
                  conf'[key] = doing[p].url
                  \/ \E i \in DOMAIN Tail(doing[p].todo) : Tail(doing[p].todo)[i] = key
            BY <1>1, <1>2, <2>4, CommandSets
        <3>2. ProgressOf(doing'[p], conf', start'[p], clean')
            BY <1>1, <2>2, <2>4, <3>1 DEF ProgressOf
        <3>q. QED
            BY <1>3, <2>3, <3>2, Zenon DEF CallKeeps
    <2>5. CASE app \notin Commands
        <3>1. /\ app = "wget" /\ doing[p].call = "write"
              /\ Tail(doing[p].todo) = <<"https_proxy">>
              /\ conf' = EditKeyValue(start[p], "http_proxy", doing[p].url)
            BY <1>1, <1>2, <1>6, <2>5, OneMoreEdit
        <3>2. ProgressOf(doing'[p], conf', start'[p], clean')
            BY <1>1, <2>2, <2>5, <3>1 DEF ProgressOf
        <3>q. QED
            BY <1>3, <2>3, <3>2, Zenon DEF CallKeeps
    <2>q. QED
        BY <2>4, <2>5
<1>q. QED
    BY <1>1, <1>2, <1>5, <1>6, AfterStepIs

LEMMA FailsKeeps ==
    ASSUME AppInv, NEW p \in Proc, StepFails(p), alone[p]
    PROVE  CallKeeps(p)'
<1>1. /\ doing[p] # Idle /\ AfterStep(p, FALSE) /\ app' = app /\ clean' = FALSE
    BY DEF StepFails
<1>2. TypeInv /\ doing \in [Proc -> Call]
      /\ outcome \in [Proc -> {"none", "write", "clear", "error"}]
    BY DEF AppInv, TypeInv, TypeOK
<1>3. Progress(p)' <=> ProgressOf(doing'[p], conf', start'[p], clean')
    BY <1>1, SameTool
<1>4. doing[p].call \in {"write", "clear"} /\ doing[p] \in Call
    BY <1>1, <1>2, CallIs
<1>5. CASE /\ doing' = [doing EXCEPT ![p] = Idle]
           /\ outcome' = [outcome EXCEPT ![p] = IF ~(doing[p].call = "write" \/ app \notin Commands)
                                                THEN doing[p].call ELSE "error"]
    <2>1. doing'[p] = Idle /\ outcome'[p] # "write"
        BY <1>2, <1>5
    <2>2. Effect(p)'
        BY <1>1, <2>1, Zenon DEF Effect
    <2>q. QED
        BY <2>1, <2>2, Zenon DEF CallKeeps
<1>6. CASE /\ doing' = [doing EXCEPT ![p] = [doing[p] EXCEPT !.todo = Tail(doing[p].todo)]]
           /\ ~(doing[p].call = "write" \/ app \notin Commands)
    <2>1. doing'[p] = [doing[p] EXCEPT !.todo = Tail(doing[p].todo)]
        BY <1>2, <1>6
    <2>2. doing'[p].call = doing[p].call
        BY <1>4, <2>1 DEF Call
    <2>3. doing'[p] # Idle
        BY <1>4, <2>2, IdleIs
    <2>4. ProgressOf(doing'[p], conf', start'[p], clean')
        BY <1>1, <1>6, <2>2 DEF ProgressOf
    <2>q. QED
        BY <1>3, <2>3, <2>4, Zenon DEF CallKeeps
<1>q. QED
    BY <1>1, <1>2, <1>5, <1>6, AfterStepIs

LEMMA StartKeeps ==
    ASSUME AppInv, NEW p \in Proc, NEW call \in {"write", "clear"}, NEW url \in Url \cup {None},
           call = "write" => url \in Url, call # "write" => url = None, Start(p, call, url)
    PROVE  CallKeeps(p)'
<1>1. /\ doing'[p].call = call /\ doing'[p].url = url
      /\ doing'[p].todo = Steps(call) /\ doing'[p] # Idle
    BY StartIs DEF AppInv
<1>2. app' = app /\ conf' = conf /\ start' = [start EXCEPT ![p] = conf]
    BY DEF Start
<1>3. start'[p] = conf /\ app \in App
    BY <1>2 DEF AppInv, TypeInv, TypeOK
<1>4. Progress(p)' <=> ProgressOf(doing'[p], conf', start'[p], clean')
    BY <1>2, SameTool
<1>5. CASE app \in Commands
    <2>1. Steps(call) = Keys(app)
        BY <1>3, <1>5, StepsAre
    <2>2. \A key \in KeySet(app) : \E i \in DOMAIN Keys(app) : Keys(app)[i] = key
        BY Zenon DEF KeySet
    <2>3. ProgressOf(doing'[p], conf', start'[p], clean')
        BY <1>1, <1>5, <2>1, <2>2, Zenon DEF ProgressOf
    <2>q. QED
        BY <1>1, <1>4, <2>3, Zenon DEF CallKeeps
<1>6. CASE app \notin Commands
    <2>1. ProgressOf(doing'[p], conf', start'[p], clean')
        BY <1>1, <1>2, <1>3, <1>6, Zenon DEF ProgressOf
    <2>q. QED
        BY <1>1, <1>4, <2>1, Zenon DEF CallKeeps
<1>q. QED
    BY <1>5, <1>6

LEMMA CancelKeeps ==
    ASSUME AppInv, NEW p \in Proc, Cancel(p), alone[p]
    PROVE  CallKeeps(p)'
<1>1. /\ doing'[p].call = doing[p].call /\ doing'[p].url = doing[p].url
      /\ doing'[p].todo = doing[p].todo /\ doing'[p] # Idle
    BY CancelIs DEF AppInv
<1>2. app' = app /\ conf' = conf /\ start' = start /\ clean' = clean /\ doing[p] # Idle
    BY DEF Cancel
<1>3. Progress(p)
    BY <1>2 DEF AppInv, CallKeeps
<1>4. Progress(p)' <=> ProgressOf(doing'[p], conf', start'[p], clean')
    BY <1>2, SameTool
<1>5. ProgressOf(doing'[p], conf', start'[p], clean')
    BY <1>1, <1>2, <1>3, Zenon DEF Progress, ProgressOf
<1>q. QED
    BY <1>1, <1>4, <1>5, Zenon DEF CallKeeps

\* What another goroutine does: nothing, when this one's call was alone.
LEMMA NothingChanges ==
    ASSUME AppInv, NEW p \in Proc, doing'[p] = doing[p], app' = app, conf' = conf,
           start'[p] = start[p], clean' = clean, alone'[p] = alone[p],
           outcome'[p] \in {outcome[p], "error"}
    PROVE  CallKeeps(p)'
<1>1. /\ WriteDone(conf, start[p])' <=> WriteDone(conf', start'[p])
      /\ ClearDone(conf, start[p])' <=> ClearDone(conf', start'[p])
      /\ Progress(p)' <=> ProgressOf(doing'[p], conf', start'[p], clean')
    BY SameTool
<1>2. CallKeeps(p)
    BY DEF AppInv
<1>3. Progress(p) => Progress(p)'
    BY <1>1 DEF Progress
<1>4. Effect(p) => Effect(p)'
    BY <1>1 DEF Effect
<1>q. QED
    BY <1>2, <1>3, <1>4, Zenon DEF CallKeeps

LEMMA AppInit == Init => AppInv
<1> SUFFICES ASSUME Init PROVE AppInv
    OBVIOUS
<1>1. \A p \in Proc : doing[p] = Idle /\ outcome[p] = "none"
    BY DEF Init
<1>2. TypeInv
    BY TypeInit
<1>3. AloneInv
    BY <1>1 DEF AloneInv
<1>4. \A p \in Proc : CallKeeps(p)
    BY <1>1 DEF CallKeeps, Effect
<1>q. QED
    BY <1>2, <1>3, <1>4 DEF AppInv

\* What a step of goroutine q is to the others, and to itself.
LEMMA AppStep ==
    ASSUME AppInv, TypeInv', NEW q \in Proc,
           \/ \E url \in Url : Start(q, "write", url)
           \/ Start(q, "clear", None)
           \/ Refuse(q) \/ StepWorks(q) \/ StepFails(q) \/ Cancel(q)
    PROVE  AppInv'
<1>0. TypeInv /\ AloneInv /\ doing \in [Proc -> Call] /\ alone \in [Proc -> BOOLEAN]
    BY DEF AppInv, TypeInv, TypeOK
<1>1. ASSUME NEW call \in {"write", "clear"}, NEW url \in Url \cup {None},
             call = "write" => url \in Url, call # "write" => url = None, Start(q, call, url)
      PROVE  AppInv'
    <2>1. /\ \A p \in Proc \ {q} : doing'[p] = doing[p]
          /\ doing[q] = Idle
          /\ alone' = [p \in Proc |-> IF p = q THEN Busy = {} ELSE FALSE]
        BY <1>0, <1>1, StartIs DEF Start
    <2>2. \A p \in Proc \ {q} : ~alone'[p]
        BY <2>1
    <2>3. alone'[q] => \A p \in Proc \ {q} : doing'[p] = Idle
        BY <2>1 DEF Busy
    <2>4. AloneInv'
        BY <2>2, <2>3 DEF AloneInv
    <2>5. \A p \in Proc \ {q} : CallKeeps(p)'
        BY <2>2, Zenon DEF CallKeeps
    <2>6. CallKeeps(q)'
        BY <1>1, StartKeeps
    <2>q. QED
        BY <2>4, <2>5, <2>6, Zenon DEF AppInv
<1>2. CASE Refuse(q)
    <2>1. /\ outcome'[q] = "error" /\ \A p \in Proc \ {q} : outcome'[p] = outcome[p]
          /\ app' = app /\ conf' = conf /\ doing' = doing /\ start' = start /\ alone' = alone
          /\ clean' = clean
        BY <1>0, <1>2, RefuseIs
    <2>2. \A p \in Proc : CallKeeps(p)'
        BY <2>1, NothingChanges
    <2>3. AloneInv'
        BY <1>0, <2>1 DEF AloneInv
    <2>q. QED
        BY <2>2, <2>3, Zenon DEF AppInv
<1>3. ASSUME doing[q] # Idle, alone' = alone, alone[q] => CallKeeps(q)',
             \A p \in Proc \ {q} : doing'[p] = doing[p]
      PROVE  AppInv'
    <2>1. \A p \in Proc \ {q} : ~alone[p]
        BY <1>0, <1>3 DEF AloneInv
    <2>2. \A p \in Proc : CallKeeps(p)'
        BY <1>3, <2>1, Zenon DEF CallKeeps
    <2>3. AloneInv'
        BY <1>0, <1>3, <2>1 DEF AloneInv
    <2>q. QED
        BY <2>2, <2>3, Zenon DEF AppInv
<1>4. CASE StepWorks(q)
    <2>1. doing[q] # Idle /\ alone' = alone /\ AfterStep(q, TRUE) /\ app' = app
        BY <1>4 DEF StepWorks
    <2>2. \A p \in Proc \ {q} : doing'[p] = doing[p]
        BY <1>0, <2>1, StepType
    <2>3. alone[q] => CallKeeps(q)'
        BY <1>4, WorksKeeps
    <2>q. QED
        BY <1>3, <2>1, <2>2, <2>3
<1>5. CASE StepFails(q)
    <2>1. doing[q] # Idle /\ alone' = alone /\ AfterStep(q, FALSE) /\ app' = app
        BY <1>5 DEF StepFails
    <2>2. \A p \in Proc \ {q} : doing'[p] = doing[p]
        BY <1>0, <2>1, StepType
    <2>3. alone[q] => CallKeeps(q)'
        BY <1>5, FailsKeeps
    <2>q. QED
        BY <1>3, <2>1, <2>2, <2>3
<1>6. CASE Cancel(q)
    <2>1. doing[q] # Idle /\ alone' = alone
        BY <1>6 DEF Cancel
    <2>2. \A p \in Proc \ {q} : doing'[p] = doing[p]
        BY <1>0, <1>6, CancelIs
    <2>3. alone[q] => CallKeeps(q)'
        BY <1>6, CancelKeeps
    <2>q. QED
        BY <1>3, <2>1, <2>2, <2>3
<1>q. QED
    BY <1>1, <1>2, <1>4, <1>5, <1>6

LEMMA AppNext == AppInv /\ [Next]_vars => AppInv'
<1> SUFFICES ASSUME AppInv, [Next]_vars PROVE AppInv'
    OBVIOUS
<1>1. TypeInv'
    BY TypeNext DEF AppInv
<1>2. CASE Next
    BY <1>1, <1>2, AppStep, Zenon DEF Next
<1>3. CASE UNCHANGED vars
    <2>1. /\ app' = app /\ conf' = conf /\ doing' = doing /\ outcome' = outcome /\ start' = start
          /\ alone' = alone /\ clean' = clean
        BY <1>3 DEF vars
    <2>2. \A p \in Proc : CallKeeps(p)'
        BY <2>1, NothingChanges
    <2>3. AloneInv'
        BY <2>1 DEF AppInv, AloneInv
    <2>q. QED
        BY <1>1, <2>2, <2>3, Zenon DEF AppInv
<1>q. QED
    BY <1>2, <1>3

\* Calls do what their names say, for every file and every number of
\* goroutines: after a write that returned nil and was alone the tool reads
\* the proxy from each of its keys, and after a clear nothing - in a file
\* spelled the package's way, and for pip with [global] as its last section.
THEOREM Calls_TakeEffect == Spec => []CallsTakeEffect
<1>1. AppInv => CallsTakeEffect
    <2> SUFFICES ASSUME AppInv, NEW p \in Proc, doing[p] = Idle, alone[p]
                 PROVE  /\ outcome[p] = "write" /\ WellSpelled(start[p]) /\ WellPlaced(start[p]) =>
                              \E url \in Url : \A key \in KeySet(app) : Reads(conf, key) = url
                        /\ outcome[p] = "clear" /\ clean /\ WellSpelled(start[p]) =>
                              \A key \in KeySet(app) : Reads(conf, key) = None
        BY Zenon DEF CallsTakeEffect, WriteTakesEffect, ClearTakesEffect, JustDone
    <2>1. Effect(p)
        BY DEF AppInv, CallKeeps
    <2>q. QED
        BY <2>1, Zenon DEF Effect, WriteDone, ClearDone
<1>2. Spec => []AppInv
    BY AppInit, AppNext, PTL DEF Spec
<1>q. QED
    BY <1>1, <1>2, PTL
=============================================================================
