---------------------------- MODULE ManagedBlock ----------------------------
(***************************************************************************)
(* The managed block of a start-up file, as pure functions on the lines of *)
(* the file (managedblock.go).                                             *)
(*                                                                         *)
(* A line is abstracted to what the code tells apart in it: the markers,   *)
(* blank lines, the line `export NAME='value'` the library writes          *)
(* ("quoted"), the ways a user defines a variable that varName sees        *)
(* ("export") or only definedVars sees ("assign"), and all other text.     *)
(* cr says that the line ends in \r.  The lower- and the upper-case        *)
(* variable, always written as a pair, are one variable.                   *)
(***************************************************************************)
EXTENDS Lines, SequencesExt, Naturals

CONSTANTS Val,             \* values of variables
          DefaultNoProxy   \* the one of no_proxy that is written by default

ASSUME DefaultAssumption == DefaultNoProxy \in Val

Vars == {"http_proxy", "https_proxy", "all_proxy", "no_proxy", "AUTOPROXY"}

Line == [kind : {"begin", "end", "blank", "text", "assign", "export", "quoted"},
         var : Vars \cup {""}, val : Val \cup {""}, cr : BOOLEAN]

Plain(kind)     == [kind |-> kind, var |-> "", val |-> "", cr |-> FALSE]
Export(var, v)  == [kind |-> "quoted", var |-> var, val |-> v, cr |-> FALSE]

\* A file: its lines, and whether the last one ends in a newline.
Content == {c \in [lines : Seq(Line), nl : BOOLEAN] : c.lines = <<>> => ~c.nl}
Empty   == [lines |-> <<>>, nl |-> FALSE]

\* strings.Join with a newline after every line.
Joined(lines) == IF lines = <<>> THEN Empty ELSE [lines |-> lines, nl |-> TRUE]

-----------------------------------------------------------------------------
\* Mutant: a second begin marker does not open the block anew.
ScanFromFirst(acc, l, i) ==
    CASE l.kind = "begin" /\ acc.start = 0 -> [acc EXCEPT !.start = i]
      [] l.kind = "end" /\ acc.start > 0 ->
           [start |-> 0, blocks |-> Append(acc.blocks, [start |-> acc.start, end |-> i])]
      [] OTHER -> acc

\* findBlocks: one pass; a begin marker opens a block, or opens it anew; an
\* end marker closes the open one, if any.  Scanned[i] is what is known after
\* i lines.
Scan(acc, l, i) ==
    CASE l.kind = "begin" -> [acc EXCEPT !.start = i]
      [] l.kind = "end" /\ acc.start > 0 ->
           [start |-> 0, blocks |-> Append(acc.blocks, [start |-> acc.start, end |-> i])]
      [] OTHER -> acc

FindBlocks(lines) ==
    LET Scanned[i \in 0..Len(lines)] ==
          IF i = 0 THEN [start |-> 0, blocks |-> <<>>] ELSE Scan(Scanned[i - 1], lines[i], i)
    IN  Scanned[Len(lines)].blocks

\* The lines that belong to a block are ours.
Ours(lines) == UNION {b.start..b.end : b \in ToSet(FindBlocks(lines))}

\* The lines from `from` to `to` that are not ours.
Outside(lines, from, to) == Without(lines, Ours(lines) \cup (DOMAIN lines \ (from..to)))

NoCR(l)       == [l EXCEPT !.cr = FALSE]
WithCR(l, cr) == [l EXCEPT !.cr = cr]
Each(Op(_), lines) == [i \in DOMAIN lines |-> Op(lines[i])]

\* blockBody: the lines inside the first block.
BlockBody(content) ==
    LET blocks == FindBlocks(content.lines) IN
    IF blocks = <<>> THEN <<>>
    ELSE Each(NoCR, SubSeq(content.lines, blocks[1].start + 1, blocks[1].end - 1))

\* The file contains \r\n.
HasCRLF(content) ==
    \E i \in DOMAIN content.lines :
       content.lines[i].cr /\ (content.nl \/ i < Len(content.lines))

\* Mutants: only the first block is replaced; nothing is; the new block
\* always comes last.
UpdateBlockFirstOnly(content, body) ==
    LET lines  == content.lines
        blocks == FindBlocks(lines)
        block  == IF body = <<>> THEN <<>> ELSE <<Plain("begin")>> \o body \o <<Plain("end")>>
    IN  IF blocks = <<>> THEN (IF body = <<>> THEN content ELSE Joined(lines \o block))
        ELSE Joined(SubSeq(lines, 1, blocks[1].start - 1) \o block
                    \o SubSeq(lines, blocks[1].end + 1, Len(lines)))

UpdateBlockMoves(content, body) ==
    LET rest == Outside(content.lines, 1, Len(content.lines)) IN
    IF body = <<>> THEN Joined(rest)
    ELSE Joined(rest \o <<Plain("begin")>> \o body \o <<Plain("end")>>)

\* updateBlock: the first block is replaced, the others go; without any the
\* new block comes last.
UpdateBlock(content, body) ==
    LET lines  == content.lines
        blocks == FindBlocks(lines)
        EOL(l) == WithCR(l, HasCRLF(content))
        block  == IF body = <<>> THEN <<>>
                  ELSE Each(EOL, <<Plain("begin")>> \o body \o <<Plain("end")>>)
        at     == IF blocks = <<>> THEN Len(lines) + 1 ELSE blocks[1].start
    IN  IF blocks = <<>> /\ body = <<>> THEN content
        ELSE Joined(Outside(lines, 1, at - 1) \o block \o Outside(lines, at, Len(lines)))

-----------------------------------------------------------------------------
\* varName and definedVars.
VarName(l)     == IF l.kind \in {"export", "quoted"} THEN l.var ELSE ""
DefinedVars(l) == IF l.kind \in {"assign", "export", "quoted"} THEN {l.var} ELSE {}

\* mergeBody: old without what updated redefines, then updated.
MergeBody(old, updated) ==
    LET names == {VarName(l) : l \in ToSet(updated)} \ {""}
    IN  Without(old, {i \in DOMAIN old : VarName(old[i]) \in names}) \o updated

\* legacyLineRE and legacyNoProxyRE: the unmarked lines of old versions.
Legacy(l) == l.kind = "quoted" /\ (l.var = "no_proxy" => l.val = DefaultNoProxy)

NotLegacy(lines) == Without(lines, {i \in DOMAIN lines : Legacy(lines[i])})

\* removeLegacyLines.
RemoveLegacyLines(content) ==
    LET kept == NotLegacy(content.lines)
    IN  IF Len(kept) = Len(content.lines) THEN content ELSE Joined(kept)

\* dropIfUserDefined: names yield to what is defined outside the block.
DropIfUserDefined(body, content, names) ==
    LET own == UpdateBlock(content, <<>>).lines
    IN  IF \E l \in ToSet(own) : DefinedVars(l) \cap names # {}
        THEN Without(body, {i \in DOMAIN body : VarName(body[i]) \in names})
        ELSE body
=============================================================================
