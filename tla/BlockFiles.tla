----------------------------- MODULE BlockFiles -----------------------------
(***************************************************************************)
(* Every file of at most MaxLines lines, and what the functions of         *)
(* ManagedBlock promise of it.  The file grows by one line per step, so    *)
(* that its states are all such files; nl is whether the file ends in a    *)
(* newline.                                                                *)
(***************************************************************************)
EXTENDS ManagedBlock

CONSTANTS Alphabet,   \* the lines of the files
          Bodies,     \* what is written into them
          MaxLines

Marker(l) == l.kind \in {"begin", "end"}

\* What may stand in a block.
Inner == {l \in Line : ~Marker(l) /\ ~l.cr}

\* A marker says nothing but that it is one.
ASSUME AlphabetAssumption ==
    Alphabet \subseteq Line /\ \A l \in Alphabet : Marker(l) => NoCR(l) = Plain(l.kind)

ASSUME BodiesAssumption == Bodies \subseteq Seq(Inner)

VARIABLES lines, nl

FilesInit == lines = <<>> /\ nl = FALSE

AddLine(l, newline) == /\ Len(lines) < MaxLines
                       /\ lines' = Append(lines, l) /\ nl' = newline

FilesNext == \E l \in Alphabet, newline \in BOOLEAN : AddLine(l, newline)

FilesSpec == FilesInit /\ [][FilesNext]_<<lines, nl>>

Held == [lines |-> lines, nl |-> nl]

-----------------------------------------------------------------------------
\* A complete block: a begin and an end marker with no marker in between.
Complete == {b \in (1..Len(lines)) \X (1..Len(lines)) :
                /\ b[1] < b[2] /\ lines[b[1]].kind = "begin" /\ lines[b[2]].kind = "end"
                /\ \A k \in (b[1] + 1)..(b[2] - 1) : ~Marker(lines[k])}

\* A file whose markers are all part of complete blocks.
Undamaged == \A i \in 1..Len(lines) : Marker(lines[i]) =>
                \E b \in Complete : i \in {b[1], b[2]}

Users(content) == Outside(content.lines, 1, Len(content.lines))

\* findBlocks returns the complete begin..end ranges, in the order of the
\* file; "a begin marker without a matching end is ignored" (findBlocks).
FindsCompleteBlocks ==
    LET found == FindBlocks(lines) IN
    /\ {<<found[i].start, found[i].end>> : i \in DOMAIN found} = Complete
    /\ \A i \in 1..(Len(found) - 1) : found[i].end < found[i + 1].start

\* What is written is what is read back, whatever the file held, damaged or
\* not; in an undamaged file there is one block then, and the user's lines are
\* the same lines in the same order.  "Repeating a call never adds lines"
\* (README): writing the same block again changes nothing, byte for byte (but
\* for the line endings of the block when the file ended in a lone \r), and
\* removing the block leaves the user's lines.
WritesOneBlock ==
    \A body \in Bodies \ {<<>>} :
       LET out == UpdateBlock(Held, body) IN
       /\ BlockBody(out) = body
       /\ Undamaged =>
             /\ Len(FindBlocks(out.lines)) = 1 /\ Users(out) = Users(Held)
             /\ Each(NoCR, UpdateBlock(out, body).lines) = Each(NoCR, out.lines)
             /\ HasCRLF(Held) = HasCRLF(out) => UpdateBlock(out, body) = out
             /\ UpdateBlock(out, <<>>).lines = Users(Held)

\* What WithProxy relies on: writing back the body that was read undoes any
\* write of a block, for a file with at most one block; the line endings of
\* the block become those of the file.
WriteBackUndoes ==
    Undamaged /\ Len(FindBlocks(lines)) <= 1 =>
       \A body \in Bodies \ {<<>>} :
          Each(NoCR, UpdateBlock(UpdateBlock(Held, body), BlockBody(Held)).lines)
          = Each(NoCR, IF BlockBody(Held) = <<>> THEN Users(Held) ELSE lines)

\* "A begin marker without a matching end is ignored, so a damaged file never
\* causes the lines after it to be treated as ours" (findBlocks): the text
\* outside the blocks is still outside once the blocks are removed.
DamageNeverSpreads ==
    LET Text(content) == SelectSeq(Users(content), LAMBDA l : ~Marker(l))
    IN  Text(UpdateBlock(Held, <<>>)) = Text(Held)
=============================================================================
