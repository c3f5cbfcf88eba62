------------------------------ MODULE RcFiles ------------------------------
(***************************************************************************)
(* The user's start-up files (rcfile_unix.go and the file operations of    *)
(* managedblock.go): goroutines set, unset, snapshot and restore managed   *)
(* blocks, file after file; the read and the write of one file happen      *)
(* under fileMu; the user edits files in between; the process may crash.   *)
(*                                                                         *)
(* A file write is one step here (writeFileAtomic renames a finished       *)
(* temporary file).  HOME, ZDOTDIR and SHELL do not change.  The bound     *)
(* MaxTrouble is one on failing files, edits and crashes together.         *)
(***************************************************************************)
EXTENDS ManagedBlock, ProxyErrors

CONSTANTS
    Proc,          \* goroutines
    Restorers,     \* those that call WithProxy
    RcPaths,       \* rcPaths, in its order
    OldZshrc,      \* the ~/.zshrc removeRCBlock adds when ZDOTDIR is set (a set)
    Zshrc,         \* the .zshrc of zsh
    Shells,        \* the user's shell: "zsh" or "other"
    DefaultRC,     \* defaultRCFile
    SudoHome,      \* sudoHomeWarning would warn
    Missing,
    Homes,         \* what the files may hold at the beginning
    Proxies, Pacs, Configs,  \* arguments: proxy and PAC URLs, multi configurations
    UserLine,      \* a line the user adds, that defines nothing
    MaxOps, MaxTrouble

Path == ToSet(RcPaths) \cup OldZshrc
Free == "free"     \* nobody holds fileMu

ASSUME RcAssumption ==
    /\ Restorers \subseteq Proc
    /\ RcPaths \in Seq(ToSet(RcPaths)) /\ IsFiniteSet(OldZshrc)
    /\ Zshrc \in ToSet(RcPaths) /\ DefaultRC \in ToSet(RcPaths)
    /\ Shells \subseteq {"zsh", "other"} /\ SudoHome \in BOOLEAN
    /\ Free \notin Proc
    /\ Missing \notin Content /\ Homes \subseteq [Path -> Content \cup {Missing}]
    /\ Proxies \cup Pacs \subseteq Val /\ Configs \subseteq [Vars \ {"AUTOPROXY"} -> Val \cup {""}]
    /\ UserLine \in Line /\ UserLine.kind = "text"
    /\ {MaxOps, MaxTrouble} \subseteq Nat

VARIABLES
    shell,    \* the user's shell, never changed
    file,     \* [Path -> Content \cup {Missing}]
    mutex,    \* who holds fileMu, or Free
    op,       \* [Proc -> the operation under way, or Idle]
    todo,     \* [Proc -> the paths it has left]
    buf,      \* [Proc -> what it has read of the first of them: <<content>>, or Unread]
    errs,     \* [Proc -> the errors so far]
    written,  \* [Proc -> the number of files written]
    last,     \* [Proc -> the last operation that returned and its result]
    snaps,    \* [Proc -> the snapshot of its open WithProxy, or NoSnap]
    origin,   \* [Proc -> the files when that snapshot was taken]
    ops, faults, edits, crashes

local == <<op, todo, buf, errs, written, last>>
bounds == <<ops, faults, edits, crashes>>
vars  == <<shell, file, mutex, local, snaps, origin, bounds>>

Unread == <<>>
Idle   == [name |-> "idle"]
NoSnap == [open |-> FALSE, of |-> <<>>]
NoLast == [op |-> Idle, result |-> Nil]

Init ==
    /\ shell \in Shells
    /\ file \in Homes
    /\ mutex = Free
    /\ op = [p \in Proc |-> Idle] /\ todo = [p \in Proc |-> <<>>]
    /\ buf = [p \in Proc |-> Unread] /\ errs = [p \in Proc |-> Nil]
    /\ written = [p \in Proc |-> 0] /\ last = [p \in Proc |-> NoLast]
    /\ snaps = [p \in Proc |-> NoSnap] /\ origin = [p \in Proc |-> file]
    /\ ops = 0 /\ faults = 0 /\ edits = 0 /\ crashes = 0

MayHappen == faults + edits + crashes < MaxTrouble

Fault == MayHappen /\ faults' = faults + 1

-----------------------------------------------------------------------------
(* Which files, and what goes into them.                                   *)

\* Mutant: every path.
RcTargetsAll == RcPaths

\* rcTargets: the files that exist; the .zshrc of a zsh user in any case;
\* one new file when there is none.
RcTargets ==
    LET exist == Without(RcPaths, {i \in DOMAIN RcPaths : file[RcPaths[i]] = Missing})
        zsh   == IF shell = "zsh" /\ file[Zshrc] = Missing THEN <<Zshrc>> ELSE <<>>
    IN  IF exist \o zsh = <<>> THEN <<DefaultRC>> ELSE exist \o zsh

\* removeRCBlock looks at every path.
RemoveTargets == RcPaths \o SetToSeq(OldZshrc \ ToSet(RcPaths))

\* setUser, setUserPAC and setUserMulti: the lines, and whether they merge.
Pairs(names, v) == [i \in DOMAIN names |-> Export(names[i], v)]

Body(o) ==
    CASE o.name = "set" -> Pairs(<<"http_proxy", "https_proxy", "all_proxy">>, o.arg)
                           \o Pairs(<<"no_proxy">>, DefaultNoProxy)
      [] o.name = "pac" -> Pairs(<<"AUTOPROXY">>, o.arg)
      [] o.name = "multi" ->
            LET names == <<"http_proxy", "https_proxy", "all_proxy", "no_proxy">>
                given == Without(names, {i \in DOMAIN names : o.arg[names[i]] = ""})
            IN  [i \in DOMAIN given |-> Export(given[i], o.arg[given[i]])]

\* Mutant: the default bypass list is always written.
YieldNothing(o) == {}

Yield(o) == IF o.name = "set" THEN {"no_proxy"} ELSE {}

\* A missing file reads as an empty one, except where noted.
Read(c) == IF c = Missing THEN Empty ELSE c

\* applyBlockFile, on what was read.
Applied(o, c) ==
    LET body == DropIfUserDefined(Body(o), Read(c), Yield(o))
    IN  UpdateBlock(Read(c), IF o.name = "multi" THEN MergeBody(BlockBody(Read(c)), body)
                             ELSE body)

\* removeBlockFile: a file with nothing but our lines in it goes.
OnlyBlank(c) == \A l \in ToSet(c.lines) : l.kind = "blank"

\* Mutants: the lines of old versions stay; a file with our block goes.
RemovedBlockOnly(c) == IF c = Missing THEN c ELSE UpdateBlock(c, <<>>)
RemovedWholeFile(c) == IF c # Missing /\ FindBlocks(c.lines) # <<>> THEN Missing ELSE c

Removed(c) ==
    LET out == RemoveLegacyLines(UpdateBlock(c, <<>>))
    IN  IF c = Missing \/ out = c THEN c ELSE IF OnlyBlank(out) THEN Missing ELSE out

\* Mutant: a file that was not there before is left behind, empty.
RestoredLeavesFile(s, c) == IF c = Missing /\ s.body = <<>> THEN Missing
                            ELSE UpdateBlock(Read(c), s.body)

\* blockSnapshot.restore; s is what snapshotBlockFiles recorded of the file.
\* An empty file has nothing to take back and stays.
Restored(s, c) ==
    LET out == UpdateBlock(Read(c), s.body)
    IN  IF out # Empty \/ c = Empty THEN out
        ELSE IF c = Missing \/ ~s.existed THEN Missing ELSE Empty

Target(o, f, c) == CASE o.name = "unset"   -> Removed(c)
                     [] o.name = "restore" -> Restored(o.arg[f], c)
                     [] OTHER              -> Applied(o, c)

\* Set writes in any case; Unset and a restore only what they change.
Writes(o, f, c) == o.name \notin {"unset", "restore"} \/ Target(o, f, c) # c

-----------------------------------------------------------------------------
(* The operations of the library.                                          *)

Operations == [name : {"set"}, arg : Proxies] \cup [name : {"unset"}]
              \cup [name : {"pac"}, arg : Pacs] \cup [name : {"multi"}, arg : Configs]

Begin(p, o, paths) ==
    /\ op' = [op EXCEPT ![p] = o]
    /\ todo' = [todo EXCEPT ![p] = paths]
    /\ errs' = [errs EXCEPT ![p] = Nil]
    /\ written' = [written EXCEPT ![p] = 0]
    /\ last' = [last EXCEPT ![p] = NoLast]
    /\ UNCHANGED <<shell, file, mutex, buf, snaps, origin, faults, edits, crashes>>

Start(p, o) ==
    /\ op[p] = Idle /\ ops < MaxOps
    /\ o.name = "multi" => Body(o) # <<>>      \* else setUserMulti returns nil
    /\ Begin(p, o, IF o.name = "unset" THEN RemoveTargets ELSE RcTargets)
    /\ ops' = ops + 1

\* Mutant: fileMu is not waited for.
ReadFileUnlocked(p) ==
    /\ todo[p] # <<>> /\ buf[p] = Unread
    /\ mutex' = p
    /\ buf' = [buf EXCEPT ![p] = <<file[Head(todo[p])]>>]
    /\ UNCHANGED <<shell, file, op, todo, errs, written, last, snaps, origin, bounds>>

\* Lock fileMu and read the next file.
ReadFile(p) ==
    /\ todo[p] # <<>> /\ buf[p] = Unread /\ mutex = Free
    /\ mutex' = p
    /\ buf' = [buf EXCEPT ![p] = <<file[Head(todo[p])]>>]
    /\ UNCHANGED <<shell, file, op, todo, errs, written, last, snaps, origin, bounds>>

NextFile(p) ==
    /\ mutex' = Free
    /\ todo' = [todo EXCEPT ![p] = Tail(@)]
    /\ buf' = [buf EXCEPT ![p] = Unread]

WriteFile(p) ==
    LET f == Head(todo[p])
        c == Head(buf[p])
    IN
    /\ buf[p] # Unread
    /\ file' = [file EXCEPT ![f] = IF Writes(op[p], f, c) THEN Target(op[p], f, c) ELSE @]
    /\ written' = [written EXCEPT ![p] = @ + 1]
    /\ NextFile(p)
    /\ UNCHANGED <<shell, op, errs, last, snaps, origin, bounds>>

\* Mutant: fileMu is not released on an error.
FileFailsLocked(p) ==
    /\ buf[p] # Unread /\ Fault
    /\ errs' = [errs EXCEPT ![p] = Hard]
    /\ todo' = [todo EXCEPT ![p] = Tail(@)]
    /\ buf' = [buf EXCEPT ![p] = Unread]
    /\ UNCHANGED <<shell, file, mutex, op, written, last, snaps, origin, ops, edits, crashes>>

\* The file cannot be read, written or removed: the others go on.
FileFails(p) ==
    /\ buf[p] # Unread /\ Fault
    /\ errs' = [errs EXCEPT ![p] = Hard]
    /\ NextFile(p)
    /\ UNCHANGED <<shell, file, op, written, last, snaps, origin, ops, edits, crashes>>

\* Mutant: the operation ends at its first error.
ReturnAtFirstError(p) ==
    /\ op[p] # Idle /\ buf[p] = Unread /\ (todo[p] = <<>> \/ errs[p] # Nil)
    /\ last' = [last EXCEPT ![p] = [op |-> op[p], result |-> errs[p]]]
    /\ op' = [op EXCEPT ![p] = Idle]
    /\ UNCHANGED <<shell, file, mutex, todo, buf, errs, written, snaps, origin, bounds>>

\* applyRCBlock fails only when no file could be written; removeRCBlock and
\* restoreBlockFiles join all errors.
Return(p) ==
    LET applied == op[p].name \in {"set", "pac", "multi"}
        result  == IF ~applied THEN errs[p]
                   ELSE IF written[p] = 0 THEN errs[p]
                   ELSE IF SudoHome THEN Warning ELSE Nil
    IN
    /\ op[p] # Idle /\ todo[p] = <<>>
    /\ last' = [last EXCEPT ![p] = [op |-> op[p], result |-> result]]
    /\ op' = [op EXCEPT ![p] = Idle]
    /\ snaps' = IF op[p].name = "restore" THEN [snaps EXCEPT ![p] = NoSnap] ELSE snaps
    /\ UNCHANGED <<shell, file, mutex, todo, buf, errs, written, origin, bounds>>

\* snapshotUser: all targets are read under one lock, or none is recorded.
Snapshot(p) ==
    /\ p \in Restorers /\ op[p] = Idle /\ ~snaps[p].open /\ mutex = Free /\ ops < MaxOps
    /\ snaps' = [snaps EXCEPT ![p] =
                   [open |-> TRUE,
                    of |-> [i \in DOMAIN RcTargets |->
                              [path |-> RcTargets[i], existed |-> file[RcTargets[i]] # Missing,
                               body |-> BlockBody(Read(file[RcTargets[i]]))]]]]
    /\ origin' = [origin EXCEPT ![p] = file]
    /\ UNCHANGED <<shell, file, mutex, local, bounds>>

SnapshotFails(p) ==
    /\ p \in Restorers /\ op[p] = Idle /\ ~snaps[p].open /\ mutex = Free /\ Fault
    /\ last' = [last EXCEPT ![p] = [op |-> [name |-> "snapshot"], result |-> Hard]]
    /\ UNCHANGED <<shell, file, mutex, op, todo, buf, errs, written, snaps, origin, ops, edits, crashes>>

Restore(p) ==
    LET of == snaps[p].of IN
    /\ op[p] = Idle /\ snaps[p].open
    /\ Begin(p, [name |-> "restore",
                 arg |-> [f \in {s.path : s \in ToSet(of)} |->
                            CHOOSE s \in ToSet(of) : s.path = f]],
             [i \in DOMAIN of |-> of[i].path])
    /\ UNCHANGED ops

-----------------------------------------------------------------------------
(* The world around it.                                                    *)

\* The user's editor, outside the critical sections (fileMu does not protect
\* against other processes), adds a line.
UserAdds(f) ==
    /\ mutex = Free /\ MayHappen /\ file[f] # Missing
    /\ file' = [file EXCEPT ![f] = Joined(Append(@.lines, UserLine))]
    /\ edits' = edits + 1
    /\ UNCHANGED <<shell, mutex, local, snaps, origin, ops, faults, crashes>>

\* The process dies; the files stay as they are, the memory is gone.
Crash ==
    /\ MayHappen /\ \E p \in Proc : op[p] # Idle \/ snaps[p].open
    /\ crashes' = crashes + 1
    /\ mutex' = Free
    /\ op' = [p \in Proc |-> Idle] /\ todo' = [p \in Proc |-> <<>>]
    /\ buf' = [p \in Proc |-> Unread] /\ errs' = [p \in Proc |-> Nil]
    /\ written' = [p \in Proc |-> 0] /\ last' = [p \in Proc |-> NoLast]
    /\ snaps' = [p \in Proc |-> NoSnap]
    /\ UNCHANGED <<shell, file, origin, ops, faults, edits>>

Work(p) == ReadFile(p) \/ WriteFile(p) \/ FileFails(p) \/ Return(p)

Next == \/ \E p \in Proc : \/ \E o \in Operations : Start(p, o)
                           \/ Work(p) \/ Snapshot(p) \/ SnapshotFails(p) \/ Restore(p)
        \/ \E f \in Path : UserAdds(f)
        \/ Crash

Spec == Init /\ [][Next]_vars

-----------------------------------------------------------------------------
(* Properties.                                                             *)

\* The lines of a file outside its managed blocks, and the value its first
\* block gives a variable.
Own(c) == IF c = Missing THEN <<>> ELSE Outside(c.lines, 1, Len(c.lines))

\* The markers of a file are paired: without its blocks it has none.
Tidy(c)   == FindBlocks(Own(c)) = <<>>
TidyHomes == \A home \in Homes, f \in Path : Tidy(home[f])

BlockValue(c, n) ==
    LET body == BlockBody(Read(c))
        defs == Without(body, {i \in DOMAIN body : VarName(body[i]) # n})
    IN  IF defs = <<>> THEN "" ELSE defs[Len(defs)].val

\* The operation that has just returned, in a program with one goroutine.
Ended(p, name) == Proc = {p} /\ op[p] = Idle /\ last[p].op.name = name
Success(p)     == last[p].result = Nil \/ IsNonCritical(last[p].result)

\* Every variable keeps its type.
TypeOK ==
    /\ file \in [Path -> Content \cup {Missing}]
    /\ mutex \in Proc \cup {Free}
    /\ \A p \in Proc : ToSet(todo[p]) \subseteq Path /\ (op[p] = Idle => todo[p] = <<>>)
    /\ errs \in [Proc -> Error] /\ written \in [Proc -> 0..Len(RemoveTargets)]
    /\ ops \in 0..MaxOps /\ faults + edits + crashes \in 0..MaxTrouble

\* A step that is not the user's own leaves what is outside the blocks of a
\* file; Unset also drops the lines of old versions, and deletes a file with
\* nothing else in it.
KeepsOwn ==
    \A f \in Path : file'[f] # file[f] /\ edits' = edits =>
       LET kept == NotLegacy(Own(file[f]))
           unset == \E p \in Proc : op[p].name = "unset" /\ todo[p] # todo'[p]
       IN  \/ Own(file'[f]) = Own(file[f])
           \/ unset /\ Own(file'[f]) = kept
           \/ unset /\ file'[f] = Missing /\ \A l \in ToSet(kept) : l.kind = "blank"

\* "A user's own lines are never touched" (managedblock.go).  This is also no
\* lost edit: what the user added between the files of an operation is still
\* there.
UserLinesKept == [][KeepsOwn]_vars

\* Nothing of ours is left in a file.
Clean(c) == c # Missing => FindBlocks(c.lines) = <<>> /\ \A l \in ToSet(c.lines) : ~Legacy(l)

\* "Unset removes the block, plus the unmarked lines" (README): after an
\* Unset without an error nothing of ours is in any of the files, whatever
\* was done before, by this process or by one that crashed half-way.
UnsetLeavesNothing ==
    \A p \in Proc : Ended(p, "unset") /\ last[p].result = Nil => \A f \in Path : Clean(file[f])

\* After a Set without an error every start-up file gives the proxy, a zsh
\* user has a .zshrc, and the default bypass list "yields to a definition
\* the user already has" (noProxyNames); when some file failed, at least
\* one of the others has it.
SetReaches ==
    \A p \in Proc : Ended(p, "set") /\ Success(p) =>
       LET o == last[p].op
           Done(f) == /\ \A n \in {"http_proxy", "https_proxy", "all_proxy"} :
                            BlockValue(file[f], n) = o.arg
                      /\ BlockValue(file[f], "no_proxy") =
                            IF \E l \in ToSet(Own(file[f])) : "no_proxy" \in DefinedVars(l)
                            THEN "" ELSE DefaultNoProxy
           there == {f \in ToSet(RcPaths) : file[f] # Missing}
       IN  /\ \E f \in there : Done(f)
           /\ errs[p] = Nil => (\A f \in there : Done(f)) /\ (shell = "zsh" => Zshrc \in there)

\* "The restore is exact" (README): after a restore without an error each
\* file of the snapshot has the block it had, whatever ran in between, and a
\* file that was not there is gone again, unless the user has put a line in.
\* (A file without a block is not brought back when an Unset in between has
\* found nothing but lines of old versions in it.)
RestoreIsExact ==
    \A p \in Proc : Ended(p, "restore") /\ last[p].result = Nil =>
       \A f \in DOMAIN last[p].op.arg :
          /\ BlockBody(Read(file[f])) = BlockBody(Read(origin[p][f]))
          /\ file[f] = Missing => \A l \in ToSet(Own(origin[p][f])) : Legacy(l) \/ l.kind = "blank"
          /\ origin[p][f] = Missing => file[f] = Missing \/ UserLine \in ToSet(file[f].lines)

\* "Fields left empty are not changed" (README), also when two goroutines
\* call SetMulti at the same time: neither loses what the other wrote.
MultisMerge ==
    (\A p \in Proc : op[p] = Idle /\ last[p].op.name = "multi") /\ ops = Cardinality(Proc)
    /\ faults = 0 =>
       \A f \in ToSet(RcPaths), n \in Vars \ {"AUTOPROXY"}, p \in Proc : file[f] # Missing =>
          LET given == {last[q].op.arg[n] : q \in Proc} \ {""}
          IN  BlockValue(file[f], n) \in IF given # {} THEN given
                                         ELSE {BlockValue(origin[p][f], n)}

\* A new file is one of a restore that was there, the .zshrc of a zsh user,
\* or the only one.
MayCreate ==
    \A f \in Path : file[f] = Missing /\ file'[f] # Missing =>
       \A p \in Proc : todo'[p] # todo[p] =>
          \/ op[p].name = "restore" /\ op[p].arg[f].existed
          \/ shell = "zsh" /\ f = Zshrc
          \/ f = DefaultRC /\ \A g \in ToSet(RcPaths) \ {f} : file[g] = Missing

\* "Creating a file the user does not have can change shell behaviour"
\* (rcTargets): an operation that applies a block makes a new file only when
\* there was none at all when it started, or the .zshrc of a zsh user.
NoShadowing == [][MayCreate]_vars

\* fileMu "serialises read-modify-write cycles": what a goroutine has read of a
\* file is what the file still holds when it writes, so that no update of
\* another goroutine is overwritten, even one that began meanwhile; and the
\* mutex is released on every path, also when a file fails, so that the
\* operations of the other goroutines can go on.
LockProtects ==
    \A p \in Proc :
       /\ mutex = p <=> buf[p] # Unread
       /\ buf[p] # Unread => file[Head(todo[p])] = Head(buf[p])
=============================================================================
