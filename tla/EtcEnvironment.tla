--------------------------- MODULE EtcEnvironment ---------------------------
(***************************************************************************)
(* /etc/environment (etcenv.go, and the snapshot and the restore of it in  *)
(* sysproxy_linux.go), on top of AtomicFile.  Set and Unset read, compute  *)
(* and replace the file under fileMu; the snapshot and the restore of      *)
(* WithProxy do not take it.                                               *)
(*                                                                         *)
(* External: an administrator who adds lines to the file.  fileMu does not *)
(* keep other programs out (comment of fileMu); the editor is taken to     *)
(* stay out of the critical sections as if it did, and to replace the file *)
(* as a whole.                                                             *)
(*                                                                         *)
(* Of a text only what the code tells apart is kept: our block, unmarked   *)
(* proxy variables, the two no_proxy variables, and other lines.  The      *)
(* marker lines themselves are the subject of ManagedBlock.                *)
(***************************************************************************)
EXTENDS AtomicFile

CONSTANTS
    Host,         \* the proxies
    Other,        \* other lines
    Restorers,    \* the goroutines that are in a WithProxy
    Editors,      \* administrators, each at an editor
    MaxOps

NoProxyName == {"no_proxy", "NO_PROXY"}
Url   == [host : Host, login : BOOLEAN]
Block == [url : Url, adds : SUBSET NoProxyName]

\* proxy: there are unmarked proxy variables; bypass: whether a no_proxy
\* variable is missing, has the default value, or one of its own.
EtcText == [block : Block \cup {None}, proxy : BOOLEAN,
            bypass : [NoProxyName -> {"none", "default", "own"}], others : SUBSET Other]

EmptyText == [block |-> None, proxy |-> FALSE, bypass |-> [k \in NoProxyName |-> "none"],
              others |-> {}]

\* Blocks are only written by writeEtcEnvironment.
ASSUME EtcAssumption ==
    /\ Text = EtcText /\ None \notin Proc \cup Block
    /\ Restorers \subseteq Proc /\ Editors \subseteq Proc \ Restorers
    /\ MaxOps \in Nat
    /\ \A text \in InitialFiles \cap Text : text.block = None \/ ~text.block.url.login

VARIABLES
    fileMu,     \* who holds it, or None
    call,       \* [Proc -> what each one does]
    read,       \* [Proc -> what os.ReadFile returned]
    saved,      \* [Restorers -> what its snapshot read, or None]
    ops

etcVars == <<fileVars, fileMu, call, read, saved, ops>>
etcOnly == <<fileMu, call, read, saved, ops>>

NoCall == [do |-> "none"]

EtcInit ==
    /\ Init
    /\ fileMu = None /\ call = [p \in Proc |-> NoCall]
    /\ read = [p \in Proc |-> None] /\ saved = [p \in Restorers |-> None] /\ ops = 0

-----------------------------------------------------------------------------
(* What the functions make of a text.                                      *)

\* Mutant: the URL is written as it was given.
SanitizeNot(url) == url

\* etcSanitizeURL.
Sanitize(url) == [url EXCEPT !.login = FALSE]

\* stripEtcOwnedLines: our block, every proxy variable, and the default bypass
\* list of older versions.
Strip(text) ==
    [text EXCEPT !.block = None, !.proxy = FALSE,
                 !.bypass = [k \in NoProxyName |-> IF @[k] = "default" THEN "none" ELSE @[k]]]

\* Mutant: a default bypass list is written over the administrator's.
WithBlockAlways(text, url) ==
    [Strip(text) EXCEPT !.block = [url |-> Sanitize(url), adds |-> NoProxyName],
                        !.bypass = [k \in NoProxyName |-> "none"]]

\* writeEtcEnvironment: what the administrator says of no_proxy stays.
WithBlock(text, url) ==
    LET rest == Strip(text)
    IN  [rest EXCEPT !.block = [url |-> Sanitize(url),
                                adds |-> {k \in NoProxyName : rest.bypass[k] = "none"}]]

\* Mutant: what was read is taken as it is.
LinesRaw(content) == content

\* A missing file, or one that was cut off, reads like an empty one.
Lines(content) == IF content \in {Absent, Torn} THEN EmptyText ELSE content

-----------------------------------------------------------------------------
(* The actions.                                                            *)

Free(p) == call[p] = NoCall /\ pc[p] = "idle"

Calls(p) == IF p \in Editors THEN [do : {"edit"}, line : Other]
            ELSE [do : {"set"}, url : Url] \cup [do : {"clear"}]

\* Mutant: the mutex is not taken.
LockNot(p, c) ==
    /\ Free(p) /\ ops < MaxOps /\ ops' = ops + 1
    /\ call' = [call EXCEPT ![p] = c] /\ fileMu' = p
    /\ UNCHANGED <<fileVars, read, saved>>

\* fileMu.Lock.
Lock(p, c) ==
    /\ Free(p) /\ fileMu = None /\ ops < MaxOps /\ ops' = ops + 1
    /\ call' = [call EXCEPT ![p] = c] /\ fileMu' = p
    /\ UNCHANGED <<fileVars, read, saved>>

InCall(p, what) == call[p].do = what /\ pc[p] = "idle"

\* The call returns; what was deferred is done.
Leave(p) ==
    /\ call' = [call EXCEPT ![p] = NoCall]
    /\ read' = [read EXCEPT ![p] = None]
    /\ fileMu' = IF fileMu = p THEN None ELSE fileMu

\* os.ReadFile in writeEtcEnvironment and clearEtcEnvironment.
ReadFile(p) ==
    /\ InCall(p, "set") \/ InCall(p, "clear") \/ InCall(p, "edit")
    /\ read[p] = None
    /\ IF call[p].do = "clear" /\ (file = Absent \/ Strip(Lines(file)) = Lines(file))
       THEN Leave(p)
       ELSE read' = [read EXCEPT ![p] = Lines(file)] /\ UNCHANGED <<fileMu, call>>
    /\ UNCHANGED <<fileVars, saved, ops>>

\* It fails for another reason than a missing file.
ReadFails(p) ==
    /\ InCall(p, "set") \/ InCall(p, "clear")
    /\ read[p] = None
    /\ Leave(p)
    /\ UNCHANGED <<fileVars, saved, ops>>

NewText(c, text) ==
    IF c.do = "set" THEN WithBlock(text, c.url)
    ELSE IF c.do = "clear" THEN Strip(text)
    ELSE [text EXCEPT !.others = @ \cup {c.line}]

Replace(p) ==
    /\ read[p] # None /\ call[p].do # "wait"
    /\ Begin(p, NewText(call[p], read[p]))
    /\ call' = [call EXCEPT ![p] = [did |-> @, do |-> "wait"]]
    /\ UNCHANGED <<fileMu, read, saved, ops>>

\* writeFileAtomic has returned.
Returns(p) ==
    /\ InCall(p, "wait")
    /\ Leave(p)
    /\ UNCHANGED <<fileVars, saved, ops>>

\* readEtcState, in the snapshot of WithProxy.
Snapshot(p) ==
    /\ Free(p) /\ saved[p] = None /\ ops < MaxOps
    /\ saved' = [saved EXCEPT ![p] = IF file = Absent THEN Absent ELSE Lines(file)]
    /\ UNCHANGED <<fileVars, fileMu, call, read, ops>>

StartRestore(p) ==
    /\ Free(p) /\ saved[p] # None
    /\ call' = [call EXCEPT ![p] = [do |-> "restore"]]
    /\ UNCHANGED <<fileVars, fileMu, read, saved, ops>>

\* restoreEtcState: the file is read, compared and replaced without fileMu;
\* nothing is done when it cannot be read.
CompareAndRestore(p) ==
    /\ InCall(p, "restore")
    /\ \/ Leave(p) /\ UNCHANGED fileVars
       \/ /\ file # saved[p]
          /\ Begin(p, saved[p])
          /\ call' = [call EXCEPT ![p] = [did |-> @, do |-> "wait"]]
          /\ UNCHANGED <<fileMu, read>>
    /\ saved' = [saved EXCEPT ![p] = None]
    /\ UNCHANGED ops

\* A goroutine's step inside writeFileAtomic or os.Remove.
FileStep(p) == Continue(p) /\ UNCHANGED etcOnly

Background == Flush /\ UNCHANGED etcOnly

Dies ==
    /\ Crash
    /\ fileMu' = None /\ call' = [p \in Proc |-> NoCall]
    /\ read' = [p \in Proc |-> None] /\ saved' = [p \in Restorers |-> None]
    /\ UNCHANGED ops

EtcNext ==
    \/ \E p \in Proc : \/ \E c \in Calls(p) : Lock(p, c)
                       \/ ReadFile(p) \/ ReadFails(p) \/ Replace(p) \/ Returns(p) \/ FileStep(p)
    \/ \E p \in Restorers : Snapshot(p) \/ StartRestore(p) \/ CompareAndRestore(p)
    \/ Background \/ Dies

EtcSpec == EtcInit /\ [][EtcNext]_etcVars

-----------------------------------------------------------------------------
(* Properties.                                                             *)

\* Every variable keeps its type.
EtcTypeOK ==
    /\ FileTypeOK
    /\ fileMu \in Proc \cup {None} /\ read \in [Proc -> Text \cup {None}]
    /\ saved \in [Restorers -> Text \cup {Absent, None}]
    /\ ops \in 0..MaxOps

\* "a password must never end up there" (etcSanitizeURL): no block that was
\* written has a login, in the file or on the way to it, temporary files
\* included.
NoLoginInFile ==
    \A text \in ({file} \cup {want[p] : p \in Proc}) \cap Text :
        text.block = None \/ ~text.block.url.login

\* "leaving every other line (including a custom NO_PROXY) alone"
\* (writeEtcEnvironment), however the goroutines interleave and with the text
\* as it is at the moment of the replacement, not as it was read: set and
\* clear change only the block, unmarked proxy variables and default bypass
\* lists; what the administrator has added since is lost at most to a
\* restore; and each no_proxy variable has exactly one value after a set.
\* Where the file is written in place this does not hold: a set that reads it
\* in the middle of a restore, which does not take fileMu, sees a truncated
\* file and loses the administrator's lines for good.  Nor does it where two
\* WithProxy overlap: one restore takes a line away, a set reads the file, the
\* other restore brings the line back, and the set writes it away again.
AdminKeeps(old, new) ==
    /\ old.others \subseteq new.others
    /\ \A k \in NoProxyName : old.bypass[k] = "own" => new.bypass[k] = "own"

Writes(p) == pc[p] \in {"rename", "pour"} /\ file' = want[p] /\ file' # file

SetAndClearKeep ==
    [][\A p \in Proc : writable /\ Writes(p) /\ file \in Text /\ call[p].did.do # "restore" =>
          /\ AdminKeeps(file, file')
          /\ call[p].did.do = "clear" => file'.block = None
          /\ call[p].did.do = "set" =>
                /\ file'.block # None /\ file'.block.url.host = call[p].did.url.host
                /\ \A k \in NoProxyName : k \in file'.block.adds <=> file'.bypass[k] = "none"
       ]_etcVars

\* "serialised inside one process" (THREAT_MODEL, T3) as far as it holds:
\* between the read and the write of a set or clear nobody but a restore,
\* which does not take fileMu, changes the file.
OnlyRestoreIntervenes ==
    [][\A p \in Proc : read[p] # None /\ file' # file /\ crashes' = crashes /\ ~Writes(p)
          => \/ pc[p] \in {"open", "pour"}
             \/ \E q \in Restorers : call[q].do = "wait" /\ call[q].did.do = "restore"]_etcVars
=============================================================================
