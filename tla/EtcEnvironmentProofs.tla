------------------------ MODULE EtcEnvironmentProofs ------------------------
(***************************************************************************)
(* That writeFileAtomic keeps its contract, for any number of writers, any *)
(* texts, and any number of failures and crashes; that the edits of        *)
(* /etc/environment use the file as AtomicFile says, and so keep that      *)
(* contract; that no login ever reaches the file; that only a restore can  *)
(* come between the read and the write of another; and that a set or clear *)
(* keeps what the administrator has put in.                                *)
(***************************************************************************)
EXTENDS EtcEnvironment, TLAPS

-----------------------------------------------------------------------------
(* writeFileAtomic.                                                        *)

USE DEF Step, Temp

\* What the contract rests on: only a synced file is renamed, the file is
\* written in place only where the directory is not writable, and what a
\* crash can still tear is such a file.
Safe ==
    /\ file = Torn => ~writable
    /\ ~safe => ~writable
    /\ \A p \in Proc : /\ pc[p] = "rename" => temp[p] = "synced"
                       /\ pc[p] \in {"open", "pour"} => ~writable
                       /\ pc[p] = "idle" <=> want[p] = None
                       /\ pc[p] = "remove" <=> want[p] = Absent
                       /\ pc[p] \in {"idle", "create", "open", "pour", "remove"} => temp[p] = "none"

\* FileTypeOK without the bounds of the counters, and with the directory.
Types ==
    /\ file \in Text \cup {Absent, Torn} /\ safe \in BOOLEAN /\ writable \in BOOLEAN
    /\ pc \in [Proc -> Step] /\ want \in [Proc -> Text \cup {Absent, None}]
    /\ found \in [Proc -> BOOLEAN] /\ temp \in [Proc -> Temp]
    /\ outcome \in [Proc -> {"ok", "error"}]

Counters == faults \in 0..MaxFaults /\ crashes \in 0..MaxCrashes

IndInv == Types /\ Safe

-----------------------------------------------------------------------------

LEMMA InitInv == Init => IndInv
BY AtomicFileAssumption DEF Init, IndInv, Types, Safe

LEMMA InitCounters == Init => Counters
BY AtomicFileAssumption DEF Init, Counters

LEMMA NextCounters == Counters /\ [Next]_fileVars => Counters'
<1> SUFFICES ASSUME Counters, [Next]_fileVars PROVE Counters'
    OBVIOUS
<1> USE AtomicFileAssumption DEF Counters
<1>1. CASE UNCHANGED fileVars
    BY <1>1 DEF fileVars
<1>2. CASE Flush
    BY <1>2 DEF Flush
<1>3. CASE Crash
    BY <1>3 DEF Crash
<1>4. ASSUME NEW p \in Proc, NEW text \in Text \cup {Absent}, Begin(p, text) PROVE Counters'
    BY <1>4 DEF Begin
<1>5. ASSUME NEW p \in Proc, Continue(p) PROVE Counters'
    BY <1>5 DEF Continue, CreateTemp, CreateDenied, CreateFails, Write, Sync, Rename, Fail, Truncate,
        OpenDenied, Pour, PourFails, Remove, RemoveFails, Fault
<1>q. QED
    BY <1>1, <1>2, <1>3, <1>4, <1>5 DEF Next

\* Beginning a call.
LEMMA BeginInv ==
    ASSUME IndInv, NEW p \in Proc, NEW text \in Text \cup {Absent}, Begin(p, text)
    PROVE  IndInv'
<1> USE AtomicFileAssumption DEF IndInv, Begin, Goto
<1>1. Types'
    BY DEF Types
<1>2. Safe'
    BY DEF Types, Safe
<1>q. QED
    BY <1>1, <1>2

\* The steps before the path itself is touched.
LEMMA TempInv ==
    ASSUME IndInv, NEW p \in Proc,
           CreateTemp(p) \/ CreateDenied(p) \/ Write(p) \/ Sync(p)
    PROVE  IndInv'
<1> USE AtomicFileAssumption DEF IndInv, Goto, Temporary, CreateTemp, CreateDenied, Write, Sync
<1>1. Types'
    BY DEF Types
<1>2. Safe'
    BY DEF Types, Safe
<1>q. QED
    BY <1>1, <1>2

\* The steps that return an error and leave the file alone.
LEMMA ErrorInv ==
    ASSUME IndInv, NEW p \in Proc,
           CreateFails(p) \/ Fail(p) \/ OpenDenied(p) \/ RemoveFails(p)
    PROVE  IndInv'
<1> USE AtomicFileAssumption
    DEF IndInv, Return, Temporary, CreateFails, Fail, OpenDenied, RemoveFails
<1>1. Types'
    BY DEF Types
<1>2. Safe'
    BY DEF Types, Safe
<1>q. QED
    BY <1>1, <1>2

\* The steps that change what the path holds.
LEMMA ChangeInv ==
    ASSUME IndInv, NEW p \in Proc,
           Rename(p) \/ Truncate(p) \/ Pour(p) \/ PourFails(p) \/ Remove(p)
    PROVE  IndInv'
<1> USE AtomicFileAssumption
    DEF IndInv, Return, Goto, Temporary, Rename, Truncate, Pour, PourFails, Remove
<1>1. Types'
    <2>1. file' \in Text \cup {Absent, Torn}
        BY DEF Types, Safe
    <2>2. safe' \in BOOLEAN
        BY Zenon DEF Types
    <2>3. UNCHANGED <<writable, found>>
        OBVIOUS
    <2>4. pc' \in [Proc -> Step] /\ want' \in [Proc -> Text \cup {Absent, None}]
        BY DEF Types
    <2>5. temp' \in [Proc -> Temp] /\ outcome' \in [Proc -> {"ok", "error"}]
        BY DEF Types
    <2>q. QED
        BY <2>1, <2>2, <2>3, <2>4, <2>5 DEF Types
<1>2. Safe'
    <2>1. CASE Rename(p)
        BY <2>1 DEF Types, Safe
    <2>2. CASE Truncate(p)
        BY <2>2 DEF Types, Safe
    <2>3. CASE Pour(p)
        BY <2>3 DEF Types, Safe
    <2>4. CASE PourFails(p)
        BY <2>4 DEF Types, Safe
    <2>5. CASE Remove(p)
        BY <2>5 DEF Types, Safe
    <2>q. QED
        BY <2>1, <2>2, <2>3, <2>4, <2>5
<1>q. QED
    BY <1>1, <1>2

LEMMA NextInv == IndInv /\ [Next]_fileVars => IndInv'
<1> SUFFICES ASSUME IndInv, [Next]_fileVars PROVE IndInv'
    OBVIOUS
<1>1. CASE UNCHANGED fileVars
    BY <1>1 DEF fileVars, IndInv, Types, Safe
<1>2. CASE Flush
    BY <1>2 DEF Flush, IndInv, Types, Safe
<1>3. CASE Crash
    <2>1. Types'
        BY <1>3 DEF Crash, IndInv, Types
    <2>2. file' = Torn => ~writable'
        BY <1>3 DEF Crash, IndInv, Safe
    <2>3. \A p \in Proc : pc'[p] = "idle" /\ want'[p] = None /\ temp'[p] = "none"
        BY <1>3 DEF Crash
    <2>4. Safe'
        BY <1>3, <2>2, <2>3, AtomicFileAssumption DEF Crash, Safe
    <2>q. QED
        BY <2>1, <2>4 DEF IndInv
<1>4. ASSUME NEW p \in Proc, NEW text \in Text \cup {Absent}, Begin(p, text) PROVE IndInv'
    BY <1>4, BeginInv
<1>5. ASSUME NEW p \in Proc, Continue(p) PROVE IndInv'
    BY <1>5, TempInv, ErrorInv, ChangeInv DEF Continue
<1>q. QED
    BY <1>1, <1>2, <1>3, <1>4, <1>5 DEF Next

LEMMA Invariance == Spec => [](IndInv /\ Counters)
<1>1. Init => IndInv /\ Counters
    BY InitInv, InitCounters
<1>2. (IndInv /\ Counters) /\ [Next]_fileVars => (IndInv /\ Counters)'
    BY NextInv, NextCounters
<1>q. QED
    BY <1>1, <1>2, PTL DEF Spec

\* Every variable keeps its type, for any number of goroutines and texts.
THEOREM FileTypes == Spec => []FileTypeOK
<1>1. IndInv /\ Counters => FileTypeOK
    BY DEF IndInv, Types, Counters, FileTypeOK
<1>q. QED
    BY <1>1, Invariance, PTL

\* A call that has returned has left no temporary file.
THEOREM NoTemps == Spec => []NoTempLeft
<1>1. IndInv => NoTempLeft
    BY DEF IndInv, Safe, NoTempLeft
<1>q. QED
    BY <1>1, Invariance, PTL

-----------------------------------------------------------------------------

\* One step of a call is a step of the contract, or invisible to it.
LEMMA ContinueKeeps ==
    ASSUME IndInv, NEW p \in Proc, Continue(p)
    PROVE  [Contract!Next]_(Contract!vars)
<1> USE AtomicFileAssumption DEF IndInv, Contract!vars
<1>1. CASE CreateTemp(p) \/ CreateDenied(p) \/ Write(p) \/ Sync(p)
    BY <1>1 DEF CreateTemp, CreateDenied, Write, Sync
<1>2. CASE CreateFails(p) \/ Fail(p) \/ OpenDenied(p) \/ RemoveFails(p)
    <2>1. Contract!GiveUp(p)
        BY <1>2 DEF CreateFails, Fail, OpenDenied, RemoveFails, Return, Contract!GiveUp, Safe
    <2>q. QED
        BY <2>1 DEF Contract!Next
<1>3. CASE Rename(p) \/ Remove(p)
    <2>1. Contract!Put(p)
        BY <1>3 DEF Rename, Remove, Return, Contract!Put, Safe
    <2>q. QED
        BY <2>1 DEF Contract!Next
<1>4. CASE Truncate(p)
    <2>1. outcome' = [outcome EXCEPT ![p] = outcome[p]] /\ outcome[p] \in {"ok", "error"}
        BY <1>4 DEF Truncate, Types
    <2>2. Contract!Tear(p)
        BY <1>4, <2>1 DEF Truncate, Contract!Tear, Safe
    <2>q. QED
        BY <2>2 DEF Contract!Next
<1>5. CASE Pour(p)
    <2>1. CASE file' = want[p]
        <3>1. Contract!Put(p)
            BY <1>5, <2>1 DEF Pour, Return, Contract!Put, Safe
        <3>q. QED
            BY <3>1 DEF Contract!Next
    <2>2. CASE file' = Torn
        <3>1. Contract!Tear(p)
            BY <1>5, <2>2 DEF Pour, Return, Contract!Tear, Safe
        <3>q. QED
            BY <3>1 DEF Contract!Next
    <2>q. QED
        BY <1>5, <2>1, <2>2 DEF Pour
<1>6. CASE PourFails(p)
    <2>1. Contract!Tear(p)
        BY <1>6 DEF PourFails, Return, Contract!Tear, Safe
    <2>q. QED
        BY <2>1 DEF Contract!Next
<1>q. QED
    BY <1>1, <1>2, <1>3, <1>4, <1>5, <1>6 DEF Continue

LEMMA NextKeeps == IndInv /\ [Next]_fileVars => [Contract!Next]_(Contract!vars)
<1> SUFFICES ASSUME IndInv, [Next]_fileVars PROVE [Contract!Next]_(Contract!vars)
    OBVIOUS
<1>1. CASE UNCHANGED fileVars
    BY <1>1 DEF fileVars, Contract!vars
<1>2. CASE Flush
    BY <1>2 DEF Flush, Contract!vars
<1>3. CASE Crash
    <2>1. Contract!Crash
        BY <1>3 DEF Crash, Contract!Crash, IndInv, Safe
    <2>q. QED
        BY <2>1 DEF Contract!Next
<1>4. ASSUME NEW p \in Proc, NEW text \in Text \cup {Absent}, Begin(p, text)
      PROVE  [Contract!Next]_(Contract!vars)
    <2>1. Contract!Ask(p)
        BY <1>4, AtomicFileAssumption DEF Begin, Contract!Ask, IndInv, Types, Safe
    <2>q. QED
        BY <2>1 DEF Contract!Next
<1>5. ASSUME NEW p \in Proc, Continue(p) PROVE [Contract!Next]_(Contract!vars)
    BY <1>5, ContinueKeeps
<1>q. QED
    BY <1>1, <1>2, <1>3, <1>4, <1>5 DEF Next

\* writeFileAtomic implements its contract: readers see whole texts that were
\* asked for, an error means no change, and only where the directory is not
\* writable may a text be torn.
THEOREM Implements == Spec => KeepsContract
<1>1. Init => Contract!Init
    BY AtomicFileAssumption DEF Init, Contract!Init
<1>2. (IndInv /\ Counters) /\ [Next]_fileVars => [Contract!Next]_(Contract!vars)
    BY NextKeeps
<1>q. QED
    BY <1>1, <1>2, Invariance, PTL DEF Spec, KeepsContract, Contract!Spec

-----------------------------------------------------------------------------
(* /etc/environment.                                                       *)

\* The texts that may be in the file, on the way to it, or remembered.
Clean == {text \in EtcText : text.block = None \/ ~text.block.url.login}

\* What a call is while it is not over, and what it has read by then.
CallOK(p) ==
    /\ call[p] \in Calls(p) \/ call[p] = NoCall \/ call[p].do \in {"restore", "wait"}
    /\ read[p] # None => call[p] \in Calls(p) \/ call[p].do = "wait"
    /\ call[p].do = "restore" /\ p \in Restorers => saved[p] # None

EtcInv ==
    /\ IndInv
    /\ file \in Clean \cup {Absent, Torn}
    /\ want \in [Proc -> Clean \cup {Absent, None}]
    /\ read \in [Proc -> Clean \cup {None}]
    /\ saved \in [Restorers -> Clean \cup {Absent, None}]
    /\ DOMAIN call = Proc /\ \A p \in Proc : CallOK(p)

-----------------------------------------------------------------------------
(* What the functions on texts return.                                     *)

LEMMA EmptyClean == EmptyText \in Clean
BY DEF EmptyText, Clean, EtcText

LEMMA LinesClean ==
    ASSUME NEW content \in Clean \cup {Absent, Torn} PROVE Lines(content) \in Clean
BY EmptyClean DEF Lines

LEMMA StripClean == ASSUME NEW text \in Clean PROVE Strip(text) \in Clean
BY DEF Clean, EtcText, Strip

LEMMA WithBlockClean ==
    ASSUME NEW text \in Clean, NEW url \in Url PROVE WithBlock(text, url) \in Clean
<1> DEFINE rest == Strip(text)
           block == [url |-> Sanitize(url), adds |-> {k \in NoProxyName : rest.bypass[k] = "none"}]
<1>1. rest \in EtcText
    BY StripClean DEF Clean
<1>2. Sanitize(url) \in Url /\ ~Sanitize(url).login
    BY DEF Url, Sanitize
<1>3. block \in Block /\ ~block.url.login
    BY <1>2 DEF Block
<1>4. WithBlock(text, url) = [rest EXCEPT !.block = block]
    BY DEF WithBlock
<1> HIDE DEF rest, block
<1>5. [rest EXCEPT !.block = block] \in EtcText /\ [rest EXCEPT !.block = block].block = block
    BY <1>1, <1>3 DEF EtcText
<1>q. QED
    BY <1>3, <1>4, <1>5 DEF Clean

LEMMA NewTextClean ==
    ASSUME NEW p \in Proc, NEW c \in Calls(p), NEW text \in Clean
    PROVE  NewText(c, text) \in Clean
<1>1. CASE p \in Editors
    <2>1. c.do = "edit" /\ c.line \in Other
        BY <1>1 DEF Calls
    <2>2. [text EXCEPT !.others = @ \cup {c.line}] \in Clean
        BY <2>1 DEF Clean, EtcText
    <2>q. QED
        BY <2>1, <2>2 DEF NewText
<1>2. CASE p \notin Editors
    <2>1. c.do = "clear" \/ (c.do = "set" /\ c.url \in Url)
        BY <1>2 DEF Calls
    <2>q. QED
        BY <2>1, StripClean, WithBlockClean DEF NewText
<1>q. QED
    BY <1>1, <1>2

\* Clean texts are texts, and none of the values that stand for none.
LEMMA CleanText == Clean \subseteq Text /\ None \notin Clean \cup {Absent} /\ Absent \notin Clean
BY EtcAssumption, AtomicFileAssumption DEF Clean

-----------------------------------------------------------------------------
(* The steps.                                                              *)

\* The part of EtcInv about the file and what is being written.
FileClean == /\ file \in Clean \cup {Absent, Torn}
             /\ want \in [Proc -> Clean \cup {Absent, None}]

\* The part about the calls.
CallsClean == /\ read \in [Proc -> Clean \cup {None}]
              /\ saved \in [Restorers -> Clean \cup {Absent, None}]
              /\ DOMAIN call = Proc /\ \A p \in Proc : CallOK(p)

LEMMA InvParts == EtcInv <=> IndInv /\ FileClean /\ CallsClean
BY DEF EtcInv, FileClean, CallsClean

LEMMA EtcInitInv == EtcInit => EtcInv
<1> SUFFICES ASSUME EtcInit PROVE EtcInv
    OBVIOUS
<1>1. IndInv
    BY InitInv DEF EtcInit
<1>2. FileClean
    BY EtcAssumption, AtomicFileAssumption DEF EtcInit, Init, FileClean, Clean
<1>3. CallsClean
    BY DEF EtcInit, CallsClean, CallOK, NoCall
<1>q. QED
    BY <1>1, <1>2, <1>3, InvParts

LEMMA BeginStep ==
    ASSUME EtcInv, NEW p \in Proc, NEW text \in Clean \cup {Absent}, Begin(p, text)
    PROVE  Next /\ FileClean'
<1>1. text \in Text \cup {Absent}
    BY CleanText
<1>2. Next
    BY <1>1 DEF Next
<1>3. FileClean'
    BY DEF Begin, EtcInv, FileClean
<1>q. QED
    BY <1>2, <1>3

LEMMA ContinueStep ==
    ASSUME EtcInv, NEW p \in Proc, Continue(p)
    PROVE  Next /\ FileClean'
<1>1. Next
    BY DEF Next
<1>2. file' \in {file, want[p], Absent, Torn} /\ (file' = want[p] => file' = file \/ want[p] # None)
    BY DEF Continue, CreateTemp, CreateDenied, CreateFails, Write, Sync, Rename, Fail, Truncate,
        OpenDenied, Pour, PourFails, Remove, RemoveFails, EtcInv, IndInv, Safe
<1>3. want' = want \/ want' = [want EXCEPT ![p] = None]
    BY DEF Continue, CreateTemp, CreateDenied, CreateFails, Write, Sync, Rename, Fail, Truncate,
        OpenDenied, Pour, PourFails, Remove, RemoveFails, Return
<1>4. FileClean'
    BY <1>2, <1>3 DEF EtcInv, FileClean
<1>q. QED
    BY <1>1, <1>4

\* A call that is over, with or without the snapshot being used up.
LEMMA LeaveStep ==
    ASSUME EtcInv, NEW p \in Proc, Leave(p),
           saved' = saved \/ saved' = [saved EXCEPT ![p] = None]
    PROVE  CallsClean'
<1> USE InvParts
<1>1. ASSUME NEW q \in Proc PROVE CallOK(q)'
    <2>1. CASE q = p
        <3>1. call'[q] = NoCall /\ read'[q] = None
            BY <2>1 DEF Leave, CallsClean
        <3>q. QED
            BY <3>1 DEF CallOK, NoCall
    <2>2. CASE q # p
        <3>1. call'[q] = call[q] /\ read'[q] = read[q] /\ (q \in Restorers => saved'[q] = saved[q])
            BY <2>2 DEF Leave, CallsClean
        <3>2. CallOK(q)
            BY DEF CallsClean
        <3>q. QED
            BY <3>1, <3>2 DEF CallOK, Calls
    <2>q. QED
        BY <2>1, <2>2
<1>2. read' \in [Proc -> Clean \cup {None}] /\ saved' \in [Restorers -> Clean \cup {Absent, None}]
    BY DEF Leave, CallsClean
<1>3. DOMAIN call' = Proc
    BY DEF Leave, CallsClean
<1>q. QED
    BY <1>1, <1>2, <1>3 DEF CallsClean

\* A call that goes on to writeFileAtomic.
LEMMA WaitStep ==
    ASSUME EtcInv, NEW p \in Proc, call' = [call EXCEPT ![p] = [did |-> @, do |-> "wait"]],
           UNCHANGED read, saved' = saved \/ saved' = [saved EXCEPT ![p] = None]
    PROVE  CallsClean'
<1> USE InvParts
<1>1. ASSUME NEW q \in Proc PROVE CallOK(q)'
    <2>1. CASE q = p
        <3>1. call'[q].do = "wait"
            BY <2>1 DEF CallsClean
        <3>q. QED
            BY <3>1 DEF CallOK
    <2>2. CASE q # p
        <3>1. call'[q] = call[q] /\ read'[q] = read[q] /\ (q \in Restorers => saved'[q] = saved[q])
            BY <2>2 DEF CallsClean
        <3>2. CallOK(q)
            BY DEF CallsClean
        <3>q. QED
            BY <3>1, <3>2 DEF CallOK, Calls
    <2>q. QED
        BY <2>1, <2>2
<1>2. read' \in [Proc -> Clean \cup {None}] /\ saved' \in [Restorers -> Clean \cup {Absent, None}]
    BY DEF CallsClean
<1>3. DOMAIN call' = Proc
    BY DEF CallsClean
<1>q. QED
    BY <1>1, <1>2, <1>3 DEF CallsClean

\* What a step of each kind does to the file and to the calls.
LEMMA EtcStep ==
    ASSUME EtcInv, [EtcNext]_etcVars
    PROVE  [Next]_fileVars /\ FileClean' /\ CallsClean'
<1> USE InvParts
<1>1. CASE UNCHANGED etcVars
    BY <1>1 DEF etcVars, fileVars, FileClean, CallsClean, CallOK
<1>2. ASSUME NEW p \in Proc, NEW c \in Calls(p), Lock(p, c)
      PROVE  [Next]_fileVars /\ FileClean' /\ CallsClean'
    <2>1. UNCHANGED fileVars /\ FileClean'
        BY <1>2 DEF Lock, fileVars, FileClean
    <2>2. \A q \in Proc : CallOK(q)'
        BY <1>2 DEF Lock, CallsClean, CallOK, Calls
    <2>3. CallsClean'
        BY <1>2, <2>2 DEF Lock, CallsClean
    <2>q. QED
        BY <2>1, <2>3
<1>3. ASSUME NEW p \in Proc, ReadFile(p)
      PROVE  [Next]_fileVars /\ FileClean' /\ CallsClean'
    <2>1. UNCHANGED fileVars /\ FileClean'
        BY <1>3 DEF ReadFile, fileVars, FileClean
    <2>2. Lines(file) \in Clean
        BY LinesClean DEF FileClean
    <2>3. call[p] \in Calls(p)
        BY <1>3 DEF ReadFile, InCall, CallsClean, CallOK, NoCall
    <2>4. CASE Leave(p)
        BY <1>3, <2>1, <2>4, LeaveStep DEF ReadFile
    <2>5. CASE ~Leave(p)
        <3>1. read' = [read EXCEPT ![p] = Lines(file)] /\ UNCHANGED <<fileMu, call, saved>>
            BY <1>3, <2>5 DEF ReadFile
        <3>2. \A q \in Proc : CallOK(q)'
            BY <2>3, <3>1 DEF CallsClean, CallOK, Calls
        <3>3. CallsClean'
            BY <2>2, <3>1, <3>2 DEF CallsClean
        <3>q. QED
            BY <2>1, <3>3
    <2>q. QED
        BY <2>4, <2>5
<1>4. ASSUME NEW p \in Proc, ReadFails(p) \/ Returns(p)
      PROVE  [Next]_fileVars /\ FileClean' /\ CallsClean'
    <2>1. UNCHANGED fileVars /\ FileClean'
        BY <1>4 DEF ReadFails, Returns, fileVars, FileClean
    <2>2. CallsClean'
        BY <1>4, LeaveStep DEF ReadFails, Returns
    <2>q. QED
        BY <2>1, <2>2
<1>5. ASSUME NEW p \in Proc, Replace(p)
      PROVE  [Next]_fileVars /\ FileClean' /\ CallsClean'
    <2>1. call[p] \in Calls(p) /\ read[p] \in Clean
        BY <1>5 DEF Replace, CallsClean, CallOK
    <2>2. NewText(call[p], read[p]) \in Clean
        BY <2>1, NewTextClean
    <2>3. Next /\ FileClean'
        BY <1>5, <2>2, BeginStep DEF Replace
    <2>4. CallsClean'
        BY <1>5, WaitStep DEF Replace
    <2>q. QED
        BY <2>3, <2>4
<1>6. ASSUME NEW p \in Proc, FileStep(p)
      PROVE  [Next]_fileVars /\ FileClean' /\ CallsClean'
    <2>1. Next /\ FileClean'
        BY <1>6, ContinueStep DEF FileStep
    <2>2. CallsClean'
        BY <1>6 DEF FileStep, etcOnly, CallsClean, CallOK, Calls
    <2>q. QED
        BY <2>1, <2>2
<1>7. ASSUME NEW p \in Restorers, Snapshot(p) \/ StartRestore(p)
      PROVE  [Next]_fileVars /\ FileClean' /\ CallsClean'
    <2>1. UNCHANGED fileVars /\ FileClean'
        BY <1>7 DEF Snapshot, StartRestore, fileVars, FileClean
    <2>2. p \in Proc /\ (file = Absent \/ Lines(file) \in Clean)
        BY EtcAssumption, LinesClean DEF FileClean
    <2>3. ASSUME NEW q \in Proc PROVE CallOK(q)'
        <3>1. CallOK(q)
            BY DEF CallsClean
        <3>2. CASE Snapshot(p)
            BY <2>2, <3>1, <3>2 DEF Snapshot, Free, CallsClean, CallOK, Calls, NoCall
        <3>3. CASE StartRestore(p) /\ q = p
            <4>1. call'[q] = [do |-> "restore"] /\ saved'[q] # None
                BY <2>2, <3>3 DEF StartRestore, CallsClean
            <4>2. read'[q] = None
                BY <2>2, <3>1, <3>3 DEF StartRestore, Free, CallOK, Calls, NoCall
            <4>q. QED
                BY <4>1, <4>2 DEF CallOK
        <3>4. CASE StartRestore(p) /\ q # p
            BY <2>2, <3>1, <3>4 DEF StartRestore, CallsClean, CallOK, Calls
        <3>q. QED
            BY <1>7, <3>2, <3>3, <3>4
    <2>4. CallsClean'
        BY <1>7, <2>2, <2>3 DEF Snapshot, StartRestore, CallsClean
    <2>q. QED
        BY <2>1, <2>4
<1>8. ASSUME NEW p \in Restorers, CompareAndRestore(p)
      PROVE  [Next]_fileVars /\ FileClean' /\ CallsClean'
    <2>0. p \in Proc
        BY EtcAssumption
    <2>1. CASE Leave(p) /\ UNCHANGED fileVars
        <3>1. FileClean'
            BY <2>1 DEF fileVars, FileClean
        <3>2. CallsClean'
            BY <1>8, <2>0, <2>1, LeaveStep DEF CompareAndRestore
        <3>q. QED
            BY <2>1, <3>1, <3>2
    <2>2. CASE ~(Leave(p) /\ UNCHANGED fileVars)
        <3>1. Begin(p, saved[p])
            BY <1>8, <2>2 DEF CompareAndRestore
        <3>2. saved[p] \in Clean \cup {Absent}
            BY <1>8, <2>0 DEF CompareAndRestore, InCall, CallsClean, CallOK
        <3>3. Next /\ FileClean'
            BY <2>0, <3>1, <3>2, BeginStep
        <3>4. CallsClean'
            BY <1>8, <2>0, <2>2, WaitStep DEF CompareAndRestore
        <3>q. QED
            BY <3>3, <3>4
    <2>q. QED
        BY <2>1, <2>2
<1>9. CASE Background
    BY <1>9 DEF Background, Flush, Next, etcOnly, FileClean, CallsClean, CallOK, Calls
<1>10. CASE Dies
    <2>1. Next /\ FileClean'
        BY <1>10 DEF Dies, Crash, Next, FileClean
    <2>2. CallsClean'
        BY <1>10 DEF Dies, CallsClean, CallOK, NoCall
    <2>q. QED
        BY <2>1, <2>2
<1>q. QED
    BY <1>1, <1>2, <1>3, <1>4, <1>5, <1>6, <1>7, <1>8, <1>9, <1>10 DEF EtcNext

LEMMA EtcInvariance == EtcSpec => [](EtcInv /\ Counters)
<1>1. EtcInit => EtcInv /\ Counters
    BY EtcInitInv, InitCounters DEF EtcInit
<1>2. (EtcInv /\ Counters) /\ [EtcNext]_etcVars => (EtcInv /\ Counters)'
    <2> SUFFICES ASSUME EtcInv, Counters, [EtcNext]_etcVars PROVE EtcInv' /\ Counters'
        OBVIOUS
    <2>1. [Next]_fileVars /\ FileClean' /\ CallsClean'
        BY EtcStep
    <2>2. IndInv' /\ Counters'
        BY <2>1, NextInv, NextCounters DEF EtcInv
    <2>q. QED
        BY <2>1, <2>2 DEF EtcInv, FileClean, CallsClean
<1>q. QED
    BY <1>1, <1>2, PTL DEF EtcSpec

\* Every variable keeps its type.
THEOREM EtcTypes == EtcSpec => []EtcTypeOK
<1> DEFINE Mine == fileMu \in Proc \cup {None} /\ ops \in 0..MaxOps
<1>1. EtcInit => Mine
    BY EtcAssumption DEF EtcInit
<1>2. Mine /\ [EtcNext]_etcVars => Mine'
    <2> SUFFICES ASSUME Mine, [EtcNext]_etcVars PROVE Mine'
        OBVIOUS
    <2>1. CASE UNCHANGED <<fileMu, ops>>
        BY <2>1
    <2>2. ASSUME NEW p \in Proc, NEW c \in Calls(p), Lock(p, c) PROVE Mine'
        BY <2>2, EtcAssumption DEF Lock
    <2>3. ASSUME NEW p \in Proc, ReadFile(p) \/ ReadFails(p) \/ Replace(p) \/ Returns(p) \/ FileStep(p)
          PROVE  Mine'
        BY <2>3 DEF ReadFile, ReadFails, Replace, Returns, FileStep, Leave, etcOnly
    <2>4. ASSUME NEW p \in Restorers, Snapshot(p) \/ StartRestore(p) \/ CompareAndRestore(p) PROVE Mine'
        BY <2>4 DEF Snapshot, StartRestore, CompareAndRestore, Leave
    <2>5. CASE Background \/ Dies
        BY <2>5 DEF Background, Dies, etcOnly
    <2>q. QED
        BY <2>1, <2>2, <2>3, <2>4, <2>5 DEF EtcNext, etcVars
<1>3. EtcInv /\ Counters /\ Mine => EtcTypeOK
    <2>1. IndInv /\ Counters => FileTypeOK
        BY DEF IndInv, Types, Counters, FileTypeOK
    <2>q. QED
        BY <2>1, CleanText DEF EtcInv, EtcTypeOK
<1>q. QED
    BY <1>1, <1>2, <1>3, EtcInvariance, PTL DEF EtcSpec

\* Set, Unset, snapshots and restores of any number of goroutines use the file
\* only through writeFileAtomic, so a program that reads /etc/environment sees
\* what its contract promises.
THEOREM EtcKeepsContract == EtcSpec => KeepsContract
<1>1. EtcInit => Init
    BY DEF EtcInit
<1>2. EtcInv /\ Counters /\ [EtcNext]_etcVars => [Next]_fileVars
    BY EtcStep
<1>3. EtcSpec => Spec
    BY <1>1, <1>2, EtcInvariance, PTL DEF EtcSpec, Spec
<1>q. QED
    BY <1>3, Implements

\* "a password must never end up there": not in the file, and not in what is
\* being written, whatever the interleaving, the failures and the crashes.
THEOREM NoLogins == EtcSpec => []NoLoginInFile
<1>1. EtcInv => NoLoginInFile
    BY CleanText, EtcAssumption, AtomicFileAssumption DEF EtcInv, NoLoginInFile, Clean
<1>q. QED
    BY <1>1, EtcInvariance, PTL

-----------------------------------------------------------------------------
(* The mutex.                                                              *)

\* Who is in a critical section holds fileMu: from the first line of a set,
\* clear or edit to its return; in a restore nobody does.
MutexOK(p) ==
    /\ call[p] \in Calls(p) \/ read[p] # None => fileMu = p
    /\ pc[p] # "idle" => call[p].do = "wait"
    /\ call[p].do = "wait" =>
          \/ call[p].did.do = "restore" /\ p \in Restorers /\ read[p] = None
          \/ call[p].did.do # "restore" /\ fileMu = p /\ pc[p] # "remove"

MutexInv == \A p \in Proc : MutexOK(p)

LEMMA MutexInit == EtcInit => MutexInv
<1> SUFFICES ASSUME EtcInit, NEW p \in Proc PROVE MutexOK(p)
    BY DEF MutexInv
<1>1. call[p] = NoCall /\ read[p] = None /\ pc[p] = "idle"
    BY DEF EtcInit, Init
<1>2. NoCall \notin Calls(p) /\ NoCall.do # "wait"
    BY DEF Calls, NoCall
<1>q. QED
    BY <1>1, <1>2 DEF MutexOK

\* A call that is over gives up fileMu if it has it, and only then.
LEMMA LeaveMutex ==
    ASSUME EtcInv, MutexInv, NEW p \in Proc, pc[p] = "idle", Leave(p), UNCHANGED pc
    PROVE  MutexInv'
<1> SUFFICES ASSUME NEW q \in Proc PROVE MutexOK(q)'
    BY DEF MutexInv
<1>1. CASE q = p
    <2>1. call'[q] = NoCall /\ read'[q] = None
        BY <1>1 DEF Leave, EtcInv
    <2>q. QED
        BY <1>1, <2>1 DEF MutexOK, Calls, NoCall
<1>2. CASE q # p
    <2>1. call'[q] = call[q] /\ read'[q] = read[q]
        BY <1>2 DEF Leave, EtcInv
    <2>2. fileMu = q => fileMu' = q
        BY <1>2 DEF Leave
    <2>q. QED
        BY <2>1, <2>2 DEF MutexInv, MutexOK, Calls
<1>q. QED
    BY <1>1, <1>2

\* A call of p that goes on to writeFileAtomic or os.Remove.
LEMMA WaitMutex ==
    ASSUME EtcInv, MutexInv, NEW p \in Proc, NEW text \in Text \cup {Absent}, Begin(p, text),
           call' = [call EXCEPT ![p] = [did |-> @, do |-> "wait"]], UNCHANGED <<fileMu, read>>,
           \/ call[p].do = "restore" /\ p \in Restorers /\ read[p] = None
           \/ call[p].do # "restore" /\ fileMu = p /\ text # Absent
    PROVE  MutexInv'
<1> SUFFICES ASSUME NEW q \in Proc PROVE MutexOK(q)'
    BY DEF MutexInv
<1>1. CASE q = p
    <2>1. call'[q] = [did |-> call[p], do |-> "wait"]
        BY <1>1 DEF EtcInv
    <2>2. pc'[q] = (IF text = Absent THEN "remove" ELSE "create")
        BY <1>1 DEF Begin, Goto, EtcInv, IndInv, Types
    <2>3. call'[q] \notin Calls(q)
        BY <2>1 DEF Calls
    <2>q. QED
        BY <1>1, <2>1, <2>2, <2>3 DEF MutexOK, MutexInv
<1>2. CASE q # p
    <2>1. call'[q] = call[q] /\ pc'[q] = pc[q]
        BY <1>2 DEF Begin, Goto, EtcInv, IndInv, Types
    <2>q. QED
        BY <2>1 DEF MutexInv, MutexOK, Calls
<1>q. QED
    BY <1>1, <1>2

LEMMA MutexStep ==
    ASSUME EtcInv, MutexInv, [EtcNext]_etcVars PROVE MutexInv'
<1>1. CASE UNCHANGED etcVars
    BY <1>1 DEF etcVars, fileVars, MutexInv, MutexOK, Calls
<1>2. ASSUME NEW p \in Proc, NEW c \in Calls(p), Lock(p, c) PROVE MutexInv'
    <2> SUFFICES ASSUME NEW q \in Proc PROVE MutexOK(q)'
        BY DEF MutexInv
    <2>1. fileMu # q
        BY <1>2, EtcAssumption DEF Lock
    <2>2. CASE q = p
        <3>1. call'[q] = c /\ pc'[q] = "idle" /\ fileMu' = p
            BY <1>2, <2>2 DEF Lock, Free, fileVars, EtcInv
        <3>2. c.do # "wait"
            BY DEF Calls
        <3>q. QED
            BY <2>2, <3>1, <3>2 DEF MutexOK
    <2>3. CASE q # p
        <3>1. call'[q] = call[q] /\ pc'[q] = pc[q] /\ read'[q] = read[q]
            BY <1>2, <2>3 DEF Lock, fileVars, EtcInv
        <3>q. QED
            BY <2>1, <3>1 DEF MutexInv, MutexOK, Calls
    <2>q. QED
        BY <2>2, <2>3
<1>3. ASSUME NEW p \in Proc, ReadFile(p) \/ ReadFails(p) \/ Returns(p) PROVE MutexInv'
    <2>1. pc[p] = "idle" /\ UNCHANGED pc
        BY <1>3 DEF ReadFile, ReadFails, Returns, InCall, fileVars
    <2>2. CASE Leave(p)
        BY <2>1, <2>2, LeaveMutex
    <2>3. CASE ~Leave(p)
        <3>1. ReadFile(p) /\ read' = [read EXCEPT ![p] = Lines(file)] /\ UNCHANGED <<fileMu, call>>
            BY <1>3, <2>3 DEF ReadFile, ReadFails, Returns
        <3>2. call[p] \in Calls(p)
            BY <3>1 DEF ReadFile, InCall, EtcInv, CallOK, NoCall
        <3>3. call[p].do # "wait"
            BY <3>2 DEF Calls
        <3>4. \A q \in Proc : q # p => read'[q] = read[q]
            BY <3>1 DEF EtcInv
        <3>q. QED
            BY <2>1, <3>1, <3>2, <3>3, <3>4 DEF MutexInv, MutexOK, Calls
    <2>q. QED
        BY <2>2, <2>3
<1>4. ASSUME NEW p \in Proc, Replace(p) PROVE MutexInv'
    <2>1. call[p] \in Calls(p) /\ read[p] \in Clean
        BY <1>4 DEF Replace, EtcInv, CallOK
    <2>2. NewText(call[p], read[p]) \in Clean
        BY <2>1, NewTextClean
    <2>3. NewText(call[p], read[p]) \in Text \cup {Absent} /\ NewText(call[p], read[p]) # Absent
        BY <2>2, CleanText
    <2>4. call[p].do # "restore"
        BY <2>1 DEF Calls
    <2>5. fileMu = p
        BY <2>1 DEF MutexInv, MutexOK
    <2>q. QED
        BY <1>4, <2>3, <2>4, <2>5, WaitMutex DEF Replace
<1>5. ASSUME NEW p \in Proc, FileStep(p) PROVE MutexInv'
    <2>1. pc[p] # "idle" /\ \A q \in Proc : pc'[q] = pc[q] \/ (q = p /\ pc'[q] # "remove")
        BY <1>5 DEF FileStep, Continue, CreateTemp, CreateDenied, CreateFails, Write, Sync, Rename,
            Fail, Truncate, OpenDenied, Pour, PourFails, Remove, RemoveFails, Goto, Return,
            EtcInv, IndInv, Types
    <2>2. UNCHANGED <<fileMu, call, read>>
        BY <1>5 DEF FileStep, etcOnly
    <2>q. QED
        BY <2>1, <2>2 DEF MutexInv, MutexOK, Calls
<1>6. ASSUME NEW p \in Restorers, Snapshot(p) PROVE MutexInv'
    BY <1>6 DEF Snapshot, fileVars, MutexInv, MutexOK, Calls
<1>7. ASSUME NEW p \in Restorers, StartRestore(p) PROVE MutexInv'
    <2> SUFFICES ASSUME NEW q \in Proc PROVE MutexOK(q)'
        BY DEF MutexInv
    <2>1. p \in Proc /\ p \notin Editors
        BY EtcAssumption
    <2>2. CASE q = p
        <3>1. call'[q] = [do |-> "restore"] /\ pc'[q] = "idle"
            BY <1>7, <2>1, <2>2 DEF StartRestore, Free, fileVars, EtcInv
        <3>2. call'[q] \notin Calls(q)
            BY <3>1 DEF Calls
        <3>q. QED
            BY <1>7, <3>1, <3>2 DEF StartRestore, MutexInv, MutexOK
    <2>3. CASE q # p
        <3>1. call'[q] = call[q]
            BY <1>7, <2>1, <2>3 DEF StartRestore, EtcInv
        <3>q. QED
            BY <1>7, <3>1 DEF StartRestore, fileVars, MutexInv, MutexOK, Calls
    <2>q. QED
        BY <2>2, <2>3
<1>8. ASSUME NEW p \in Restorers, CompareAndRestore(p) PROVE MutexInv'
    <2>1. p \in Proc /\ pc[p] = "idle" /\ call[p].do = "restore"
        BY <1>8, EtcAssumption DEF CompareAndRestore, InCall
    <2>2. CASE Leave(p) /\ UNCHANGED fileVars
        BY <2>1, <2>2, LeaveMutex DEF fileVars
    <2>3. CASE ~(Leave(p) /\ UNCHANGED fileVars)
        <3>1. read[p] = None
            BY <2>1 DEF EtcInv, CallOK, Calls
        <3>2. saved[p] \in Text \cup {Absent}
            BY <2>1, CleanText DEF EtcInv, CallOK
        <3>q. QED
            BY <1>8, <2>1, <2>3, <3>1, <3>2, WaitMutex DEF CompareAndRestore
    <2>q. QED
        BY <2>2, <2>3
<1>9. CASE Background
    BY <1>9 DEF Background, Flush, etcOnly, MutexInv, MutexOK, Calls
<1>10. CASE Dies
    BY <1>10 DEF Dies, Crash, MutexInv, MutexOK, Calls, NoCall
<1>q. QED
    BY <1>1, <1>2, <1>3, <1>4, <1>5, <1>6, <1>7, <1>8, <1>9, <1>10 DEF EtcNext

\* What a step may do to the file while p is between its read and its write.
LEMMA Intervention ==
    ASSUME EtcInv, MutexInv, Counters, EtcNext, NEW p \in Proc,
           read[p] # None, file' # file, crashes' = crashes, ~Writes(p)
    PROVE  \/ pc[p] \in {"open", "pour"}
           \/ \E q \in Restorers : call[q].do = "wait" /\ call[q].did.do = "restore"
<1>1. \E q \in Proc : FileStep(q)
    BY DEF EtcNext, Lock, ReadFile, ReadFails, Replace, Returns, Snapshot, StartRestore,
        CompareAndRestore, Begin, Background, Flush, Dies, Crash, Counters, fileVars
<1>2. PICK q \in Proc : FileStep(q)
    BY <1>1
<1>3. fileMu = p
    BY DEF MutexInv, MutexOK
<1>4. call[q].do = "wait"
    <2>1. pc[q] # "idle"
        BY <1>2 DEF FileStep, Continue, CreateTemp, CreateDenied, CreateFails, Write, Sync, Rename,
            Fail, Truncate, OpenDenied, Pour, PourFails, Remove, RemoveFails
    <2>q. QED
        BY <2>1 DEF MutexInv, MutexOK
<1>5. CASE call[q].did.do = "restore"
    BY <1>4, <1>5 DEF MutexInv, MutexOK
<1>6. CASE call[q].did.do # "restore"
    <2>1. q = p /\ pc[p] # "remove"
        BY <1>3, <1>4, <1>6 DEF MutexInv, MutexOK
    <2>2. Rename(p) \/ Truncate(p) \/ Pour(p) \/ PourFails(p)
        BY <1>2, <2>1 DEF FileStep, Continue, CreateTemp, CreateDenied, CreateFails, Write, Sync,
            Fail, OpenDenied, Remove, RemoveFails
    <2>3. ~Rename(p)
        BY DEF Rename, Writes
    <2>q. QED
        BY <2>2, <2>3 DEF Truncate, Pour, PourFails
<1>q. QED
    BY <1>5, <1>6

\* "serialised inside one process" (THREAT_MODEL, T3), as far as the code
\* goes: between the read and the replacement of a set or clear only a restore
\* changes /etc/environment, for any number of goroutines.
THEOREM OnlyRestores == EtcSpec => OnlyRestoreIntervenes
<1> DEFINE Intervenes ==
        \A p \in Proc : read[p] # None /\ file' # file /\ crashes' = crashes /\ ~Writes(p)
          => \/ pc[p] \in {"open", "pour"}
             \/ \E q \in Restorers : call[q].do = "wait" /\ call[q].did.do = "restore"
<1>1. EtcInit => MutexInv
    BY MutexInit
<1>2. EtcInv /\ MutexInv /\ [EtcNext]_etcVars => MutexInv'
    BY MutexStep
<1>3. EtcInv /\ Counters /\ MutexInv /\ [EtcNext]_etcVars => [Intervenes]_etcVars
    BY Intervention
<1>4. EtcSpec => [](EtcInv /\ Counters)
    BY EtcInvariance
<1> HIDE DEF Intervenes
<1>5. EtcSpec => [][Intervenes]_etcVars
    BY <1>1, <1>2, <1>3, <1>4, PTL DEF EtcSpec
<1>q. QED
    BY <1>5 DEF Intervenes, OnlyRestoreIntervenes

-----------------------------------------------------------------------------
(* What the administrator has put in.                                      *)

Below(old, new) == AdminKeeps(Lines(old), Lines(new))

LEMMA BelowOrder ==
    /\ \A a : Below(a, a)
    /\ \A a, b, c : Below(a, b) /\ Below(b, c) => Below(a, c)
BY DEF Below, AdminKeeps

LEMMA LinesOf ==
    /\ \A text \in Clean : Lines(text) = text
    /\ Lines(EmptyText) = EmptyText
    /\ \A content \in Clean \cup {Absent, Torn} : Lines(Lines(content)) = Lines(content)
<1>1. Torn \notin Clean
    BY EtcAssumption, AtomicFileAssumption DEF Clean
<1>2. \A text \in Clean : Lines(text) = text
    BY <1>1, CleanText DEF Lines
<1>q. QED
    BY <1>2, EmptyClean, LinesClean

\* What a set, clear or edit makes of a text keeps what is the administrator's.
LEMMA NewTextKeeps ==
    ASSUME NEW p \in Proc, NEW c \in Calls(p), NEW text \in Clean
    PROVE  Below(text, NewText(c, text))
<1>1. Lines(text) = text /\ Lines(NewText(c, text)) = NewText(c, text)
    BY LinesOf, NewTextClean
<1>2. text \in EtcText
    BY DEF Clean
<1>3. AdminKeeps(text, Strip(text))
    BY <1>2 DEF AdminKeeps, Strip, EtcText
<1>4. ASSUME NEW url PROVE AdminKeeps(text, WithBlock(text, url))
    <2>1. PICK rest : rest = Strip(text)
        OBVIOUS
    <2>2. rest \in EtcText
        BY <2>1, StripClean DEF Clean
    <2>3. WithBlock(text, url).others = rest.others /\ WithBlock(text, url).bypass = rest.bypass
        BY <2>1, <2>2 DEF WithBlock, EtcText
    <2>q. QED
        BY <1>3, <2>1, <2>3 DEF AdminKeeps
<1>5. ASSUME NEW line PROVE AdminKeeps(text, [text EXCEPT !.others = @ \cup {line}])
    BY <1>2 DEF AdminKeeps, EtcText
<1>6. AdminKeeps(text, NewText(c, text))
    BY <1>3, <1>4, <1>5 DEF NewText
<1>q. QED
    BY <1>1, <1>6 DEF Below

LEMMA WithBlockSays ==
    ASSUME NEW text \in Clean, NEW url \in Url
    PROVE  LET new == WithBlock(text, url)
           IN  /\ new.block # None /\ new.block.url.host = url.host
               /\ \A k \in NoProxyName : k \in new.block.adds <=> new.bypass[k] = "none"
<1>1. PICK rest : rest = Strip(text)
    OBVIOUS
<1>2. rest \in EtcText
    BY <1>1, StripClean DEF Clean
<1>3. PICK block : block = [url |-> Sanitize(url), adds |-> {k \in NoProxyName : rest.bypass[k] = "none"}]
    OBVIOUS
<1>4. WithBlock(text, url).block = block /\ WithBlock(text, url).bypass = rest.bypass
    BY <1>1, <1>2, <1>3 DEF WithBlock, EtcText
<1>5. block.url.host = url.host
    BY <1>3 DEF Sanitize, Url
<1>6. block # None
    <2>1. Sanitize(url) \in Url
        BY DEF Url, Sanitize
    <2>2. block \in Block
        BY <1>3, <2>1 DEF Block
    <2>q. QED
        BY <2>2, EtcAssumption
<1>q. QED
    BY <1>3, <1>4, <1>5, <1>6

\* What a restorer has read, or is about to write back.
Restoring(r) == call[r].do = "wait" /\ call[r].did.do = "restore"
Recalls(r, t) == r \in Restorers /\ t # None /\ (t = saved[r] \/ (Restoring(r) /\ t = want[r]))

\* Between the read and the write of a set, clear or edit.
Pending(p) == read[p] # None /\ (call[p].do = "wait" => want[p] # None)

\* Nothing of the administrator's in the file is missing in what was read of
\* it, since that was as much, and only a restore takes some of it away.
KeepsUp(r, p) ==
    /\ Pending(p) => /\ Below(file, read[p])
                     /\ \A t : Recalls(r, t) => Below(t, read[p])
    /\ call[p].do = "wait" /\ call[p].did.do # "restore" /\ want[p] # None =>
          call[p].did \in Calls(p) /\ read[p] # None /\ want[p] = NewText(call[p].did, read[p])

LooksBack(r) ==
    /\ \A t : Recalls(r, t) => Below(t, file)
    /\ r \in Restorers /\ Restoring(r) => saved[r] = None

KeepInv(r) == writable => LooksBack(r) /\ \A p \in Proc : KeepsUp(r, p)

\* A step of p that leaves the file.
LEMMA KeepStays ==
    ASSUME NEW r, NEW p \in Proc, KeepInv(r), UNCHANGED <<file, writable>>,
           \A q \in Proc \ {p} : read'[q] = read[q] /\ call'[q] = call[q] /\ want'[q] = want[q],
           \A t : Recalls(r, t)' => Recalls(r, t),
           r \in Restorers /\ Restoring(r)' => saved'[r] = None,
           writable => KeepsUp(r, p)'
    PROVE  KeepInv(r)'
<1> SUFFICES ASSUME writable PROVE LooksBack(r)' /\ \A q \in Proc : KeepsUp(r, q)'
    BY DEF KeepInv
<1>1. LooksBack(r) /\ \A q \in Proc : KeepsUp(r, q)
    BY DEF KeepInv
<1>2. LooksBack(r)'
    BY <1>1 DEF LooksBack
<1>3. ASSUME NEW q \in Proc \ {p} PROVE KeepsUp(r, q)'
    <2>1. Calls(q)' = Calls(q)
        BY DEF Calls
    <2>q. QED
        BY <1>1, <2>1 DEF KeepsUp, Pending
<1>q. QED
    BY <1>2, <1>3

\* A goroutine that has no text, and waits for nothing, has nothing to keep.
LEMMA NothingToKeep ==
    ASSUME NEW r, NEW p, read'[p] = None, call'[p].do = "wait" => call'[p].did.do = "restore"
    PROVE  KeepsUp(r, p)'
BY DEF KeepsUp, Pending

LEMMA FileMoves ==
    ASSUME EtcInv, NEW p \in Proc, FileStep(p), writable
    PROVE  /\ writable' /\ pc[p] # "idle" /\ \A q \in Proc \ {p} : want'[q] = want[q]
           /\ \/ want'[p] = want[p] /\ file' = file
              \/ want'[p] = None /\ (file' = file \/ file' = want[p])
<1>1. IndInv /\ Continue(p)
    BY DEF EtcInv, FileStep
<1>2. ~Truncate(p) /\ ~Pour(p) /\ ~PourFails(p)
    BY <1>1 DEF Truncate, Pour, PourFails, IndInv, Safe
<1>3. DOMAIN want = Proc
    BY <1>1 DEF IndInv, Types
<1>4. pc[p] = "remove" => want[p] = Absent
    BY <1>1 DEF IndInv, Safe
<1>q. QED
    BY <1>1, <1>2, <1>3, <1>4 DEF Continue, CreateTemp, CreateDenied, CreateFails, Write, Sync, Rename,
        Fail, OpenDenied, Remove, RemoveFails, Return, Goto

LEMMA LeaveKeep ==
    ASSUME NEW r, Restorers \subseteq {r}, EtcInv, NEW p \in Proc, KeepInv(r), Leave(p),
           UNCHANGED fileVars, saved' = saved \/ (p = r /\ r \in Restorers /\ saved'[r] = None)
    PROVE  KeepInv(r)'
<1>1. DOMAIN call = Proc /\ DOMAIN read = Proc
    BY DEF EtcInv
<1>2. /\ call'[p] = NoCall /\ read'[p] = None /\ NoCall.do = "none"
      /\ \A q \in Proc \ {p} : call'[q] = call[q] /\ read'[q] = read[q]
    BY <1>1 DEF Leave, NoCall
<1>3. UNCHANGED <<file, writable, want>>
    BY DEF fileVars
<1>4. KeepsUp(r, p)'
    BY <1>2, NothingToKeep
<1>5. r \in Proc \/ r \notin Restorers
    BY EtcAssumption
<1>6. \A t : Recalls(r, t)' => Recalls(r, t)
    BY <1>2, <1>3, <1>5 DEF Recalls, Restoring
<1>7. CASE ~writable
    BY <1>3, <1>7 DEF KeepInv
<1>8. CASE writable
    <2>1. r \in Restorers /\ Restoring(r)' => saved'[r] = None
        BY <1>2, <1>5, <1>8 DEF KeepInv, LooksBack, Restoring
    <2>q. QED
        BY <1>2, <1>3, <1>4, <1>6, <2>1, KeepStays
<1>q. QED
    BY <1>7, <1>8

LEMMA KeepStep ==
    ASSUME NEW r, Restorers \subseteq {r}, EtcInv, MutexInv, KeepInv(r), [EtcNext]_etcVars
    PROVE  KeepInv(r)'
<1>0. /\ DOMAIN call = Proc /\ DOMAIN read = Proc /\ DOMAIN want = Proc /\ DOMAIN saved = Restorers
      /\ read \in [Proc -> Clean \cup {None}] /\ file \in Clean \cup {Absent, Torn}
      /\ \A q \in Proc : CallOK(q) /\ MutexOK(q)
    BY DEF EtcInv, MutexInv
<1>a. r \in Restorers => r \in Proc /\ r \notin Editors
    BY EtcAssumption
<1>b. \A q \in Proc : \A c \in Calls(q) : c.do \in {"edit", "set", "clear"}
    BY DEF Calls
<1>c. NoCall.do = "none" /\ \A q \in Proc : NoCall \notin Calls(q)
    BY DEF NoCall, Calls
<1>1. CASE UNCHANGED etcVars
    <2>1. UNCHANGED <<file, writable, want, read, call, saved>>
        BY <1>1 DEF etcVars, fileVars
    <2>2. \A q : Calls(q)' = Calls(q)
        BY DEF Calls
    <2>q. QED
        BY <2>1, <2>2 DEF KeepInv, LooksBack, KeepsUp, Recalls, Restoring, Pending
<1>2. ASSUME NEW p \in Proc, NEW c \in Calls(p), Lock(p, c) PROVE KeepInv(r)'
    <2>1. /\ call'[p] = c /\ UNCHANGED <<file, writable, want, read, saved>>
          /\ \A q \in Proc \ {p} : call'[q] = call[q]
        BY <1>0, <1>2 DEF Lock, fileVars
    <2>2. call[p] = NoCall /\ c.do \in {"edit", "set", "clear"}
        BY <1>2, <1>b DEF Lock, Free
    <2>3. read[p] = None
        BY <1>0, <1>c, <2>2 DEF CallOK
    <2>4. KeepsUp(r, p)'
        BY <2>1, <2>2, <2>3, NothingToKeep
    <2>5. (\A t : Recalls(r, t)' => Recalls(r, t)) /\ (r \in Restorers /\ Restoring(r)' => Restoring(r))
        BY <1>a, <2>1, <2>2 DEF Recalls, Restoring
    <2>6. writable => (r \in Restorers /\ Restoring(r)' => saved'[r] = None)
        BY <2>1, <2>5 DEF KeepInv, LooksBack
    <2>7. CASE writable
        BY <2>1, <2>4, <2>5, <2>6, <2>7, KeepStays
    <2>8. CASE ~writable
        BY <2>1, <2>8 DEF KeepInv
    <2>q. QED
        BY <2>7, <2>8
<1>3. ASSUME NEW p \in Proc, ReadFile(p) \/ ReadFails(p) \/ Returns(p) PROVE KeepInv(r)'
    <2>1. UNCHANGED fileVars /\ saved' = saved
        BY <1>3 DEF ReadFile, ReadFails, Returns
    <2>2. CASE Leave(p)
        BY <2>1, <2>2, LeaveKeep
    <2>3. CASE ~Leave(p)
        <3>1. /\ ReadFile(p) /\ read' = [read EXCEPT ![p] = Lines(file)] /\ call' = call
              /\ UNCHANGED <<file, writable, want>>
            BY <1>3, <2>1, <2>3 DEF ReadFile, ReadFails, Returns, fileVars
        <3>2. call[p].do # "wait"
            BY <3>1 DEF ReadFile, InCall
        <3>3. /\ read'[p] = Lines(file) /\ \A q \in Proc \ {p} : read'[q] = read[q]
              /\ Lines(Lines(file)) = Lines(file)
            BY <1>0, <3>1, LinesOf
        <3>4. \A t : Below(t, file) => Below(t, Lines(file))
            BY <3>3 DEF Below
        <3>5. \A t : Recalls(r, t)' <=> Recalls(r, t)
            BY <2>1, <3>1 DEF Recalls, Restoring
        <3>6. Restoring(r)' <=> Restoring(r)
            BY <3>1 DEF Restoring
        <3>7. CASE writable
            <4>1. LooksBack(r)
                BY <3>7 DEF KeepInv
            <4>2. KeepsUp(r, p)'
                <5>1. Below(file, Lines(file)) /\ \A t : Recalls(r, t) => Below(t, Lines(file))
                    BY <3>4, <4>1, BelowOrder DEF LooksBack
                <5>q. QED
                    BY <3>1, <3>2, <3>3, <3>5, <5>1 DEF KeepsUp
            <4>q. QED
                BY <2>1, <3>1, <3>3, <3>5, <3>6, <4>1, <4>2, KeepStays DEF LooksBack
        <3>8. CASE ~writable
            BY <3>1, <3>8 DEF KeepInv
        <3>q. QED
            BY <3>7, <3>8
    <2>q. QED
        BY <2>2, <2>3
\* The text that is to be written is made of what was read.
<1>4. ASSUME NEW p \in Proc, Replace(p) PROVE KeepInv(r)'
    <2>1. call[p] \in Calls(p) /\ read[p] \in Clean /\ read[p] # None /\ call[p].do # "wait"
        BY <1>0, <1>4 DEF Replace, CallOK
    <2>2. /\ call'[p] = [did |-> call[p], do |-> "wait"] /\ want'[p] = NewText(call[p], read[p])
          /\ UNCHANGED <<file, writable, read, saved>>
          /\ \A q \in Proc \ {p} : call'[q] = call[q] /\ want'[q] = want[q]
        BY <1>0, <1>4 DEF Replace, Begin
    <2>3. call[p].do \in {"edit", "set", "clear"}
        BY <1>b, <2>1
    <2>4. call'[p].do = "wait" /\ call'[p].did = call[p] /\ Calls(p)' = Calls(p)
        BY <2>2 DEF Calls
    <2>5. \A t : Recalls(r, t)' => Recalls(r, t)
        BY <1>a, <2>2, <2>3, <2>4 DEF Recalls, Restoring
    <2>6. r \in Restorers /\ Restoring(r)' => Restoring(r)
        BY <1>a, <2>2, <2>3, <2>4 DEF Restoring
    <2>7. CASE writable
        <3>1. LooksBack(r) /\ KeepsUp(r, p)
            BY <2>7 DEF KeepInv
        <3>2. KeepsUp(r, p)'
            BY <2>1, <2>2, <2>4, <2>5, <3>1 DEF KeepsUp, Pending
        <3>q. QED
            BY <2>2, <2>5, <2>6, <3>1, <3>2, KeepStays DEF LooksBack
    <2>8. CASE ~writable
        BY <2>2, <2>8 DEF KeepInv
    <2>q. QED
        BY <2>7, <2>8
<1>5. ASSUME NEW p \in Proc, FileStep(p) PROVE KeepInv(r)'
    <2>1. UNCHANGED <<read, call, saved>>
        BY <1>5 DEF FileStep, etcOnly
    <2>2. CASE ~writable
        <3>1. writable' = writable
            BY <1>5 DEF FileStep, Continue, CreateTemp, CreateDenied, CreateFails, Write, Sync, Rename,
                Fail, Truncate, OpenDenied, Pour, PourFails, Remove, RemoveFails
        <3>q. QED
            BY <2>2, <3>1 DEF KeepInv
    <2>3. CASE writable
        <3>1. /\ writable' /\ pc[p] # "idle" /\ \A q \in Proc \ {p} : want'[q] = want[q]
              /\ \/ want'[p] = want[p] /\ file' = file
                 \/ want'[p] = None /\ (file' = file \/ file' = want[p])
            BY <1>5, <2>3, FileMoves
        <3>2. /\ LooksBack(r) /\ \A q \in Proc : KeepsUp(r, q)
              /\ \A q \in Proc : Calls(q)' = Calls(q)
            BY <2>3 DEF KeepInv, Calls
        <3>3. (\A t : Recalls(r, t)' => Recalls(r, t)) /\ (Restoring(r)' <=> Restoring(r))
            BY <1>a, <2>1, <3>1 DEF Recalls, Restoring
        <3>4. \A q \in Proc : Pending(q)' => Pending(q)
            BY <2>1, <3>1 DEF Pending
        <3>5. call[p].do = "wait"
            BY <1>0, <3>1 DEF MutexOK
        <3>6. ~Pending(p)' \/ file' = file
            BY <2>1, <3>1, <3>5 DEF Pending
        <3>7. ASSUME NEW q \in Proc
              PROVE  call'[q].do = "wait" /\ call'[q].did.do # "restore" /\ want'[q] # None =>
                        /\ call'[q].did \in Calls(q)' /\ read'[q] # None
                        /\ want'[q] = NewText(call'[q].did, read'[q])
            BY <2>1, <3>1, <3>2 DEF KeepsUp
        <3>8. CASE file' = file
            <4>1. \A q \in Proc : KeepsUp(r, q)'
                BY <2>1, <3>2, <3>3, <3>4, <3>7, <3>8 DEF KeepsUp
            <4>2. LooksBack(r)'
                BY <2>1, <3>2, <3>3, <3>8 DEF LooksBack
            <4>q. QED
                BY <4>1, <4>2 DEF KeepInv
        \* A restore: nothing of what the others have read is in the way.
        <3>9. CASE file' # file /\ call[p].did.do = "restore"
            <4>1. p = r /\ r \in Restorers /\ read[p] = None /\ Restoring(r)
                BY <1>0, <3>5, <3>9 DEF MutexOK, Restoring
            <4>2. want'[r] = None /\ file' = want[r] /\ saved[r] = None
                BY <3>1, <3>2, <3>9, <4>1 DEF LooksBack
            <4>3. want[r] # None
                BY <3>1, <4>1 DEF EtcInv, IndInv, Safe
            <4>4. Recalls(r, want[r]) /\ \A t : ~Recalls(r, t)'
                BY <2>1, <4>1, <4>2, <4>3 DEF Recalls
            <4>5. ASSUME NEW q \in Proc PROVE KeepsUp(r, q)'
                <5>1. Pending(q)' => Below(file', read'[q])
                    BY <2>1, <3>2, <3>4, <4>2, <4>4 DEF KeepsUp
                <5>q. QED
                    BY <3>7, <4>4, <5>1 DEF KeepsUp
            <4>6. LooksBack(r)'
                BY <2>1, <4>2, <4>4 DEF LooksBack
            <4>q. QED
                BY <4>5, <4>6 DEF KeepInv
        \* A set, clear or edit: nobody else is between a read and a write.
        <3>10. CASE file' # file /\ call[p].did.do # "restore"
            <4>1. fileMu = p /\ want'[p] = None /\ file' = want[p]
                BY <1>0, <3>1, <3>5, <3>10 DEF MutexOK
            <4>2. want[p] # None
                BY <3>1 DEF EtcInv, IndInv, Safe
            <4>3. /\ call[p].did \in Calls(p) /\ read[p] # None /\ want[p] = NewText(call[p].did, read[p])
                  /\ Pending(p)
                BY <3>2, <3>5, <3>10, <4>2 DEF KeepsUp, Pending
            <4>4. \A q \in Proc : Pending(q)' => q = p
                BY <1>0, <3>4, <4>1 DEF Pending, MutexOK
            <4>5. \A q \in Proc : KeepsUp(r, q)'
                BY <3>6, <3>7, <3>10, <4>4 DEF KeepsUp
            <4>6. Below(read[p], file')
                <5>1. read[p] \in Clean
                    BY <1>0, <4>3
                <5>q. QED
                    BY <4>1, <4>3, <5>1, NewTextKeeps
            <4>7. \A t : Recalls(r, t) => Below(t, file')
                BY <3>2, <4>3, <4>6, BelowOrder DEF KeepsUp
            <4>8. LooksBack(r)'
                BY <2>1, <3>2, <3>3, <4>7 DEF LooksBack
            <4>q. QED
                BY <4>5, <4>8 DEF KeepInv
        <3>q. QED
            BY <3>8, <3>9, <3>10
    <2>q. QED
        BY <2>2, <2>3
\* A snapshot: it is what the file says.
<1>6. ASSUME NEW p \in Restorers, Snapshot(p) PROVE KeepInv(r)'
    <2>1. p = r /\ r \in Proc /\ r \in Restorers
        BY <1>6, <1>a
    <2>2. /\ UNCHANGED <<file, writable, want, read, call>> /\ call[r] = NoCall
          /\ saved'[r] = (IF file = Absent THEN Absent ELSE Lines(file))
        BY <1>0, <1>6, <2>1 DEF Snapshot, Free, fileVars
    <2>3. Lines(saved'[r]) = Lines(file)
        BY <1>0, <2>2, LinesOf
    <2>4. ~Restoring(r) /\ ~Restoring(r)'
        BY <1>c, <2>2 DEF Restoring
    <2>5. \A t : Recalls(r, t)' => t = saved'[r]
        BY <2>4 DEF Recalls
    <2>6. \A x : Below(file, x) => Below(saved'[r], x)
        BY <2>3 DEF Below
    <2>7. \A q : Calls(q)' = Calls(q)
        BY DEF Calls
    <2>8. CASE writable
        <3>1. LooksBack(r)'
            BY <2>2, <2>4, <2>5, <2>6, BelowOrder DEF LooksBack
        <3>2. ASSUME NEW q \in Proc PROVE KeepsUp(r, q)'
            <4>1. KeepsUp(r, q) /\ (Pending(q)' <=> Pending(q))
                BY <2>2, <2>8 DEF KeepInv, Pending
            <4>2. Pending(q)' => Below(file', read'[q]) /\ \A t : Recalls(r, t)' => Below(t, read'[q])
                BY <2>2, <2>5, <2>6, <4>1 DEF KeepsUp
            <4>q. QED
                BY <2>2, <2>7, <4>1, <4>2 DEF KeepsUp
        <3>q. QED
            BY <3>1, <3>2 DEF KeepInv
    <2>9. CASE ~writable
        BY <2>2, <2>9 DEF KeepInv
    <2>q. QED
        BY <2>8, <2>9
<1>7. ASSUME NEW p \in Restorers, StartRestore(p) PROVE KeepInv(r)'
    <2>1. p = r /\ r \in Proc
        BY <1>7, <1>a
    <2>2. /\ UNCHANGED <<file, writable, want, read, saved>> /\ call[r] = NoCall
          /\ call'[r] = [do |-> "restore"] /\ \A q \in Proc \ {r} : call'[q] = call[q]
        BY <1>0, <1>7, <2>1 DEF StartRestore, Free, fileVars
    <2>3. read[r] = None
        BY <1>0, <1>c, <2>1, <2>2 DEF CallOK
    <2>4. ~Restoring(r)' /\ KeepsUp(r, r)'
        BY <2>2, <2>3, NothingToKeep DEF Restoring
    <2>5. \A t : Recalls(r, t)' => Recalls(r, t)
        BY <2>2, <2>4 DEF Recalls
    <2>q. QED
        BY <2>1, <2>2, <2>4, <2>5, KeepStays
\* From now on the restore wants what was saved.
<1>8. ASSUME NEW p \in Restorers, CompareAndRestore(p) PROVE KeepInv(r)'
    <2>1. p = r /\ r \in Proc /\ r \in Restorers /\ call[r].do = "restore" /\ saved'[r] = None
        BY <1>0, <1>8, <1>a DEF CompareAndRestore, InCall
    <2>2. CASE Leave(r) /\ UNCHANGED fileVars
        BY <2>1, <2>2, LeaveKeep
    <2>3. CASE ~(Leave(r) /\ UNCHANGED fileVars)
        <3>1. /\ Begin(r, saved[r]) /\ read' = read
              /\ call' = [call EXCEPT ![r] = [did |-> @, do |-> "wait"]]
            BY <1>8, <2>1, <2>3 DEF CompareAndRestore
        <3>2. /\ UNCHANGED <<file, writable>> /\ want'[r] = saved[r]
              /\ call'[r] = [did |-> call[r], do |-> "wait"]
              /\ \A q \in Proc \ {r} : call'[q] = call[q] /\ want'[q] = want[q]
            BY <1>0, <2>1, <3>1 DEF Begin
        <3>3. read[r] = None
            BY <1>0, <1>b, <2>1 DEF CallOK
        <3>4. KeepsUp(r, r)'
            BY <2>1, <3>1, <3>2, <3>3, NothingToKeep
        <3>5. \A t : Recalls(r, t)' => Recalls(r, t)
            BY <2>1, <3>2 DEF Recalls
        <3>q. QED
            BY <2>1, <3>1, <3>2, <3>4, <3>5, KeepStays
    <2>q. QED
        BY <2>1, <2>2, <2>3
<1>9. CASE Background
    <2>1. UNCHANGED <<file, writable, want, read, call, saved>>
        BY <1>9 DEF Background, Flush, etcOnly
    <2>2. \A q : Calls(q)' = Calls(q)
        BY DEF Calls
    <2>q. QED
        BY <2>1, <2>2 DEF KeepInv, LooksBack, KeepsUp, Recalls, Restoring, Pending
<1>10. CASE Dies
    <2>1. /\ \A q \in Proc : call'[q] = NoCall /\ read'[q] = None
          /\ \A q \in Restorers : saved'[q] = None
        BY <1>10 DEF Dies
    <2>2. r \in Restorers => ~Restoring(r)' /\ \A t : ~Recalls(r, t)'
        BY <1>a, <1>c, <2>1 DEF Restoring, Recalls
    <2>3. LooksBack(r)'
        BY <2>2 DEF LooksBack, Recalls
    <2>4. \A q \in Proc : KeepsUp(r, q)'
        BY <1>c, <2>1, NothingToKeep
    <2>q. QED
        BY <2>3, <2>4 DEF KeepInv
<1>q. QED
    BY <1>1, <1>2, <1>3, <1>4, <1>5, <1>6, <1>7, <1>8, <1>9, <1>10 DEF EtcNext

\* "leaving every other line (including a custom NO_PROXY) alone", for any
\* number of goroutines, editors, failures and crashes and one WithProxy that
\* restores at any moment: a set or clear takes nothing of the administrator's
\* out of the file as it is when it is replaced.
THEOREM AdminsLinesKept ==
    ASSUME NEW r, Restorers \subseteq {r} PROVE EtcSpec => SetAndClearKeep
<1> DEFINE Keeps ==
        \A p \in Proc : writable /\ Writes(p) /\ file \in Text /\ call[p].did.do # "restore" =>
          /\ AdminKeeps(file, file')
          /\ call[p].did.do = "clear" => file'.block = None
          /\ call[p].did.do = "set" =>
                /\ file'.block # None /\ file'.block.url.host = call[p].did.url.host
                /\ \A k \in NoProxyName : k \in file'.block.adds <=> file'.bypass[k] = "none"
<1>1. EtcInit => KeepInv(r)
    <2> SUFFICES ASSUME EtcInit PROVE KeepInv(r)
        OBVIOUS
    <2>1. /\ \A q \in Proc : call[q] = NoCall /\ read[q] = None
          /\ \A q \in Restorers : saved[q] = None /\ q \in Proc
        BY EtcAssumption DEF EtcInit
    <2>q. QED
        BY <2>1 DEF KeepInv, LooksBack, KeepsUp, Recalls, Restoring, Pending, NoCall
<1>2. EtcInv /\ MutexInv /\ KeepInv(r) /\ [EtcNext]_etcVars => KeepInv(r)'
    BY KeepStep
<1>3. EtcInit => MutexInv
    BY MutexInit
<1>4. EtcInv /\ MutexInv /\ [EtcNext]_etcVars => MutexInv'
    BY MutexStep
<1>5. EtcInv /\ MutexInv /\ KeepInv(r) /\ [EtcNext]_etcVars => [Keeps]_etcVars
    <2> SUFFICES ASSUME EtcInv, MutexInv, KeepInv(r), NEW p \in Proc, writable, Writes(p),
                        file \in Text, call[p].did.do # "restore"
                 PROVE  /\ AdminKeeps(file, file')
                        /\ call[p].did.do = "clear" => file'.block = None
                        /\ call[p].did.do = "set" =>
                              /\ file'.block # None /\ file'.block.url.host = call[p].did.url.host
                              /\ \A k \in NoProxyName : k \in file'.block.adds <=> file'.bypass[k] = "none"
        OBVIOUS
    <2>1. pc[p] = "rename" /\ file' = want[p] /\ want[p] # None
        BY DEF EtcInv, IndInv, Safe, Writes
    <2>2. call[p].do = "wait"
        BY <2>1 DEF MutexInv, MutexOK
    <2>3. /\ call[p].did \in Calls(p) /\ read[p] # None /\ want[p] = NewText(call[p].did, read[p])
          /\ Below(file, read[p])
        BY <2>1, <2>2 DEF KeepInv, KeepsUp, Pending
    <2>4. read[p] \in Clean /\ file \in Clean /\ want[p] \in Clean
        BY <2>1, <2>3, AtomicFileAssumption, NewTextClean DEF EtcInv
    <2>5. Below(file, want[p])
        BY <2>3, <2>4, NewTextKeeps, BelowOrder
    <2>6. AdminKeeps(file, file')
        BY <2>1, <2>4, <2>5, LinesOf DEF Below
    <2>7. call[p].did.do = "clear" => file'.block = None
        BY <2>1, <2>3, <2>4 DEF NewText, Strip, Clean, EtcText
    <2>8. ASSUME call[p].did.do = "set"
          PROVE  /\ file'.block # None /\ file'.block.url.host = call[p].did.url.host
                 /\ \A k \in NoProxyName : k \in file'.block.adds <=> file'.bypass[k] = "none"
        <3>1. call[p].did.url \in Url /\ file' = WithBlock(read[p], call[p].did.url)
            BY <2>1, <2>3, <2>8 DEF NewText, Calls
        <3>q. QED
            BY <2>4, <3>1, WithBlockSays
    <2>q. QED
        BY <2>6, <2>7, <2>8
<1>6. EtcSpec => [](EtcInv /\ Counters)
    BY EtcInvariance
<1> HIDE DEF Keeps
<1>7. EtcSpec => [][Keeps]_etcVars
    BY <1>1, <1>2, <1>3, <1>4, <1>5, <1>6, PTL DEF EtcSpec
<1>q. QED
    BY <1>7 DEF Keeps, SetAndClearKeep
=============================================================================
