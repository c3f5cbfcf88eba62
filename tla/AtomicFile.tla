----------------------------- MODULE AtomicFile -----------------------------
(***************************************************************************)
(* writeFileAtomic (fsutil.go), one action per system call that can fail   *)
(* or be cut off: a temporary file in the same directory is filled, given  *)
(* its mode and owner, synced, and renamed over the path.  Where the       *)
(* directory is not writable an existing file is written in place.  Any    *)
(* number of goroutines write the same path, the process dies or the       *)
(* machine loses its power between any two steps.                          *)
(*                                                                         *)
(* External: the file system.  A rename is taken to be durable at once, so *)
(* what was replaced does not come back; data that was not synced may be   *)
(* lost with the power.  Modes, owners and symbolic links are left out,    *)
(* as is what chown ignores.                                               *)
(***************************************************************************)
EXTENDS Naturals

CONSTANTS
    Proc,            \* the goroutines
    Text,            \* the texts a file may hold
    None, Absent, Torn,
    InitialFiles,    \* what the file may be at the beginning
    MaxFaults,       \* bound on failing system calls
    MaxCrashes

ASSUME AtomicFileAssumption ==
    /\ None \notin Text \cup {Absent, Torn} /\ Absent \notin Text \cup {Torn} /\ Torn \notin Text
    /\ InitialFiles \subseteq Text \cup {Absent}
    /\ MaxFaults \in Nat /\ MaxCrashes \in Nat

VARIABLES
    file,       \* a text, Absent, or Torn
    safe,       \* its data has reached the disk
    writable,   \* the directory is writable
    pc,         \* [Proc -> Step]
    want,       \* what each writer writes: a text, or Absent to remove the file
    found,      \* os.Stat found a file
    temp,       \* each writer's temporary file
    outcome,    \* of each one's last call
    faults, crashes

fileVars == <<file, safe, writable, pc, want, found, temp, outcome, faults, crashes>>

Step == {"idle", "create", "fill", "sync", "rename", "open", "pour", "remove"}
Temp == {"none", "open", "full", "synced"}

Init ==
    /\ file \in InitialFiles /\ safe = TRUE /\ writable \in BOOLEAN
    /\ pc = [p \in Proc |-> "idle"] /\ want = [p \in Proc |-> None]
    /\ found = [p \in Proc |-> FALSE] /\ temp = [p \in Proc |-> "none"]
    /\ outcome = [p \in Proc |-> "ok"]
    /\ faults = 0 /\ crashes = 0

Fault == faults < MaxFaults /\ faults' = faults + 1

Goto(p, step) == pc' = [pc EXCEPT ![p] = step]

Return(p, how) ==
    /\ pc' = [pc EXCEPT ![p] = "idle"]
    /\ want' = [want EXCEPT ![p] = None]
    /\ outcome' = [outcome EXCEPT ![p] = how]

Temporary(p, state) == temp' = [temp EXCEPT ![p] = state]

\* The calls: replace the text, starting with os.Stat, or remove the file.
Begin(p, text) ==
    /\ pc[p] = "idle"
    /\ want' = [want EXCEPT ![p] = text]
    /\ found' = [found EXCEPT ![p] = file # Absent]
    /\ Goto(p, IF text = Absent THEN "remove" ELSE "create")
    /\ UNCHANGED <<file, safe, writable, temp, outcome, faults, crashes>>

CreateTemp(p) ==
    /\ pc[p] = "create" /\ writable
    /\ Temporary(p, "open") /\ Goto(p, "fill")
    /\ UNCHANGED <<file, safe, writable, want, found, outcome, faults, crashes>>

\* Permission denied, and there is a file to write to.
CreateDenied(p) ==
    /\ pc[p] = "create" /\ ~writable /\ found[p]
    /\ Goto(p, "open")
    /\ UNCHANGED <<file, safe, writable, want, found, temp, outcome, faults, crashes>>

CreateFails(p) ==
    /\ pc[p] = "create"
    /\ IF ~writable /\ ~found[p] THEN UNCHANGED faults ELSE Fault
    /\ Return(p, "error")
    /\ UNCHANGED <<file, safe, writable, found, temp, crashes>>

Write(p) ==
    /\ pc[p] = "fill"
    /\ Temporary(p, "full") /\ Goto(p, "sync")
    /\ UNCHANGED <<file, safe, writable, want, found, outcome, faults, crashes>>

\* Mutant: the temporary file is renamed without a sync.
SyncSkipped(p) ==
    /\ pc[p] = "sync"
    /\ Goto(p, "rename")
    /\ UNCHANGED <<file, safe, writable, want, found, temp, outcome, faults, crashes>>

Sync(p) ==
    /\ pc[p] = "sync"
    /\ Temporary(p, "synced") /\ Goto(p, "rename")
    /\ UNCHANGED <<file, safe, writable, want, found, outcome, faults, crashes>>

Rename(p) ==
    /\ pc[p] = "rename"
    /\ file' = want[p] /\ safe' = (temp[p] = "synced")
    /\ Temporary(p, "none") /\ Return(p, "ok")
    /\ UNCHANGED <<writable, found, faults, crashes>>

\* Mutant: an error leaves the temporary file.
FailKeepsTemp(p) ==
    /\ pc[p] \in {"fill", "sync", "rename"} /\ Fault
    /\ Return(p, "error")
    /\ UNCHANGED <<file, safe, writable, found, temp, crashes>>

\* Write, Chmod, Sync, Close or Rename fails: the temporary file is removed.
Fail(p) ==
    /\ pc[p] \in {"fill", "sync", "rename"} /\ Fault
    /\ Temporary(p, "none") /\ Return(p, "error")
    /\ UNCHANGED <<file, safe, writable, found, crashes>>

\* os.WriteFile truncates the file, then writes it.
Truncate(p) ==
    /\ pc[p] = "open"
    /\ file' = Torn /\ safe' = FALSE /\ Goto(p, "pour")
    /\ UNCHANGED <<writable, want, found, temp, outcome, faults, crashes>>

\* The file itself is not writable either.
OpenDenied(p) ==
    /\ pc[p] = "open"
    /\ Return(p, "error")
    /\ UNCHANGED <<file, safe, writable, found, temp, faults, crashes>>

\* Two writers in the same file may leave a mixture.
Pour(p) ==
    /\ pc[p] = "pour"
    /\ file' = want[p] \/ (file' = Torn /\ \E q \in Proc \ {p} : pc[q] = "pour")
    /\ safe' = FALSE
    /\ Return(p, "ok")
    /\ UNCHANGED <<writable, found, temp, faults, crashes>>

PourFails(p) ==
    /\ pc[p] = "pour" /\ Fault
    /\ file' = Torn /\ safe' = FALSE
    /\ Return(p, "error")
    /\ UNCHANGED <<writable, found, temp, crashes>>

\* os.Remove; a file that is not there is no error.
Remove(p) ==
    /\ pc[p] = "remove" /\ (writable \/ file = Absent)
    /\ file' = Absent /\ safe' = TRUE
    /\ Return(p, "ok")
    /\ UNCHANGED <<writable, found, temp, faults, crashes>>

RemoveFails(p) ==
    /\ pc[p] = "remove"
    /\ IF writable \/ file = Absent THEN Fault ELSE UNCHANGED faults
    /\ Return(p, "error")
    /\ UNCHANGED <<file, safe, writable, found, temp, crashes>>

\* The kernel writes what was not synced.
Flush ==
    /\ ~safe /\ safe' = TRUE
    /\ UNCHANGED <<file, writable, pc, want, found, temp, outcome, faults, crashes>>

\* The process dies, or the machine does and takes unsynced data with it.
Crash ==
    /\ crashes < MaxCrashes /\ crashes' = crashes + 1
    /\ file' = file \/ (~safe /\ file' = Torn)
    /\ safe' = TRUE
    /\ pc' = [p \in Proc |-> "idle"] /\ want' = [p \in Proc |-> None]
    /\ found' = [p \in Proc |-> FALSE] /\ temp' = [p \in Proc |-> "none"]
    /\ outcome' = [p \in Proc |-> "ok"]
    /\ UNCHANGED <<writable, faults>>

\* One step of a call that is under way.
Continue(p) ==
    \/ CreateTemp(p) \/ CreateDenied(p) \/ CreateFails(p)
    \/ Write(p) \/ Sync(p) \/ Rename(p) \/ Fail(p)
    \/ Truncate(p) \/ OpenDenied(p) \/ Pour(p) \/ PourFails(p)
    \/ Remove(p) \/ RemoveFails(p)

Next == \/ \E p \in Proc : (\E text \in Text \cup {Absent} : Begin(p, text)) \/ Continue(p)
        \/ Flush \/ Crash

Spec == Init /\ [][Next]_fileVars

-----------------------------------------------------------------------------
(* Properties.                                                             *)

\* Every variable keeps its type.
FileTypeOK ==
    /\ file \in Text \cup {Absent, Torn} /\ {safe, writable} \subseteq BOOLEAN
    /\ pc \in [Proc -> Step] /\ want \in [Proc -> Text \cup {Absent, None}]
    /\ found \in [Proc -> BOOLEAN] /\ temp \in [Proc -> Temp]
    /\ outcome \in [Proc -> {"ok", "error"}]
    /\ faults \in 0..MaxFaults /\ crashes \in 0..MaxCrashes

\* "readers never observe a truncated file and a crash cannot leave one
\* behind" (writeFileAtomic), as a refinement: whatever the interleaving of
\* the writers, the failures and the crashes, the path holds a text that was
\* asked for as a whole or was there before, a call that returns no error has
\* put its own there, and one that returns an error has changed nothing; only
\* where the directory is not writable the text may be torn.
Contract == INSTANCE FileContract WITH wanted <- want

KeepsContract == Contract!Spec

\* A writer that has returned has left no temporary file, whatever failed;
\* only a crash may leave one.
NoTempLeft == \A p \in Proc : pc[p] = "idle" => temp[p] = "none"
=============================================================================
