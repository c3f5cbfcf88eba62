---------------------------- MODULE FileContract ----------------------------
(***************************************************************************)
(* What writeFileAtomic (fsutil.go) promises to whoever reads the file:    *)
(* "readers never observe a truncated file and a crash cannot leave one    *)
(* behind".  The file holds a text that some caller has asked for as a     *)
(* whole, or it does not exist; a caller that gives up changes nothing.    *)
(* The promise has the exception that the comment names further down: when *)
(* the directory is not writable the file is written in place.             *)
(***************************************************************************)
CONSTANTS Proc, Text, None,
          Absent,      \* there is no file
          Torn         \* the file holds a part of a text

VARIABLES file, wanted, outcome, writable

vars == <<file, wanted, outcome, writable>>

Init ==
    /\ file \in Text \cup {Absent}
    /\ wanted = [p \in Proc |-> None]
    /\ outcome = [p \in Proc |-> "ok"]
    /\ writable \in BOOLEAN

Ask(p) ==
    /\ wanted[p] = None /\ wanted'[p] \in Text \cup {Absent}
    /\ wanted' = [wanted EXCEPT ![p] = wanted'[p]]
    /\ UNCHANGED <<file, outcome, writable>>

Put(p) ==
    /\ wanted[p] # None
    /\ file' = wanted[p]
    /\ wanted' = [wanted EXCEPT ![p] = None]
    /\ outcome' = [outcome EXCEPT ![p] = "ok"]
    /\ UNCHANGED writable

GiveUp(p) ==
    /\ wanted[p] # None
    /\ wanted' = [wanted EXCEPT ![p] = None]
    /\ outcome' = [outcome EXCEPT ![p] = "error"]
    /\ UNCHANGED <<file, writable>>

\* Only where there is no atomic replacement.
Tear(p) ==
    /\ ~writable
    /\ file' = Torn
    /\ wanted' = wanted \/ wanted' = [wanted EXCEPT ![p] = None]
    /\ \E how \in {"ok", "error"} : outcome' = [outcome EXCEPT ![p] = how]
    /\ UNCHANGED writable

Crash ==
    /\ wanted' = [p \in Proc |-> None]
    /\ outcome' = [p \in Proc |-> "ok"]
    /\ file' = file \/ (~writable /\ file' = Torn)
    /\ UNCHANGED writable

Next == \/ \E p \in Proc : Ask(p) \/ Put(p) \/ GiveUp(p) \/ Tear(p)
        \/ Crash

Spec == Init /\ [][Next]_vars
=============================================================================
