-------------------------- MODULE BackendContract --------------------------
(***************************************************************************)
(* What a backend (globalBackend, backend.go) promises to the Set calls    *)
(* and to WithProxy.  An operation gives some settings a value.  It may be *)
(* cut off or fail in any place, but it leaves a setting as it was or      *)
(* makes it what was asked, never a third thing; between operations        *)
(* nothing is written; and one that reports no failure has set everything. *)
(* "SnapshotGlobal ... returns a function that puts it back exactly":      *)
(* that is an operation that asks for what the snapshot saw.               *)
(***************************************************************************)
CONSTANTS Key,      \* the settings
          Aside     \* those whose failure is only a warning

VARIABLES store,    \* the value of each setting
          task,     \* "idle", or what is under way: "change", "restore"
          goal,     \* the value each setting is to have after it
          lossy,    \* the settings whose writes may get lost unnoticed
          open,     \* a snapshot waits for its restore
          saved,    \* what it saw
          verdict   \* how the last operation ended

vars == <<store, task, goal, lossy, open, saved, verdict>>

Init ==
    /\ DOMAIN store = Key
    /\ task = "idle" /\ goal = store
    /\ lossy = {}
    /\ open = FALSE /\ saved = store
    /\ verdict = "none"

Begin ==
    /\ task = "idle" /\ task' = "change"
    /\ DOMAIN goal' = Key
    /\ verdict' = "none"
    /\ UNCHANGED <<store, lossy, open, saved>>

\* An operation the system has no tool for, or a snapshot that cannot read.
Refuse ==
    /\ task = "idle" /\ verdict' = "failure"
    /\ UNCHANGED <<store, task, goal, lossy, open, saved>>

Save ==
    /\ task = "idle" /\ ~open
    /\ open' = TRUE /\ saved' = store
    /\ verdict' = "ok"
    /\ UNCHANGED <<store, task, goal, lossy>>

Rewind ==
    /\ task = "idle" /\ open
    /\ task' = "restore" /\ goal' = saved
    /\ verdict' = "none"
    /\ UNCHANGED <<store, lossy, open, saved>>

With(k) == [store EXCEPT ![k] = goal[k]]

Put ==
    /\ task # "idle" /\ task' = task
    /\ \E k \in Key : store' = With(k)
    /\ UNCHANGED <<goal, lossy, open, saved, verdict>>

Degrade ==
    /\ task = "idle" /\ lossy \subseteq lossy' /\ lossy' \subseteq Key \ Aside
    /\ UNCHANGED <<store, task, goal, open, saved, verdict>>

Reached(K) == \A k \in K : store'[k] = goal[k]

\* The settings in Aside come last.
End ==
    /\ task # "idle" /\ task' = "idle"
    /\ store' \in {store} \cup {With(k) : k \in Aside}
    /\ goal' = store'
    /\ \/ verdict' = "ok" /\ Reached(Key \ lossy)
       \/ verdict' = "warning" /\ Reached(Key \ (lossy \cup Aside))
       \/ verdict' = "failure"
    /\ open' = (open /\ task # "restore")
    /\ UNCHANGED <<lossy, saved>>

Next == \/ Begin \/ Refuse \/ Save \/ Rewind \/ Degrade \/ End
        \/ Put

Spec == Init /\ [][Next]_vars
=============================================================================
