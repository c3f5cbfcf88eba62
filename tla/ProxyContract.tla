--------------------------- MODULE ProxyContract ---------------------------
(***************************************************************************)
(* What WithProxy promises its caller (doc comment of WithProxy): first    *)
(* the state is saved, or the call is refused and nothing has changed;     *)
(* then the state may change in any way; and when the call ends every      *)
(* setting of its scope is back, or its error says that it is not.  The    *)
(* doc comment makes no exception; the backends do, so the contract has    *)
(* Unreported, of which a call may lose some and return nil.               *)
(* How the state is saved and put back is left to the WithProxy module,    *)
(* which implements this one.                                              *)
(***************************************************************************)
CONSTANTS Call,     \* the calls of WithProxy / WithProxyMulti
          Key,      \* the settings of the machine and of the process
          Value,    \* what a setting holds
          Unreported \* the settings that may be lost without an error

VARIABLES store,    \* [Key -> Value]: the settings
          cover,    \* [Call -> SUBSET Key]: what the scope of a call covers
          status,   \* [Call -> {"idle", "saving", "open", "closed"}]
          before,   \* [Call -> [Key -> Value]]: the settings at the start
          lost,     \* [Call -> SUBSET Key]: what was not put back
          verdict   \* [Call -> how the call ended]

vars == <<store, cover, status, before, lost, verdict>>

Verdict == {"none", "ok", "failure", "panic"}

Init ==
    /\ store \in [Key -> Value]
    /\ cover \in [Call -> SUBSET Key]
    /\ status = [c \in Call |-> "idle"]
    /\ before = [c \in Call |-> store]
    /\ lost = [c \in Call |-> {}]
    /\ verdict = [c \in Call |-> "none"]

NobodySaves == \A c \in Call : status[c] # "saving"

Save(c) ==
    /\ status[c] = "idle" /\ NobodySaves
    /\ status' = [status EXCEPT ![c] = "saving"]
    /\ before' = [before EXCEPT ![c] = store]
    /\ UNCHANGED <<store, cover, lost, verdict>>

\* An invalid scope, a cancelled context, or a state that cannot be read.
Refuse(c) ==
    /\ status[c] \in {"idle", "saving"}
    /\ status' = [status EXCEPT ![c] = "closed"]
    /\ verdict' = [verdict EXCEPT ![c] = "failure"]
    /\ UNCHANGED <<store, cover, before, lost>>

Admit(c) ==
    /\ status[c] = "saving"
    /\ status' = [status EXCEPT ![c] = "open"]
    /\ UNCHANGED <<store, cover, before, lost, verdict>>

Change(c) ==
    /\ status[c] = "open" /\ NobodySaves
    /\ store' \in [Key -> Value]
    /\ lost' = lost \/ \E K \in SUBSET cover[c] : lost' = [lost EXCEPT ![c] = K]
    /\ UNCHANGED <<cover, status, before, verdict>>

Close(c) ==
    /\ status[c] = "open" /\ NobodySaves
    /\ \A k \in cover[c] \ lost[c] : store[k] = before[c][k]
    /\ status' = [status EXCEPT ![c] = "closed"]
    /\ \E v \in IF lost[c] \subseteq Unreported THEN {"ok", "failure", "panic"} ELSE {"failure", "panic"} :
          verdict' = [verdict EXCEPT ![c] = v]
    /\ UNCHANGED <<store, cover, before, lost>>

Next == \E c \in Call : Save(c) \/ Refuse(c) \/ Admit(c) \/ Change(c) \/ Close(c)

Spec == Init /\ [][Next]_vars
=============================================================================
