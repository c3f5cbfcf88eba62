----------------------------- MODULE WithProxy -----------------------------
(***************************************************************************)
(* WithProxy and WithProxyMulti, one step per setting read or written      *)
(* (sysproxy.go: withState, snapshotState; the Set* functions they apply;  *)
(* the environment snapshot of backend_util.go).                           *)
(*                                                                         *)
(* The state a call can change is a set of keys: variables of the process  *)
(* environment, the managed blocks of the user's files, and the settings   *)
(* of the OS backend.  A backend is abstracted to what all of them do: it  *)
(* goes through its settings one by one, and each read or write may fail.  *)
(* What a key holds is a plain value; a missing key is one of the values.  *)
(***************************************************************************)
EXTENDS ProxyErrors, Sequences, Naturals

CONSTANTS Call,          \* the calls of WithProxy in the process
          EnvVars,       \* the proxy environment variables (proxyEnvNames)
          UserFiles,     \* the managed blocks of rc files and profiles
          Settings,      \* the settings of the OS backend
          ByTool,        \* those the backend reads and writes with a tool, under a context
          Unreported,    \* those whose restore may fail without an error (see RestoreFails)
          Value,         \* what a key holds
          OneGoroutine,  \* TRUE: a call starts only inside fn of the open one
          MaxFaults      \* bound on failing reads and writes

Key == EnvVars \cup UserFiles \cup Settings

ASSUME KeyAssumption ==
    /\ ByTool \subseteq Settings /\ Unreported \subseteq Settings
    /\ EnvVars \cap (UserFiles \cup Settings) = {}
    /\ UserFiles \cap Settings = {}
ASSUME ModeAssumption == OneGoroutine \in BOOLEAN /\ MaxFaults \in Nat

VARIABLES
    store,      \* [Key -> Value]: the settings of the machine and the process
    origin,     \* the store before the first call, never changed
    scope,      \* [Call -> Scope], never changed
    phase,      \* [Call -> where withState is]
    stack,      \* the open calls, the innermost last (OneGoroutine only)
    before,     \* [Call -> [Key -> Value]]: the store when the call began
    saved,      \* [Call -> [Key -> Value]]: what the snapshot has read
    todo,       \* [Call -> SUBSET Key]: what the current phase has left to do
    err,        \* [Call -> Error]: the error collected, in the end the result
    rerr,       \* [Call -> Error]: the errors of the restore
    failed,     \* [Call -> SUBSET Key]: the keys the restore did not put back
    cancelled,  \* calls whose context is cancelled
    expired,    \* calls whose restoreTimeout has passed
    panicked,   \* calls whose fn panicked
    faults      \* failures so far, at most MaxFaults

data  == <<store, saved>>
input == <<origin, scope>>
env   == <<cancelled, expired, panicked, faults>>
vars  == <<store, origin, scope, phase, stack, before, saved, todo, err,
           rerr, failed, cancelled, expired, panicked, faults>>

Scope == {"shell", "user", "global"}
Phase == {"ready", "snapshot", "apply", "write", "fn", "restore", "returned"}

\* The keys a scope covers: the environment, and one kind of parts.
Covered(s) == EnvVars \cup {k \in UserFiles : s = "user"}
                      \cup {k \in Settings : s = "global"}

Init ==
    /\ store \in [Key -> Value]
    /\ origin = store
    /\ scope \in [Call -> Scope]
    /\ phase = [c \in Call |-> "ready"]
    /\ stack = <<>>
    /\ before = [c \in Call |-> store]
    /\ saved = [c \in Call |-> store]
    /\ todo = [c \in Call |-> {}]
    /\ err = [c \in Call |-> Nil]
    /\ rerr = [c \in Call |-> Nil]
    /\ failed = [c \in Call |-> {}]
    /\ cancelled = {} /\ expired = {} /\ panicked = {}
    /\ faults = 0

IsOpen(c) == phase[c] \notin {"ready", "returned"}

\* In one goroutine only the innermost call runs.
Runs(c) == OneGoroutine => stack # <<>> /\ stack[Len(stack)] = c

Push(c) == stack' = IF OneGoroutine THEN Append(stack, c) ELSE stack
Pop     == stack' = IF OneGoroutine THEN SubSeq(stack, 1, Len(stack) - 1) ELSE stack

Goto(c, p) == phase' = [phase EXCEPT ![c] = p]

Fault == faults < MaxFaults /\ faults' = faults + 1

\* A tool started under a context that has ended fails at once.
FailsForContext(c, k, ended) == k \in ByTool /\ c \in ended

-----------------------------------------------------------------------------
(* Before anything is saved: the checks of WithProxy and withState.        *)

MayStart(c) ==
    /\ phase[c] = "ready"
    /\ OneGoroutine /\ stack # <<>> => phase[stack[Len(stack)]] = "fn"

Reject(c) ==   \* invalid URL or scope, or a context already cancelled
    /\ MayStart(c)
    /\ Goto(c, "returned")
    /\ err' = [err EXCEPT ![c] = Hard]
    /\ UNCHANGED <<data, input, stack, before, todo, rerr, failed, env>>

Begin(c) ==
    /\ MayStart(c) /\ c \notin cancelled
    /\ Goto(c, "snapshot") /\ Push(c)
    /\ before' = [before EXCEPT ![c] = store]
    /\ todo' = [todo EXCEPT ![c] = Covered(scope[c])]
    /\ UNCHANGED <<data, input, err, rerr, failed, env>>

\* The context given to the call may be cancelled at any moment.
Cancel(c) ==
    /\ phase[c] # "returned" /\ c \notin cancelled
    /\ cancelled' = cancelled \cup {c}
    /\ UNCHANGED <<data, input, phase, stack, before, todo, err, rerr, failed,
                   expired, panicked, faults>>

-----------------------------------------------------------------------------
(* snapshotState: snapshotEnv first, then snapshotUser or SnapshotGlobal.  *)

EnvFirst(c, k) == k \notin EnvVars => todo[c] \cap EnvVars = {}
EnvLast(c, k)  == k \in EnvVars => todo[c] \subseteq EnvVars

ReadSetting(c, k) ==
    /\ phase[c] = "snapshot" /\ Runs(c)
    /\ k \in todo[c] /\ EnvFirst(c, k) /\ ~FailsForContext(c, k, cancelled)
    /\ saved' = [saved EXCEPT ![c][k] = store[k]]
    /\ todo' = [todo EXCEPT ![c] = @ \ {k}]
    /\ UNCHANGED <<store, input, phase, stack, before, err, rerr, failed, env>>

\* The first read that fails ends the call; nothing was written yet.
SnapshotFails(c, k) ==
    /\ phase[c] = "snapshot" /\ Runs(c)
    /\ k \in todo[c] \ EnvVars /\ EnvFirst(c, k)
    /\ IF FailsForContext(c, k, cancelled) THEN UNCHANGED faults ELSE Fault
    /\ Goto(c, "returned") /\ Pop
    /\ err' = [err EXCEPT ![c] = Hard]
    /\ todo' = [todo EXCEPT ![c] = {}]
    /\ UNCHANGED <<data, input, before, rerr, failed, cancelled, expired, panicked>>

SnapshotDone(c) ==
    /\ phase[c] = "snapshot" /\ Runs(c) /\ todo[c] = {}
    /\ Goto(c, "apply")
    /\ UNCHANGED <<data, input, stack, before, todo, err, rerr, failed, env>>

-----------------------------------------------------------------------------
(* apply: SetContext or SetMultiContext with the scope of the call.        *)

\* The context was cancelled meanwhile, or WithProxyMulti was given an
\* invalid configuration: an error, and on to the deferred restore.
ApplyRefused(c) ==
    /\ phase[c] = "apply" /\ Runs(c)
    /\ Goto(c, "restore")
    /\ err' = [err EXCEPT ![c] = Hard]
    /\ todo' = [todo EXCEPT ![c] = Covered(scope[c])]
    /\ UNCHANGED <<data, input, stack, before, rerr, failed, env>>

\* T: what this URL or configuration writes (SetMulti skips empty fields).
ApplyStart(c, T) ==
    /\ phase[c] = "apply" /\ Runs(c) /\ c \notin cancelled
    /\ Goto(c, "write")
    /\ todo' = [todo EXCEPT ![c] = T]
    /\ UNCHANGED <<data, input, stack, before, err, rerr, failed, env>>

ApplyWrite(c, k, v) ==
    /\ phase[c] = "write" /\ Runs(c)
    /\ k \in todo[c] /\ EnvFirst(c, k) /\ ~FailsForContext(c, k, cancelled)
    /\ store' = [store EXCEPT ![k] = v]
    /\ todo' = [todo EXCEPT ![c] = @ \ {k}]
    /\ UNCHANGED <<saved, input, phase, stack, before, err, rerr, failed, env>>

\* A write that fails is recorded and the others go on.  It counts as hard,
\* as a warning (/etc/environment), or is only logged (one rc file of many,
\* the cosmetic steps of the macOS and Windows backends).
ApplyFails(c, k, e) ==
    /\ phase[c] = "write" /\ Runs(c)
    /\ k \in todo[c] \ EnvVars /\ EnvFirst(c, k)
    /\ IF FailsForContext(c, k, cancelled) THEN UNCHANGED faults ELSE Fault
    /\ err' = [err EXCEPT ![c] = Join(@, e)]
    /\ todo' = [todo EXCEPT ![c] = @ \ {k}]
    /\ UNCHANGED <<data, input, phase, stack, before, rerr, failed, cancelled,
                   expired, panicked>>

\* A backend that cannot even look at the system returns at once (network
\* services on macOS, ProxyServer on Windows): the environment has changed.
ApplyAborts(c) ==
    /\ phase[c] = "write" /\ Runs(c)
    /\ todo[c] # {} /\ todo[c] \cap EnvVars = {}
    /\ Fault
    /\ Goto(c, "restore")
    /\ err' = [err EXCEPT ![c] = Hard]
    /\ todo' = [todo EXCEPT ![c] = Covered(scope[c])]
    /\ UNCHANGED <<data, input, stack, before, rerr, failed, cancelled, expired,
                   panicked>>

\* The result of apply: a hard error skips fn; a warning is forgotten.  The
\* backends flatten a warning that comes with a hard failure; w is the sudo
\* warning.
ApplyDone(c, w) ==
    LET aerr == IF "hard" \in err[c] THEN Hard ELSE Join(err[c], w)
        stop == aerr # Nil /\ ~IsNonCritical(aerr)
    IN
    /\ phase[c] = "write" /\ Runs(c) /\ todo[c] = {}
    /\ Goto(c, IF stop THEN "restore" ELSE "fn")
    /\ err' = [err EXCEPT ![c] = IF stop THEN aerr ELSE Nil]
    /\ todo' = [todo EXCEPT ![c] = IF stop THEN Covered(scope[c]) ELSE {}]
    /\ UNCHANGED <<data, input, stack, before, rerr, failed, env>>

-----------------------------------------------------------------------------
(* fn, the caller's code: it may change any key, and start nested calls.   *)

FnWrite(c, k, v) ==
    /\ phase[c] = "fn" /\ Runs(c)
    /\ store' = [store EXCEPT ![k] = v]
    /\ UNCHANGED <<saved, input, phase, stack, before, todo, err, rerr, failed, env>>

\* Mutant: nothing is restored when fn panics.
FnPanicsThrough(c) ==
    /\ phase[c] = "fn" /\ Runs(c)
    /\ Goto(c, "unwound") /\ Pop
    /\ panicked' = panicked \cup {c}
    /\ UNCHANGED <<data, input, before, todo, err, rerr, failed, cancelled, expired, faults>>

FnReturns(c, e) ==
    /\ phase[c] = "fn" /\ Runs(c)
    /\ Goto(c, "restore")
    /\ err' = [err EXCEPT ![c] = e]
    /\ todo' = [todo EXCEPT ![c] = Covered(scope[c])]
    /\ UNCHANGED <<data, input, stack, before, rerr, failed, env>>

FnPanics(c) ==
    /\ phase[c] = "fn" /\ Runs(c)
    /\ Goto(c, "restore")
    /\ panicked' = panicked \cup {c}
    /\ todo' = [todo EXCEPT ![c] = Covered(scope[c])]
    /\ UNCHANGED <<data, input, stack, before, err, rerr, failed, cancelled, expired,
                   faults>>

-----------------------------------------------------------------------------
(* The deferred restore, under a context of its own.                       *)

RestoreWrite(c, k) ==
    /\ phase[c] = "restore" /\ Runs(c)
    /\ k \in todo[c] /\ EnvLast(c, k) /\ ~FailsForContext(c, k, expired)
    /\ store' = [store EXCEPT ![k] = saved[c][k]]
    /\ todo' = [todo EXCEPT ![c] = @ \ {k}]
    /\ UNCHANGED <<saved, input, phase, stack, before, err, rerr, failed, env>>

\* Mutant: the restore runs under the caller's context.
RestoreFailsOnCancel(c, k, e) ==
    /\ phase[c] = "restore" /\ Runs(c)
    /\ e = Nil => k \in Unreported
    /\ k \in todo[c] \ EnvVars
    /\ IF FailsForContext(c, k, expired \cup cancelled) THEN UNCHANGED faults ELSE Fault
    /\ todo' = [todo EXCEPT ![c] = @ \ {k}]
    /\ failed' = [failed EXCEPT ![c] = @ \cup {k}]
    /\ rerr' = [rerr EXCEPT ![c] = Join(@, e)]
    /\ UNCHANGED <<data, input, phase, stack, before, err, cancelled, expired, panicked>>

\* A step of the restore fails, and the others go on.  Of some settings that
\* is only logged, or not even noticed (e = Nil): on Windows the removal of a
\* value that was not there (regBatch.try), on Linux a GNOME key but the mode
\* when no session bus is reachable.
RestoreFails(c, k, e) ==
    /\ phase[c] = "restore" /\ Runs(c)
    /\ e = Nil => k \in Unreported
    /\ k \in todo[c] \ EnvVars
    /\ IF FailsForContext(c, k, expired) THEN UNCHANGED faults ELSE Fault
    /\ todo' = [todo EXCEPT ![c] = @ \ {k}]
    /\ failed' = [failed EXCEPT ![c] = @ \cup {k}]
    /\ rerr' = [rerr EXCEPT ![c] = Join(@, e)]
    /\ UNCHANGED <<data, input, phase, stack, before, err, cancelled, expired, panicked>>

\* Mutant: the restore has no deadline.
RestoreTimeoutNever(c) == phase[c] = "ready" /\ c \in expired /\ UNCHANGED vars

RestoreTimeout(c) ==
    /\ phase[c] = "restore" /\ Runs(c) /\ c \notin expired
    /\ expired' = expired \cup {c}
    /\ UNCHANGED <<data, input, phase, stack, before, todo, err, rerr, failed,
                   cancelled, panicked, faults>>

\* Mutants: the restore is cut short; its error is dropped.
ReturnEarly(c) ==
    /\ phase[c] = "restore" /\ Runs(c)
    /\ Goto(c, "returned") /\ Pop
    /\ todo' = [todo EXCEPT ![c] = {}]
    /\ UNCHANGED <<data, input, before, err, rerr, failed, env>>

ReturnForgets(c) ==
    /\ phase[c] = "restore" /\ Runs(c) /\ todo[c] = {}
    /\ Goto(c, "returned") /\ Pop
    /\ UNCHANGED <<data, input, before, todo, err, rerr, failed, env>>

Return(c) ==
    /\ phase[c] = "restore" /\ Runs(c) /\ todo[c] = {}
    /\ Goto(c, "returned") /\ Pop
    /\ err' = [err EXCEPT ![c] = Join(@, Unclassified(rerr[c]))]
    /\ UNCHANGED <<data, input, before, todo, rerr, failed, env>>

-----------------------------------------------------------------------------
Fn(c) == \/ \E k \in Key, v \in Value : FnWrite(c, k, v)
         \/ \E e \in {Nil, Hard, Warning} : FnReturns(c, e)
         \/ FnPanics(c)

Snapshot(c) == \/ \E k \in Key : ReadSetting(c, k) \/ SnapshotFails(c, k)
               \/ SnapshotDone(c)

Apply(c) == \/ ApplyRefused(c)
            \/ \E T \in SUBSET Covered(scope[c]) : ApplyStart(c, T)
            \/ \E k \in Key, v \in Value : ApplyWrite(c, k, v)
            \/ \E k \in Key, e \in {Nil, Hard, Warning, Elevation} : ApplyFails(c, k, e)
            \/ ApplyAborts(c)
            \/ \E w \in {Nil, Warning} : ApplyDone(c, w)

Restore(c) == \/ \E k \in Key : RestoreWrite(c, k)
              \/ \E k \in Key, e \in {Nil, Hard, Warning, Elevation} : RestoreFails(c, k, e)
              \/ RestoreTimeout(c)
              \/ Return(c)

Next == \E c \in Call :
           \/ Reject(c) \/ Begin(c) \/ Cancel(c)
           \/ Snapshot(c) \/ Apply(c) \/ Fn(c) \/ Restore(c)

Spec == Init /\ [][Next]_vars

(***************************************************************************)
(* Fairness.  The goroutine is scheduled, fn returns, and what a call      *)
(* starts before its restore ends (a hung tool there is ended by the       *)
(* caller's context).  Nothing is assumed of a tool during the restore: it *)
(* may hang, and only the passing of restoreTimeout helps.                 *)
(***************************************************************************)
Progress(c) ==
    \/ Snapshot(c)
    \/ Apply(c)
    \/ \E e \in {Nil, Hard, Warning} : FnReturns(c, e)
    \/ \E k \in Key \ ByTool : RestoreWrite(c, k)
    \/ \E k \in ByTool, e \in {Nil, Hard} : c \in expired /\ RestoreFails(c, k, e)
    \/ RestoreTimeout(c)
    \/ Return(c)

FairSpec == Spec /\ \A c \in Call : WF_vars(Progress(c))

-----------------------------------------------------------------------------
(* Properties.                                                             *)

\* Every variable keeps its type.
TypeOK ==
    /\ store \in [Key -> Value] /\ origin \in [Key -> Value]
    /\ scope \in [Call -> Scope]
    /\ phase \in [Call -> Phase]
    /\ stack \in Seq(Call)
    /\ before \in [Call -> [Key -> Value]]
    /\ saved \in [Call -> [Key -> Value]]
    /\ todo \in [Call -> SUBSET Key]
    /\ err \in [Call -> Error] /\ rerr \in [Call -> Error]
    /\ failed \in [Call -> SUBSET Key]
    /\ cancelled \subseteq Call /\ expired \subseteq Call /\ panicked \subseteq Call
    /\ faults \in 0..MaxFaults

\* "puts the previous state back exactly": when a call that got past its
\* snapshot returns - after fn, an error of fn, a panic, a failed or refused
\* apply - every key of its scope whose restore did not fail holds what it
\* held when the call began, whatever apply, fn and nested calls wrote.
RestoresExactly ==
    [][\A c \in Call : phase[c] = "restore" /\ phase'[c] = "returned" =>
          \A k \in Covered(scope[c]) \ failed[c] : store'[k] = before[c][k]]_vars

\* Calls one after the other or nested in each other leave no trace: when
\* none is open, a key that every call covers is as it was before the first
\* one, unless some restore failed on that very key.
CommonKeys == {k \in Key : \A c \in Call : k \in Covered(scope[c])}

LeavesNoTrace ==
    OneGoroutine /\ stack = <<>> =>
       \A k \in CommonKeys :
          (\A c \in Call : k \notin failed[c]) => store[k] = origin[k]

\* The same of calls in several goroutines: when all have returned and no
\* restore failed, nothing of a temporary proxy is left.
OverlapLeavesNoTrace ==
    (\A c \in Call : ~IsOpen(c) /\ failed[c] = {}) =>
       \A k \in CommonKeys : store[k] = origin[k]

\* The restore runs under a context of its own (withState: WithoutCancel):
\* callers may cancel their contexts at any moment, before, while or after
\* their settings are written or put back; as long as no tool fails and no
\* restoreTimeout passes, every key that the calls cover is as it was before
\* the first one as soon as none is open.
CancelLeavesNoTrace ==
    OneGoroutine /\ stack = <<>> /\ faults = 0 /\ expired = {} =>
       \A k \in CommonKeys : store[k] = origin[k]

\* "If restoring fails, the error is returned" (WithProxy): a call that returns
\* nil has put everything back.  Not so for the settings in Unreported.
NilMeansRestored ==
    \A c \in Call : phase[c] = "returned" /\ err[c] = Nil => failed[c] = {}

\* A call whose restore failed must not end in an error that IsNonCritical
\* tells the caller to treat as success (withState, comment in the deferred
\* function; errors.go, IsNonCritical).
RestoreFailureIsNoWarning ==
    \A c \in Call : phase[c] = "returned" /\ rerr[c] # Nil => ~IsNonCritical(err[c])

\* Why the above hold in one goroutine.  The open calls are exactly those on
\* the stack, all but the innermost inside fn; what a call has saved is what
\* the store held when it began; what its restore has dealt with is back; and
\* the outermost open call began with the original store.
StackInv ==
    /\ \A i, j \in 1..Len(stack) : stack[i] = stack[j] => i = j
    /\ \A i \in 1..Len(stack) : IsOpen(stack[i])
    /\ \A i \in 1..(Len(stack) - 1) : phase[stack[i]] = "fn"
    /\ \A c \in Call : IsOpen(c) => \E i \in 1..Len(stack) : stack[i] = c

SavedOf(c) ==
    /\ phase[c] = "snapshot" => store = before[c]
    /\ IsOpen(c) => \A k \in Covered(scope[c]) :
          (phase[c] = "snapshot" => k \notin todo[c]) => saved[c][k] = before[c][k]
    /\ phase[c] = "restore" => \A k \in Covered(scope[c]) :
          k \notin todo[c] \cup failed[c] => store[k] = before[c][k]

SavedInv == \A c \in Call : SavedOf(c)

OriginInv == \A k \in CommonKeys :
    (\A c \in Call : k \notin failed[c]) =>
       IF stack = <<>> THEN store[k] = origin[k] ELSE before[stack[1]][k] = origin[k]

IndInv == OneGoroutine => StackInv /\ SavedInv /\ OriginInv

\* A call that has begun returns, even when a tool hangs during the restore.
Returns == \A c \in Call : phase[c] = "snapshot" ~> phase[c] = "returned"

\* The contract: a refused call changes nothing, an accepted one puts every
\* key of its scope back or ends with a panic or an error with a hard part,
\* but for those whose restore may fail without an error.
Status(c) == IF phase[c] = "ready" THEN "idle"
             ELSE IF phase[c] = "snapshot" THEN "saving"
             ELSE IF phase[c] = "returned" THEN "closed" ELSE "open"

Verdict(c) == IF phase[c] # "returned" THEN "none"
              ELSE IF c \in panicked THEN "panic"
              ELSE IF "hard" \in err[c] THEN "failure" ELSE "ok"

Contract == INSTANCE ProxyContract WITH
               cover <- [c \in Call |-> Covered(scope[c])],
               status <- [c \in Call |-> Status(c)],
               lost <- failed,
               verdict <- [c \in Call |-> Verdict(c)]

KeepsContract == Contract!Spec
=============================================================================
