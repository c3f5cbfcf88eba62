-------------------------- MODULE WithProxyProofs --------------------------
(***************************************************************************)
(* What is proved of WithProxy for every set of calls, keys and values.    *)
(***************************************************************************)
EXTENDS WithProxy, SequenceTheorems, TLAPS

LEMMA CoveredInKey == \A s \in Scope : Covered(s) \subseteq Key
BY DEF Scope, Covered, Key

LEMMA ErrorsAreErrors ==
    /\ {Nil, Hard, Warning, Elevation} \subseteq Error
    /\ \A e, f \in Error : Join(e, f) \in Error /\ Unclassified(e) \in Error
BY DEF Nil, Hard, Warning, Elevation, Error, ErrClass, Join, Unclassified, Flatten

LEMMA TypeInit == Init => TypeOK
BY ErrorsAreErrors, ModeAssumption DEF Init, TypeOK, Phase

LEMMA TypeSnapshot ==
    ASSUME TypeOK, NEW c \in Call, Reject(c) \/ Begin(c) \/ Cancel(c) \/ Snapshot(c)
    PROVE  TypeOK'
<1> USE CoveredInKey, ErrorsAreErrors, ModeAssumption DEF TypeOK, Phase, data, input, env, Goto
<1>1. CASE Reject(c)
  BY <1>1 DEF Reject
<1>2. CASE Begin(c)
  BY <1>2 DEF Begin, Push
<1>3. CASE Cancel(c)
  BY <1>3 DEF Cancel
<1>4. ASSUME NEW k \in Key, ReadSetting(c, k) PROVE TypeOK'
  BY <1>4 DEF ReadSetting
<1>5. ASSUME NEW k \in Key, SnapshotFails(c, k) PROVE TypeOK'
  <2>1. stack' \in Seq(Call)
    BY <1>5 DEF SnapshotFails, Pop, Runs
  <2> QED BY <1>5, <2>1 DEF SnapshotFails, Fault
<1>6. CASE SnapshotDone(c)
  BY <1>6 DEF SnapshotDone
<1> QED BY <1>1, <1>2, <1>3, <1>4, <1>5, <1>6 DEF Snapshot

LEMMA TypeApply == ASSUME TypeOK, NEW c \in Call, Apply(c) PROVE TypeOK'
<1> USE CoveredInKey, ErrorsAreErrors DEF TypeOK, Phase, data, input, env, Goto
<1>1. CASE ApplyRefused(c)
  BY <1>1 DEF ApplyRefused
<1>2. ASSUME NEW T \in SUBSET Covered(scope[c]), ApplyStart(c, T) PROVE TypeOK'
  BY <1>2 DEF ApplyStart
<1>3. ASSUME NEW k \in Key, NEW v \in Value, ApplyWrite(c, k, v) PROVE TypeOK'
  BY <1>3 DEF ApplyWrite
<1>4. ASSUME NEW k \in Key, NEW e \in {Nil, Hard, Warning, Elevation}, ApplyFails(c, k, e)
      PROVE  TypeOK'
  <2>1. Join(err[c], e) \in Error
    OBVIOUS
  <2>2. faults' \in 0..MaxFaults
    BY <1>4, ModeAssumption DEF ApplyFails, Fault
  <2> QED BY <1>4, <2>1, <2>2 DEF ApplyFails
<1>5. CASE ApplyAborts(c)
  BY <1>5, ModeAssumption DEF ApplyAborts, Fault
<1>6. ASSUME NEW w \in {Nil, Warning}, ApplyDone(c, w) PROVE TypeOK'
  <2> DEFINE aerr == IF "hard" \in err[c] THEN Hard ELSE Join(err[c], w)
             stop == aerr # Nil /\ ~IsNonCritical(aerr)
  <2>1. aerr \in Error
    OBVIOUS
  <2>2. /\ phase' = [phase EXCEPT ![c] = IF stop THEN "restore" ELSE "fn"]
        /\ err' = [err EXCEPT ![c] = IF stop THEN aerr ELSE Nil]
        /\ todo' = [todo EXCEPT ![c] = IF stop THEN Covered(scope[c]) ELSE {}]
        /\ UNCHANGED <<data, input, stack, before, rerr, failed, env>>
    BY <1>6 DEF ApplyDone
  <2> HIDE DEF aerr, stop
  <2> QED BY <2>1, <2>2
<1> QED BY <1>1, <1>2, <1>3, <1>4, <1>5, <1>6 DEF Apply

LEMMA TypeFnRestore == ASSUME TypeOK, NEW c \in Call, Fn(c) \/ Restore(c) PROVE TypeOK'
<1> USE CoveredInKey, ErrorsAreErrors DEF TypeOK, Phase, data, input, env, Goto
<1>1. ASSUME NEW k \in Key, NEW v \in Value, FnWrite(c, k, v) PROVE TypeOK'
  BY <1>1 DEF FnWrite
<1>2. ASSUME NEW e \in {Nil, Hard, Warning}, FnReturns(c, e) PROVE TypeOK'
  BY <1>2 DEF FnReturns
<1>3. CASE FnPanics(c)
  BY <1>3 DEF FnPanics
<1>4. ASSUME NEW k \in Key, RestoreWrite(c, k) PROVE TypeOK'
  BY <1>4 DEF RestoreWrite
<1>5. ASSUME NEW k \in Key, NEW e \in {Nil, Hard, Warning, Elevation}, RestoreFails(c, k, e)
      PROVE  TypeOK'
  <2>1. Join(rerr[c], e) \in Error
    OBVIOUS
  <2>2. faults' \in 0..MaxFaults
    BY <1>5, ModeAssumption DEF RestoreFails, Fault
  <2> QED BY <1>5, <2>1, <2>2 DEF RestoreFails
<1>6. CASE RestoreTimeout(c)
  BY <1>6 DEF RestoreTimeout
<1>7. CASE Return(c)
  <2>1. stack' \in Seq(Call)
    BY <1>7 DEF Return, Pop, Runs
  <2> QED BY <1>7, <2>1 DEF Return
<1> QED BY <1>1, <1>2, <1>3, <1>4, <1>5, <1>6, <1>7 DEF Fn, Restore

(***************************************************************************)
(* Every variable keeps its type.                                          *)
(***************************************************************************)
THEOREM TypeCorrect == Spec => []TypeOK
<1>1. TypeOK /\ [Next]_vars => TypeOK'
  <2>1. ASSUME TypeOK, Next PROVE TypeOK'
    BY <2>1, TypeSnapshot, TypeApply, TypeFnRestore DEF Next
  <2>2. ASSUME TypeOK, UNCHANGED vars PROVE TypeOK'
    BY <2>2 DEF TypeOK, vars
  <2> QED BY <2>1, <2>2
<1> QED BY TypeInit, <1>1, PTL DEF Spec

-----------------------------------------------------------------------------
(* The stack of open calls.                                                *)

\* The running call is the last of the stack, and the only open call that is
\* not inside its fn.
LEMMA RunsAlone ==
    ASSUME TypeOK, OneGoroutine, StackInv, NEW c \in Call, Runs(c)
    PROVE  /\ Len(stack) \in Nat \ {0} /\ stack[Len(stack)] = c
           /\ IsOpen(c)
           /\ \A d \in Call : IsOpen(d) /\ phase[d] # "fn" => d = c
<1>1. Len(stack) \in Nat \ {0} /\ stack[Len(stack)] = c
  BY DEF Runs, TypeOK
<1>2. IsOpen(c)
  BY <1>1 DEF StackInv
<1>3. ASSUME NEW d \in Call, IsOpen(d), phase[d] # "fn" PROVE d = c
  <2>1. PICK i \in 1..Len(stack) : stack[i] = d
    BY <1>3 DEF StackInv
  <2>2. i = Len(stack)
    BY <1>1, <1>3, <2>1 DEF StackInv
  <2> QED BY <1>1, <2>1, <2>2
<1> QED BY <1>1, <1>2, <1>3

\* A step of the running call that keeps it open.
LEMMA StackKept ==
    ASSUME TypeOK, OneGoroutine, StackInv, NEW c \in Call, Runs(c),
           NEW p \in Phase \ {"ready", "returned"},
           phase' = [phase EXCEPT ![c] = p], stack' = stack
    PROVE  StackInv'
<1>1. /\ Len(stack) \in Nat \ {0} /\ stack[Len(stack)] = c
      /\ IsOpen(c)
  BY RunsAlone
<1>2. \A d \in Call : IsOpen(d)' <=> IsOpen(d)
  BY <1>1 DEF IsOpen, TypeOK
<1>3. \A i \in 1..Len(stack) : stack[i] \in Call
  BY DEF TypeOK
<1>4. \A i \in 1..(Len(stack) - 1) : stack[i] # c
  BY <1>1 DEF StackInv
<1> QED BY <1>1, <1>2, <1>3, <1>4 DEF StackInv, TypeOK

\* A call that begins joins the stack at its end.
LEMMA StackPushed ==
    ASSUME TypeOK, OneGoroutine, StackInv, NEW c \in Call, Begin(c)
    PROVE  StackInv' /\ (stack = <<>> => stack'[1] = c)
                     /\ (stack # <<>> => stack'[1] = stack[1]) /\ stack' # <<>>
<1> DEFINE n == Len(stack)
<1>1. /\ phase' = [phase EXCEPT ![c] = "snapshot"]
      /\ stack' = Append(stack, c) /\ ~IsOpen(c)
      /\ n # 0 => phase[stack[n]] = "fn"
  BY DEF Begin, MayStart, Push, Goto, IsOpen, TypeOK
<1>2. /\ n \in Nat /\ Len(stack') = n + 1 /\ stack'[n + 1] = c
      /\ \A i \in 1..n : stack[i] \in Call /\ stack'[i] = stack[i] /\ stack[i] # c
  BY <1>1 DEF TypeOK, StackInv
<1>3. \A d \in Call : d # c => phase'[d] = phase[d]
  BY <1>1 DEF TypeOK
<1>4. phase'[c] = "snapshot" /\ IsOpen(c)'
  BY <1>1 DEF TypeOK, IsOpen
<1>5. \A i \in 1..n : phase[stack[i]] = "fn"
  BY <1>1, <1>2 DEF StackInv
<1>6. \A i, j \in 1..(n + 1) : stack'[i] = stack'[j] => i = j
  BY <1>2 DEF StackInv
<1>7. \A i \in 1..n : phase'[stack'[i]] = "fn"
  BY <1>2, <1>3, <1>5
<1>8. \A i \in 1..(n + 1) : phase'[stack'[i]] \notin {"ready", "returned"}
  BY <1>2, <1>4, <1>7
<1>9. \A d \in Call : IsOpen(d)' => \E i \in 1..(n + 1) : stack'[i] = d
  <2> SUFFICES ASSUME NEW d \in Call, IsOpen(d)' PROVE \E i \in 1..(n + 1) : stack'[i] = d
    OBVIOUS
  <2>1. CASE d = c
    BY <1>2, <2>1
  <2>2. CASE d # c
    <3>1. IsOpen(d)
      BY <2>2, <1>3 DEF IsOpen
    <3>2. PICK i \in 1..n : stack[i] = d
      BY <3>1 DEF StackInv
    <3> QED BY <3>2, <1>2
  <2> QED BY <2>1, <2>2
<1>10. StackInv'
  BY <1>2, <1>6, <1>7, <1>8, <1>9 DEF StackInv, IsOpen
<1>11. stack # <<>> => n # 0
  BY DEF TypeOK
<1> QED BY <1>2, <1>10, <1>11, <1>1 DEF TypeOK

\* A call that returns leaves the stack, and the one that called it runs on.
LEMMA StackPopped ==
    ASSUME TypeOK, OneGoroutine, StackInv, NEW c \in Call, Runs(c),
           phase' = [phase EXCEPT ![c] = "returned"],
           stack' = SubSeq(stack, 1, Len(stack) - 1)
    PROVE  /\ StackInv'
           /\ stack' = <<>> => stack[1] = c
           /\ stack' # <<>> => stack'[1] = stack[1]
<1> DEFINE n == Len(stack)
<1>1. n \in Nat \ {0} /\ stack[n] = c
  BY RunsAlone
<1>2. /\ Len(stack') = n - 1
      /\ \A i \in 1..(n - 1) : stack'[i] = stack[i] /\ stack[i] \in Call /\ stack[i] # c
  <2>1. stack \in Seq(Call)
    BY DEF TypeOK
  <2>2. \A i \in 1..(n - 1) : stack[i] \in Call /\ stack[i] # c
    BY <1>1, <2>1 DEF StackInv
  <2>3. /\ Len(stack') = n - 1
        /\ \A i \in 1..(n - 1) : stack'[i] = stack[i]
    <3>1. \A i \in 1..(n - 1) : stack[i] \in Call
      BY <2>2
    <3> HIDE DEF n
    <3>2. /\ Len(SubSeq(stack, 1, n - 1)) = n - 1
          /\ \A i \in 1..(n - 1) : SubSeq(stack, 1, n - 1)[i] = stack[i]
      BY <1>1, <3>1, SubSeqProperties
    <3> QED BY <3>2 DEF n
  <2> QED BY <2>2, <2>3
<1>3. /\ \A d \in Call : d # c => phase'[d] = phase[d]
      /\ ~IsOpen(c)'
  BY DEF TypeOK, IsOpen
<1>4. \A i \in 1..(n - 1) : phase'[stack'[i]] = "fn"
  BY <1>1, <1>2, <1>3 DEF StackInv
<1>5. \A i \in 1..(n - 1) : phase'[stack'[i]] \notin {"ready", "returned"}
  BY <1>4
<1>6. \A d \in Call : IsOpen(d)' => \E i \in 1..(n - 1) : stack'[i] = d
  <2> SUFFICES ASSUME NEW d \in Call, IsOpen(d)' PROVE \E i \in 1..(n - 1) : stack'[i] = d
    OBVIOUS
  <2>1. d # c /\ IsOpen(d)
    BY <1>3 DEF IsOpen
  <2>2. PICK i \in 1..n : stack[i] = d
    BY <2>1 DEF StackInv
  <2>3. i # n
    BY <2>1, <2>2, <1>1
  <2> QED BY <2>2, <2>3, <1>1, <1>2
<1>7. StackInv'
  <2>1. \A i \in 1..(n - 2) : phase'[stack'[i]] = "fn"
    BY <1>1, <1>4
  <2>2. \A i, j \in 1..(n - 1) : stack'[i] = stack'[j] => i = j
    BY <1>1, <1>2 DEF StackInv
  <2> HIDE DEF n
  <2> QED BY <1>1, <1>2, <1>5, <1>6, <2>1, <2>2 DEF StackInv, IsOpen
<1>8. stack' = <<>> => n = 1
  <2> HIDE DEF n
  <2>1. Len(<<>>) = 0
    BY EmptySeq
  <2>2. stack' = <<>> => Len(stack') = 0
    BY <2>1, Zenon
  <2> QED BY <1>1, <1>2, <2>2
<1>9. stack' # <<>> => n # 1
  BY <1>1, <1>2 DEF TypeOK
<1> QED BY <1>1, <1>2, <1>7, <1>8, <1>9

-----------------------------------------------------------------------------
(* What a call has saved is what it found.                                 *)

\* Whatever happens to the store, a call inside its fn is not affected.
LEMMA SavedInsideFn ==
    ASSUME TypeOK, NEW d \in Call, SavedOf(d), IsOpen(d) => phase[d] = "fn",
           phase'[d] = phase[d], saved'[d] = saved[d], before'[d] = before[d], scope' = scope
    PROVE  SavedOf(d)'
<1>1. phase'[d] \notin {"snapshot", "restore"}
  BY DEF IsOpen
<1> QED BY <1>1 DEF SavedOf, IsOpen, Covered

\* So for a step of the running call only that call matters.
LEMMA SavedByRunning ==
    ASSUME TypeOK, OneGoroutine, StackInv, SavedInv, NEW c \in Call, Runs(c), scope' = scope,
           NEW p \in Phase, phase' = [phase EXCEPT ![c] = p], before' = before,
           \A d \in Call : d # c => saved'[d] = saved[d],
           SavedOf(c)'
    PROVE  SavedInv'
<1> SUFFICES ASSUME NEW d \in Call PROVE SavedOf(d)'
  BY DEF SavedInv
<1>1. CASE d = c
  BY <1>1
<1>2. CASE d # c
  <2>1. IsOpen(d) => phase[d] = "fn"
    BY RunsAlone, <1>2
  <2>2. SavedOf(d)
    BY DEF SavedInv
  <2>3. phase'[d] = phase[d]
    BY <1>2 DEF TypeOK
  <2> QED BY <1>2, <2>1, <2>2, <2>3, SavedInsideFn
<1> QED BY <1>1, <1>2

LEMMA SavedSnapshot ==
    ASSUME TypeOK, OneGoroutine, StackInv, SavedInv, NEW c \in Call,
           Reject(c) \/ Begin(c) \/ Cancel(c) \/ Snapshot(c)
    PROVE  SavedInv'
<1> USE CoveredInKey DEF TypeOK, data, input, env, Goto
<1>0. SavedOf(c)
  BY DEF SavedInv
<1>1. CASE Reject(c) \/ Cancel(c)
  <2> SUFFICES ASSUME NEW d \in Call PROVE SavedOf(d)'
    BY DEF SavedInv
  <2>1. SavedOf(d)
    BY DEF SavedInv
  <2>2. /\ UNCHANGED <<data, input, before, todo, failed>>
        /\ phase'[d] = phase[d] \/ phase'[d] = "returned"
    BY <1>1 DEF Reject, Cancel
  <2> QED BY <2>1, <2>2 DEF SavedOf, IsOpen, Covered
<1>2. CASE Begin(c)
  <2> SUFFICES ASSUME NEW d \in Call PROVE SavedOf(d)'
    BY DEF SavedInv
  <2>1. /\ UNCHANGED <<data, input>>
        /\ phase' = [phase EXCEPT ![c] = "snapshot"]
        /\ before' = [before EXCEPT ![c] = store]
        /\ todo' = [todo EXCEPT ![c] = Covered(scope[c])]
        /\ stack # <<>> => phase[stack[Len(stack)]] = "fn"
    BY <1>2 DEF Begin, MayStart
  <2>2. CASE d = c
    <3>1. /\ phase'[c] = "snapshot" /\ before'[c] = store /\ todo'[c] = Covered(scope[c])
          /\ store' = store /\ scope' = scope
      BY <2>1
    <3> QED BY <2>2, <3>1 DEF SavedOf, IsOpen, Covered
  <2>3. CASE d # c
    <3>1. SavedOf(d)
      BY DEF SavedInv
    <3>2. ASSUME IsOpen(d) PROVE phase[d] = "fn"
      <4>1. PICK i \in 1..Len(stack) : stack[i] = d
        BY <3>2 DEF StackInv
      <4>2. stack # <<>> /\ (i = Len(stack) \/ i \in 1..(Len(stack) - 1))
        BY <4>1
      <4> QED BY <2>1, <4>1, <4>2 DEF StackInv
    <3>3. phase'[d] = phase[d] /\ saved'[d] = saved[d] /\ before'[d] = before[d]
      BY <2>1, <2>3
    <3> QED BY <2>1, <3>1, <3>2, <3>3, SavedInsideFn
  <2> QED BY <2>2, <2>3
<1>3. ASSUME NEW k \in Key, ReadSetting(c, k) PROVE SavedInv'
  <2>1. /\ Runs(c) /\ phase[c] = "snapshot"
        /\ UNCHANGED <<store, input, phase, before, failed>>
        /\ saved' = [saved EXCEPT ![c][k] = store[k]]
        /\ todo' = [todo EXCEPT ![c] = @ \ {k}]
    BY <1>3 DEF ReadSetting
  <2>2. /\ saved'[c] = [saved[c] EXCEPT ![k] = store[k]] /\ todo'[c] = todo[c] \ {k}
        /\ store = before[c]
    BY <2>1, <1>0 DEF SavedOf
  <2>3. SavedOf(c)'
    BY <1>0, <2>1, <2>2 DEF SavedOf, IsOpen, Covered
  <2>4. phase' = [phase EXCEPT ![c] = "snapshot"] /\ "snapshot" \in Phase
    BY <2>1 DEF Phase
  <2> QED BY <2>1, <2>3, <2>4, SavedByRunning
<1>4. ASSUME NEW k \in Key, SnapshotFails(c, k) PROVE SavedInv'
  <2>1. Runs(c) /\ phase' = [phase EXCEPT ![c] = "returned"] /\ UNCHANGED <<data, input, before>>
    BY <1>4 DEF SnapshotFails
  <2>2. SavedOf(c)'
    BY <2>1 DEF SavedOf, IsOpen
  <2> QED BY <2>1, <2>2, SavedByRunning DEF Phase
<1>5. CASE SnapshotDone(c)
  <2>1. /\ Runs(c) /\ phase' = [phase EXCEPT ![c] = "apply"] /\ todo[c] = {}
        /\ phase[c] = "snapshot" /\ UNCHANGED <<data, input, before>>
    BY <1>5 DEF SnapshotDone
  <2>2. SavedOf(c)'
    BY <1>0, <2>1 DEF SavedOf, IsOpen, Covered
  <2> QED BY <2>1, <2>2, SavedByRunning DEF Phase
<1> QED BY <1>1, <1>2, <1>3, <1>4, <1>5 DEF Snapshot

LEMMA SavedApply ==
    ASSUME TypeOK, OneGoroutine, StackInv, SavedInv, NEW c \in Call, Apply(c)
    PROVE  SavedInv'
<1> USE DEF data, input, env, Goto
<1>0. SavedOf(c)
  BY DEF SavedInv
<1>1. ASSUME NEW p \in {"write", "fn", "restore"}, Runs(c),
             phase' = [phase EXCEPT ![c] = p], UNCHANGED <<saved, input, before>>,
             phase[c] \in {"apply", "write"},
             p = "restore" => todo'[c] = Covered(scope[c])
      PROVE  SavedInv'
  <2>1. phase'[c] = p
    BY <1>1 DEF TypeOK
  <2>2. \A k \in Covered(scope[c]) : saved[c][k] = before[c][k]
    BY <1>0, <1>1 DEF SavedOf, IsOpen
  <2>3. SavedOf(c)'
    BY <1>1, <2>1, <2>2 DEF SavedOf, Covered
  <2> QED BY <1>1, <2>3, SavedByRunning DEF Phase
<1>2. CASE ApplyRefused(c)
  BY <1>1, <1>2 DEF ApplyRefused, TypeOK
<1>3. ASSUME NEW T \in SUBSET Covered(scope[c]), ApplyStart(c, T) PROVE SavedInv'
  BY <1>1, <1>3 DEF ApplyStart, TypeOK
<1>4. ASSUME NEW k \in Key, NEW v \in Value, ApplyWrite(c, k, v) PROVE SavedInv'
  <2>1. phase' = [phase EXCEPT ![c] = "write"]
    BY <1>4 DEF ApplyWrite, TypeOK
  <2> QED BY <1>1, <1>4, <2>1 DEF ApplyWrite
<1>5. ASSUME NEW k \in Key, NEW e \in {Nil, Hard, Warning, Elevation}, ApplyFails(c, k, e)
      PROVE  SavedInv'
  <2>1. phase' = [phase EXCEPT ![c] = "write"]
    BY <1>5 DEF ApplyFails, TypeOK
  <2> QED BY <1>1, <1>5, <2>1 DEF ApplyFails
<1>6. CASE ApplyAborts(c)
  BY <1>1, <1>6 DEF ApplyAborts, TypeOK
<1>7. ASSUME NEW w \in {Nil, Warning}, ApplyDone(c, w) PROVE SavedInv'
  <2>1. PICK stop \in BOOLEAN :
          /\ phase' = [phase EXCEPT ![c] = IF stop THEN "restore" ELSE "fn"]
          /\ todo' = [todo EXCEPT ![c] = IF stop THEN Covered(scope[c]) ELSE {}]
    BY <1>7 DEF ApplyDone
  <2>2. Runs(c) /\ phase[c] = "write" /\ UNCHANGED <<saved, input, before>>
    BY <1>7 DEF ApplyDone
  <2>3. stop => todo'[c] = Covered(scope[c])
    BY <2>1 DEF TypeOK
  <2>4. CASE stop
    BY <1>1, <2>1, <2>2, <2>3, <2>4
  <2>5. CASE ~stop
    BY <1>1, <2>1, <2>2, <2>5
  <2> QED BY <2>4, <2>5
<1> QED BY <1>2, <1>3, <1>4, <1>5, <1>6, <1>7 DEF Apply

LEMMA SavedFnRestore ==
    ASSUME TypeOK, OneGoroutine, StackInv, SavedInv, NEW c \in Call, Fn(c) \/ Restore(c)
    PROVE  SavedInv'
<1> USE DEF data, input, env, Goto
<1>0. SavedOf(c)
  BY DEF SavedInv
<1>1. ASSUME NEW p \in {"fn", "restore"}, Runs(c), phase[c] = "fn",
             phase' = [phase EXCEPT ![c] = p], UNCHANGED <<saved, input, before>>,
             p = "restore" => todo'[c] = Covered(scope[c])
      PROVE  SavedInv'
  <2>1. phase'[c] = p
    BY <1>1 DEF TypeOK
  <2>2. \A k \in Covered(scope[c]) : saved[c][k] = before[c][k]
    BY <1>0, <1>1 DEF SavedOf, IsOpen
  <2>3. SavedOf(c)'
    BY <1>1, <2>1, <2>2 DEF SavedOf, Covered
  <2> QED BY <1>1, <2>3, SavedByRunning DEF Phase
<1>2. ASSUME NEW k \in Key, NEW v \in Value, FnWrite(c, k, v) PROVE SavedInv'
  <2>1. phase' = [phase EXCEPT ![c] = "fn"]
    BY <1>2 DEF FnWrite, TypeOK
  <2> QED BY <1>1, <1>2, <2>1 DEF FnWrite
<1>3. ASSUME NEW e \in {Nil, Hard, Warning}, FnReturns(c, e) PROVE SavedInv'
  BY <1>1, <1>3 DEF FnReturns, TypeOK
<1>4. CASE FnPanics(c)
  BY <1>1, <1>4 DEF FnPanics, TypeOK
<1>5. ASSUME NEW p \in {"restore", "returned"}, Runs(c), phase[c] = "restore",
             phase' = [phase EXCEPT ![c] = p], UNCHANGED <<saved, input, before>>,
             \A k \in Covered(scope[c]) : k \notin todo'[c] \cup failed'[c] =>
                store'[k] = before[c][k]
      PROVE  SavedInv'
  <2>1. phase'[c] = p
    BY <1>5 DEF TypeOK
  <2>2. \A k \in Covered(scope[c]) : saved[c][k] = before[c][k]
    BY <1>0, <1>5 DEF SavedOf, IsOpen
  <2>3. SavedOf(c)'
    BY <1>5, <2>1, <2>2 DEF SavedOf, Covered
  <2> QED BY <1>5, <2>3, SavedByRunning DEF Phase
<1>6. ASSUME phase[c] = "restore"
      PROVE  /\ phase = [phase EXCEPT ![c] = "restore"]
             /\ \A k \in Covered(scope[c]) : saved[c][k] = before[c][k]
             /\ \A k \in Covered(scope[c]) : k \notin todo[c] \cup failed[c] =>
                   store[k] = before[c][k]
  BY <1>0, <1>6 DEF SavedOf, IsOpen, TypeOK
<1>7. ASSUME NEW k \in Key, RestoreWrite(c, k) PROVE SavedInv'
  <2>1. /\ Runs(c) /\ phase[c] = "restore" /\ UNCHANGED <<saved, input, before, phase, failed>>
        /\ store' = [store EXCEPT ![k] = saved[c][k]] /\ todo'[c] = todo[c] \ {k}
    BY <1>7 DEF RestoreWrite, TypeOK
  <2>2. \A j \in Covered(scope[c]) : j \notin todo'[c] \cup failed'[c] =>
          store'[j] = before[c][j]
    BY <1>6, <2>1, CoveredInKey DEF TypeOK
  <2> QED BY <1>5, <1>6, <2>1, <2>2
<1>8. ASSUME NEW k \in Key, NEW e \in {Nil, Hard, Warning, Elevation}, RestoreFails(c, k, e)
      PROVE  SavedInv'
  <2>1. /\ Runs(c) /\ phase[c] = "restore" /\ UNCHANGED <<data, input, before, phase>>
        /\ todo'[c] = todo[c] \ {k} /\ failed'[c] = failed[c] \cup {k}
    BY <1>8 DEF RestoreFails, TypeOK
  <2> QED BY <1>5, <1>6, <2>1
<1>9. CASE RestoreTimeout(c)
  BY <1>5, <1>6, <1>9 DEF RestoreTimeout
<1>10. CASE Return(c)
  BY <1>5, <1>6, <1>10 DEF Return
<1> QED BY <1>2, <1>3, <1>4, <1>7, <1>8, <1>9, <1>10 DEF Fn, Restore

-----------------------------------------------------------------------------
(* The outermost call began with the original store.                       *)

\* The running call goes on ...
GoesOn(c) ==
    /\ Runs(c) /\ stack' = stack /\ UNCHANGED <<before, origin, scope>>
    /\ \E p \in Phase \ {"ready", "returned"} : phase' = [phase EXCEPT ![c] = p]
    /\ \A d \in Call : failed[d] \subseteq failed'[d]

\* ... or it returns, from a failed snapshot or at the end of its restore.
Leaves(c) ==
    /\ Runs(c) /\ Pop /\ UNCHANGED <<store, before, origin, scope, failed>>
    /\ phase' = [phase EXCEPT ![c] = "returned"]
    /\ phase[c] = "snapshot" \/ (phase[c] = "restore" /\ todo[c] = {})

LEMMA EveryStep ==
    ASSUME TypeOK, NEW c \in Call, Snapshot(c) \/ Apply(c) \/ Fn(c) \/ Restore(c)
    PROVE  GoesOn(c) \/ Leaves(c)
<1> USE DEF data, input, env, Goto, Phase
<1>1. ASSUME phase' = phase, phase[c] \in Phase \ {"ready", "returned"}, Runs(c), stack' = stack,
             UNCHANGED <<before, origin, scope, failed>>
      PROVE  GoesOn(c)
  <2>1. phase' = [phase EXCEPT ![c] = phase[c]]
    BY <1>1 DEF TypeOK
  <2> QED BY <1>1, <2>1 DEF GoesOn
<1>2. CASE Snapshot(c)
  <2>1. ASSUME NEW k \in Key, ReadSetting(c, k) PROVE GoesOn(c)
    BY <1>1, <2>1 DEF ReadSetting
  <2>2. ASSUME NEW k \in Key, SnapshotFails(c, k) PROVE Leaves(c)
    BY <2>2 DEF SnapshotFails, Leaves
  <2>3. CASE SnapshotDone(c)
    BY <2>3 DEF SnapshotDone, GoesOn
  <2> QED BY <1>2, <2>1, <2>2, <2>3 DEF Snapshot
<1>3. CASE Apply(c)
  <2>1. CASE ApplyRefused(c) \/ ApplyAborts(c)
    BY <2>1 DEF ApplyRefused, ApplyAborts, GoesOn
  <2>2. ASSUME NEW T \in SUBSET Covered(scope[c]), ApplyStart(c, T) PROVE GoesOn(c)
    BY <2>2 DEF ApplyStart, GoesOn
  <2>3. ASSUME NEW k \in Key, NEW v \in Value, ApplyWrite(c, k, v) PROVE GoesOn(c)
    BY <1>1, <2>3 DEF ApplyWrite
  <2>4. ASSUME NEW k \in Key, NEW e \in {Nil, Hard, Warning, Elevation}, ApplyFails(c, k, e)
        PROVE  GoesOn(c)
    BY <1>1, <2>4 DEF ApplyFails
  <2>5. ASSUME NEW w \in {Nil, Warning}, ApplyDone(c, w) PROVE GoesOn(c)
    <3>1. PICK stop \in BOOLEAN :
            phase' = [phase EXCEPT ![c] = IF stop THEN "restore" ELSE "fn"]
      BY <2>5 DEF ApplyDone
    <3>2. Runs(c) /\ UNCHANGED <<stack, before, origin, scope, failed>>
      BY <2>5 DEF ApplyDone
    <3> QED BY <3>1, <3>2 DEF GoesOn
  <2> QED BY <1>3, <2>1, <2>2, <2>3, <2>4, <2>5 DEF Apply
<1>4. CASE Fn(c)
  <2>1. ASSUME NEW k \in Key, NEW v \in Value, FnWrite(c, k, v) PROVE GoesOn(c)
    BY <1>1, <2>1 DEF FnWrite
  <2>2. ASSUME NEW e \in {Nil, Hard, Warning}, FnReturns(c, e) PROVE GoesOn(c)
    BY <2>2 DEF FnReturns, GoesOn
  <2>3. CASE FnPanics(c)
    BY <2>3 DEF FnPanics, GoesOn
  <2> QED BY <1>4, <2>1, <2>2, <2>3 DEF Fn
<1>5. CASE Restore(c)
  <2>1. ASSUME NEW k \in Key, RestoreWrite(c, k) PROVE GoesOn(c)
    BY <1>1, <2>1 DEF RestoreWrite
  <2>2. ASSUME NEW k \in Key, NEW e \in {Nil, Hard, Warning, Elevation}, RestoreFails(c, k, e)
        PROVE  GoesOn(c)
    <3>1. phase' = [phase EXCEPT ![c] = "restore"]
      BY <2>2 DEF RestoreFails, TypeOK
    <3>2. \A d \in Call : failed[d] \subseteq failed'[d]
      BY <2>2 DEF RestoreFails, TypeOK
    <3> QED BY <2>2, <3>1, <3>2 DEF RestoreFails, GoesOn
  <2>3. CASE RestoreTimeout(c)
    BY <1>1, <2>3 DEF RestoreTimeout
  <2>4. CASE Return(c)
    BY <2>4 DEF Return, Leaves
  <2> QED BY <1>5, <2>1, <2>2, <2>3, <2>4 DEF Restore
<1> QED BY <1>2, <1>3, <1>4, <1>5

LEMMA OriginKept ==
    ASSUME TypeOK, OneGoroutine, StackInv, SavedInv, OriginInv, NEW c \in Call, GoesOn(c)
    PROVE  OriginInv'
<1>1. stack # <<>> /\ CommonKeys' = CommonKeys
  BY DEF GoesOn, Runs, CommonKeys, Covered
<1>2. ASSUME NEW k \in CommonKeys, \A d \in Call : k \notin failed'[d]
      PROVE  before'[stack'[1]][k] = origin'[k]
  <2>1. \A d \in Call : k \notin failed[d]
    BY <1>2 DEF GoesOn
  <2> QED BY <1>1, <1>2, <2>1 DEF OriginInv, GoesOn
<1> QED BY <1>1, <1>2 DEF OriginInv, GoesOn

LEMMA OriginOnLeaving ==
    ASSUME TypeOK, OneGoroutine, StackInv, SavedInv, OriginInv, NEW c \in Call, Leaves(c)
    PROVE  OriginInv'
<1>1. CommonKeys' = CommonKeys /\ CommonKeys \subseteq Covered(scope[c]) /\ stack # <<>>
  BY DEF Leaves, Runs, CommonKeys, Covered
<1>2. /\ stack' = <<>> => stack[1] = c
      /\ stack' # <<>> => stack'[1] = stack[1]
  BY StackPopped DEF Leaves, Pop
<1>3. SavedOf(c) /\ UNCHANGED <<store, before, origin, failed>>
  BY DEF SavedInv, Leaves
<1>4. ASSUME NEW k \in CommonKeys, \A d \in Call : k \notin failed[d]
      PROVE  IF stack' = <<>> THEN store[k] = origin[k] ELSE before[stack'[1]][k] = origin[k]
  <2>1. before[stack[1]][k] = origin[k]
    BY <1>1, <1>4 DEF OriginInv
  <2>2. CASE stack' # <<>>
    BY <1>2, <2>1, <2>2
  <2>3. CASE stack' = <<>>
    <3>1. store[k] = before[c][k]
      BY <1>1, <1>3, <1>4 DEF SavedOf, Leaves
    <3> QED BY <1>2, <2>1, <2>3, <3>1
  <2> QED BY <2>2, <2>3
<1> QED BY <1>1, <1>3, <1>4 DEF OriginInv

LEMMA OriginOnBegin ==
    ASSUME TypeOK, OneGoroutine, StackInv, OriginInv, NEW c \in Call, Begin(c)
    PROVE  OriginInv'
<1>1. /\ stack = <<>> => stack'[1] = c
      /\ stack # <<>> => stack'[1] = stack[1]
      /\ stack' # <<>>
  BY StackPushed
<1>2. /\ before' = [before EXCEPT ![c] = store] /\ UNCHANGED <<store, origin, scope, failed>>
      /\ ~IsOpen(c) /\ CommonKeys' = CommonKeys
  BY DEF Begin, MayStart, IsOpen, data, input, CommonKeys, Covered
<1>3. stack # <<>> => stack[1] \in Call /\ IsOpen(stack[1])
  BY DEF TypeOK, StackInv
<1>4. ASSUME NEW k \in CommonKeys, \A d \in Call : k \notin failed[d]
      PROVE  before'[stack'[1]][k] = origin[k]
  <2>1. CASE stack = <<>>
    BY <1>1, <1>2, <1>4, <2>1 DEF OriginInv, TypeOK
  <2>2. CASE stack # <<>>
    BY <1>1, <1>2, <1>3, <1>4, <2>2 DEF OriginInv, TypeOK
  <2> QED BY <2>1, <2>2
<1> QED BY <1>1, <1>2, <1>4 DEF OriginInv

\* Rejecting a call, or cancelling its context, opens and closes nothing.
LEMMA NothingOpens ==
    ASSUME TypeOK, OneGoroutine, StackInv, OriginInv, NEW c \in Call, Reject(c) \/ Cancel(c)
    PROVE  StackInv' /\ OriginInv'
<1>1. /\ UNCHANGED <<store, origin, scope, stack, before, failed>>
      /\ \A d \in Call : IsOpen(d)' <=> IsOpen(d)
      /\ \A d \in Call : IsOpen(d) => phase'[d] = phase[d]
  BY DEF Reject, Cancel, MayStart, Goto, data, input, IsOpen, TypeOK
<1>2. \A i \in 1..Len(stack) : stack[i] \in Call
  BY DEF TypeOK
<1>3. StackInv'
  BY <1>1, <1>2 DEF StackInv, TypeOK
<1>4. OriginInv'
  BY <1>1 DEF OriginInv, CommonKeys, Covered
<1> QED BY <1>3, <1>4

LEMMA IndInvInit == Init => IndInv
<1>1. Init => stack = <<>> /\ Len(<<>>) = 0
  BY EmptySeq DEF Init
<1> QED BY <1>1 DEF Init, IndInv, StackInv, SavedInv, SavedOf, OriginInv, IsOpen, CommonKeys

LEMMA IndInvStep == TypeOK /\ IndInv /\ [Next]_vars => IndInv'
<1> SUFFICES ASSUME TypeOK, OneGoroutine, StackInv, SavedInv, OriginInv, [Next]_vars
             PROVE  StackInv' /\ SavedInv' /\ OriginInv'
  BY DEF IndInv
<1>1. ASSUME NEW c \in Call, Reject(c) \/ Cancel(c)
      PROVE  StackInv' /\ SavedInv' /\ OriginInv'
  BY <1>1, NothingOpens, SavedSnapshot
<1>2. ASSUME NEW c \in Call, Begin(c) PROVE StackInv' /\ SavedInv' /\ OriginInv'
  BY <1>2, StackPushed, SavedSnapshot, OriginOnBegin
<1>3. ASSUME NEW c \in Call, Snapshot(c) \/ Apply(c) \/ Fn(c) \/ Restore(c)
      PROVE  StackInv' /\ SavedInv' /\ OriginInv'
  <2>1. SavedInv'
    BY <1>3, SavedSnapshot, SavedApply, SavedFnRestore
  <2>2. CASE GoesOn(c)
    <3>1. StackInv'
      BY <2>2, StackKept DEF GoesOn
    <3> QED BY <2>1, <2>2, <3>1, OriginKept
  <2>3. CASE Leaves(c)
    <3>1. StackInv'
      BY <2>3, StackPopped DEF Leaves, Pop
    <3> QED BY <2>1, <2>3, <3>1, OriginOnLeaving
  <2> QED BY <1>3, <2>2, <2>3, EveryStep
<1>4. CASE UNCHANGED vars
  BY <1>4 DEF vars, StackInv, SavedInv, SavedOf, OriginInv, IsOpen, CommonKeys, Covered
<1> QED BY <1>1, <1>2, <1>3, <1>4 DEF Next

(***************************************************************************)
(* The inductive invariant behind the results below: the open calls are    *)
(* the stack, a call has saved what it found, what its restore has dealt   *)
(* with is back, and the outermost call found the original store.          *)
(***************************************************************************)
THEOREM Inductive == Spec => []IndInv
BY TypeCorrect, IndInvInit, IndInvStep, PTL DEF Spec

(***************************************************************************)
(* Calls that follow each other, or are nested to any depth, leave no      *)
(* trace: with no call open, a key that all of them cover holds its        *)
(* original value unless restoring that key failed.                        *)
(***************************************************************************)
THEOREM NoTrace == Spec => []LeavesNoTrace
<1>1. IndInv => LeavesNoTrace
  BY DEF IndInv, OriginInv, LeavesNoTrace
<1> QED BY Inductive, <1>1, PTL

(***************************************************************************)
(* In one goroutine a call that returns after its snapshot has put every   *)
(* key of its scope back, but for the keys whose restore failed.           *)
(***************************************************************************)
THEOREM ExactRestore == ASSUME OneGoroutine PROVE Spec => RestoresExactly
<1> DEFINE Exact == \A c \in Call : phase[c] = "restore" /\ phase'[c] = "returned" =>
                       \A k \in Covered(scope[c]) \ failed[c] : store'[k] = before[c][k]
<1>1. TypeOK /\ IndInv /\ [Next]_vars => [Exact]_vars
  <2> SUFFICES ASSUME TypeOK, StackInv, SavedInv, Next, NEW c \in Call,
                      phase[c] = "restore", phase'[c] = "returned",
                      NEW k \in Covered(scope[c]) \ failed[c]
               PROVE  store'[k] = before[c][k]
    BY DEF IndInv
  <2>1. \A d \in Call : Runs(d) => d = c
    BY RunsAlone DEF IsOpen
  <2>2. PICK d \in Call : \/ Reject(d) \/ Begin(d) \/ Cancel(d)
                          \/ Snapshot(d) \/ Apply(d) \/ Fn(d) \/ Restore(d)
    BY DEF Next
  <2>3. ~(Reject(d) \/ Begin(d) \/ Cancel(d))
    BY DEF Reject, Begin, Cancel, MayStart, Goto, TypeOK
  <2>4. GoesOn(d) \/ Leaves(d)
    BY <2>2, <2>3, EveryStep
  <2>5. d = c
    BY <2>1, <2>4 DEF GoesOn, Leaves
  <2>6. Leaves(c)
    BY <2>4, <2>5 DEF GoesOn, TypeOK
  <2> QED BY <2>6 DEF Leaves, SavedInv, SavedOf
<1> QED BY <1>1, TypeCorrect, Inductive, PTL DEF Spec, RestoresExactly

-----------------------------------------------------------------------------
(* That WithProxy implements its contract, and that cancelling the         *)
(* caller's context does not break the restore.                            *)


\* What the result of a call rests on: it works on the keys of its scope
\* only, panics come out of fn, a key that was not put back has left an error
\* in rerr, and only a failing system or the deadline is to blame for it.
ResultOf(c) ==
    /\ todo[c] \subseteq Covered(scope[c]) /\ failed[c] \subseteq Covered(scope[c])
    /\ c \in panicked => phase[c] \in {"restore", "returned"}
    /\ ~(failed[c] \subseteq Unreported) => "hard" \in rerr[c] \/ "warning" \in rerr[c]
    /\ failed[c] # {} => faults > 0 \/ c \in expired

ResultInv == \A c \in Call : ResultOf(c)

LEMMA ResultInit == Init => ResultInv
BY DEF Init, ResultInv, ResultOf

\* For a step of c only c matters.
LEMMA ResultByOne ==
    ASSUME TypeOK, ResultInv, NEW c \in Call, scope' = scope, ResultOf(c)',
           NEW p \in Phase, phase' = [phase EXCEPT ![c] = p],
           \A d \in Call : d # c => /\ todo'[d] = todo[d] /\ failed'[d] = failed[d]
                                    /\ rerr'[d] = rerr[d]
                                    /\ d \in panicked' => d \in panicked,
           expired \subseteq expired', faults' = faults \/ faults' = faults + 1
    PROVE  ResultInv'
<1> SUFFICES ASSUME NEW d \in Call, d # c PROVE ResultOf(d)'
    BY DEF ResultInv
<1>1. ResultOf(d)
    BY DEF ResultInv
<1>2. phase'[d] = phase[d] /\ (faults > 0 => faults' > 0)
    BY DEF TypeOK
<1>q. QED
    BY <1>1, <1>2 DEF ResultOf, Covered

LEMMA ResultSnapshot ==
    ASSUME TypeOK, ResultInv, NEW c \in Call, Reject(c) \/ Begin(c) \/ Cancel(c) \/ Snapshot(c)
    PROVE  ResultInv'
<1> USE DEF data, input, env, Goto, TypeOK
<1>0. ResultOf(c)
    BY DEF ResultInv
<1>1. ASSUME NEW p \in Phase, phase' = [phase EXCEPT ![c] = p], scope' = scope,
             UNCHANGED <<rerr, failed, expired, panicked>>,
             faults' = faults \/ faults' = faults + 1,
             NEW T \in SUBSET Covered(scope[c]), todo' = [todo EXCEPT ![c] = T],
             c \notin panicked
      PROVE  ResultInv'
    <2>1. ResultOf(c)'
        BY <1>0, <1>1 DEF ResultOf, Covered
    <2>q. QED
        BY <1>1, <2>1, ResultByOne
<1>2. phase[c] \in {"ready", "snapshot"} => c \notin panicked
    BY <1>0 DEF ResultOf
<1>3. \A T \in SUBSET todo[c] : T \in SUBSET Covered(scope[c])
    BY <1>0 DEF ResultOf
<1>4. todo = [todo EXCEPT ![c] = todo[c]] /\ phase = [phase EXCEPT ![c] = phase[c]]
    OBVIOUS
<1>5. CASE Reject(c)
    BY <1>1, <1>2, <1>3, <1>4, <1>5 DEF Reject, MayStart, Phase
<1>6. CASE Begin(c)
    BY <1>1, <1>2, <1>6 DEF Begin, MayStart, Phase
<1>7. CASE Cancel(c)
    BY <1>7 DEF Cancel, ResultInv, ResultOf, Covered
<1>8. ASSUME NEW k \in Key, ReadSetting(c, k) PROVE ResultInv'
    <2>1. todo[c] \ {k} \in SUBSET Covered(scope[c])
        BY <1>3
    <2>q. QED
        BY <1>1, <1>2, <1>4, <1>8, <2>1 DEF ReadSetting
<1>9. ASSUME NEW k \in Key, SnapshotFails(c, k) PROVE ResultInv'
    BY <1>1, <1>2, <1>9 DEF SnapshotFails, Fault, Phase
<1>10. CASE SnapshotDone(c)
    BY <1>1, <1>2, <1>3, <1>4, <1>10 DEF SnapshotDone, Phase
<1>q. QED
    BY <1>5, <1>6, <1>7, <1>8, <1>9, <1>10 DEF Snapshot

LEMMA ResultApplyFn ==
    ASSUME TypeOK, ResultInv, NEW c \in Call, Apply(c) \/ Fn(c)
    PROVE  ResultInv'
<1> USE DEF data, input, env, Goto, TypeOK
<1>0. ResultOf(c)
    BY DEF ResultInv
<1>1. ASSUME NEW p \in Phase, phase' = [phase EXCEPT ![c] = p], scope' = scope,
             UNCHANGED <<rerr, failed, expired>>,
             faults' = faults \/ faults' = faults + 1,
             NEW T \in SUBSET Covered(scope[c]), todo' = [todo EXCEPT ![c] = T],
             \/ panicked' = panicked /\ c \notin panicked
             \/ panicked' = panicked \cup {c} /\ p = "restore"
      PROVE  ResultInv'
    <2>1. ResultOf(c)'
        BY <1>0, <1>1 DEF ResultOf, Covered
    <2>q. QED
        BY <1>1, <2>1, ResultByOne
<1>2. phase[c] \in {"apply", "write", "fn"} => c \notin panicked
    BY <1>0 DEF ResultOf
<1>3. todo[c] \in SUBSET Covered(scope[c]) /\ \A k : todo[c] \ {k} \in SUBSET Covered(scope[c])
    BY <1>0 DEF ResultOf
<1>4. todo = [todo EXCEPT ![c] = todo[c]] /\ phase = [phase EXCEPT ![c] = phase[c]]
    OBVIOUS
<1>5. CASE ApplyRefused(c) \/ ApplyAborts(c)
    BY <1>1, <1>2, <1>5 DEF ApplyRefused, ApplyAborts, Fault, Phase
<1>6. ASSUME NEW T \in SUBSET Covered(scope[c]), ApplyStart(c, T) PROVE ResultInv'
    <2>1. /\ phase' = [phase EXCEPT ![c] = "write"] /\ "write" \in Phase
          /\ todo' = [todo EXCEPT ![c] = T] /\ c \notin panicked
          /\ UNCHANGED <<scope, rerr, failed, expired, panicked, faults>>
        BY <1>2, <1>6 DEF ApplyStart, Phase
    <2>q. QED
        BY <1>1, <2>1
<1>7. ASSUME NEW k \in Key, NEW v \in Value, ApplyWrite(c, k, v) PROVE ResultInv'
    <2>1. /\ todo' = [todo EXCEPT ![c] = todo[c] \ {k}] /\ phase' = phase /\ c \notin panicked
          /\ UNCHANGED <<scope, rerr, failed, expired, panicked, faults>>
        BY <1>2, <1>7 DEF ApplyWrite
    <2>q. QED
        BY <1>1, <1>3, <1>4, <2>1
<1>8. ASSUME NEW k \in Key, NEW e \in {Nil, Hard, Warning, Elevation}, ApplyFails(c, k, e)
      PROVE  ResultInv'
    <2>1. /\ todo' = [todo EXCEPT ![c] = todo[c] \ {k}] /\ phase' = phase /\ c \notin panicked
          /\ UNCHANGED <<scope, rerr, failed, expired, panicked>>
          /\ faults' = faults \/ faults' = faults + 1
        BY <1>2, <1>8 DEF ApplyFails, Fault
    <2>q. QED
        BY <1>1, <1>3, <1>4, <2>1
<1>9. ASSUME NEW w \in {Nil, Warning}, ApplyDone(c, w) PROVE ResultInv'
    <2>1. PICK stop \in BOOLEAN :
            /\ phase' = [phase EXCEPT ![c] = IF stop THEN "restore" ELSE "fn"]
            /\ todo' = [todo EXCEPT ![c] = IF stop THEN Covered(scope[c]) ELSE {}]
        BY <1>9 DEF ApplyDone
    <2>2. (IF stop THEN "restore" ELSE "fn") \in Phase
          /\ (IF stop THEN Covered(scope[c]) ELSE {}) \in SUBSET Covered(scope[c])
        BY DEF Phase
    <2>3. phase[c] = "write" /\ UNCHANGED <<scope, rerr, failed, expired, panicked, faults>>
        BY <1>9 DEF ApplyDone
    <2>q. QED
        BY <1>2, <2>1, <2>2, <2>3, <1>1
<1>10. ASSUME NEW k \in Key, NEW v \in Value, FnWrite(c, k, v) PROVE ResultInv'
    <2>1. /\ todo' = [todo EXCEPT ![c] = todo[c]] /\ phase' = phase /\ c \notin panicked
          /\ UNCHANGED <<scope, rerr, failed, expired, panicked, faults>>
        BY <1>2, <1>10 DEF FnWrite
    <2>q. QED
        BY <1>1, <1>3, <1>4, <2>1
<1>11. ASSUME NEW e \in {Nil, Hard, Warning}, FnReturns(c, e) PROVE ResultInv'
    BY <1>1, <1>2, <1>11 DEF FnReturns, Phase
<1>12. CASE FnPanics(c)
    BY <1>1, <1>2, <1>12 DEF FnPanics, Phase
<1>q. QED
    BY <1>5, <1>6, <1>7, <1>8, <1>9, <1>10, <1>11, <1>12 DEF Apply, Fn

LEMMA ResultRestore ==
    ASSUME TypeOK, ResultInv, NEW c \in Call, Restore(c)
    PROVE  ResultInv'
<1> USE DEF data, input, env, Goto, TypeOK
<1>0. ResultOf(c)
    BY DEF ResultInv
<1>4. phase = [phase EXCEPT ![c] = phase[c]]
    OBVIOUS
<1>5. ASSUME NEW k \in Key, RestoreWrite(c, k) PROVE ResultInv'
    <2>1. ResultOf(c)'
        BY <1>0, <1>5 DEF RestoreWrite, ResultOf, Covered
    <2>q. QED
        BY <1>4, <1>5, <2>1, ResultByOne DEF RestoreWrite
<1>6. ASSUME NEW k \in Key, NEW e \in {Nil, Hard, Warning, Elevation}, RestoreFails(c, k, e)
      PROVE  ResultInv'
    <2>1. /\ todo'[c] = todo[c] \ {k} /\ failed'[c] = failed[c] \cup {k} /\ k \in todo[c]
          /\ rerr'[c] = rerr[c] \cup e /\ UNCHANGED <<scope, phase, expired, panicked>>
          /\ phase[c] = "restore"
        BY <1>6 DEF RestoreFails, Join
    <2>2. "hard" \in e \/ "warning" \in e \/ k \in Unreported
        BY <1>6 DEF RestoreFails, Hard, Warning, Elevation
    <2>3. faults' > 0 \/ c \in expired
        BY <1>6 DEF RestoreFails, FailsForContext, Fault
    <2>4. ResultOf(c)'
        BY <1>0, <2>1, <2>2, <2>3 DEF ResultOf, Covered
    <2>q. QED
        BY <1>4, <1>6, <2>4, ResultByOne DEF RestoreFails, Fault
<1>7. CASE RestoreTimeout(c)
    <2>1. ResultOf(c)'
        BY <1>0, <1>7 DEF RestoreTimeout, ResultOf, Covered
    <2>q. QED
        BY <1>4, <1>7, <2>1, ResultByOne DEF RestoreTimeout
<1>8. CASE Return(c)
    <2>1. ResultOf(c)'
        BY <1>0, <1>8 DEF Return, ResultOf, Covered
    <2>q. QED
        BY <1>8, <2>1, ResultByOne DEF Return, Phase
<1>q. QED
    BY <1>5, <1>6, <1>7, <1>8 DEF Restore

LEMMA ResultInvariance == Spec => []ResultInv
<1>1. TypeOK /\ ResultInv /\ [Next]_vars => ResultInv'
    <2>1. ASSUME TypeOK, ResultInv, Next PROVE ResultInv'
        BY <2>1, ResultSnapshot, ResultApplyFn, ResultRestore DEF Next
    <2>2. ASSUME ResultInv, UNCHANGED vars PROVE ResultInv'
        BY <2>2 DEF vars, ResultInv, ResultOf, Covered
    <2>q. QED
        BY <2>1, <2>2
<1>q. QED
    BY ResultInit, <1>1, TypeCorrect, PTL DEF Spec

(***************************************************************************)
(* Callers that cancel their contexts at any moment leave no trace: unless *)
(* a tool failed or a restoreTimeout passed, no restore step fails, so     *)
(* what all calls cover is as it was before the first one.                 *)
(***************************************************************************)
THEOREM CancelIsHarmless == Spec => []CancelLeavesNoTrace
<1>1. ResultInv /\ LeavesNoTrace => CancelLeavesNoTrace
    BY DEF ResultInv, ResultOf, LeavesNoTrace, CancelLeavesNoTrace
<1>q. QED
    BY ResultInvariance, NoTrace, <1>1, PTL

-----------------------------------------------------------------------------
(* The refinement.                                                         *)

\* What the contract sees of the calls other than c.
Others(c) == \A d \in Call \ {c} : Status(d)' = Status(d) /\ Verdict(d)' = Verdict(d)

LEMMA OthersKept ==
    ASSUME TypeOK, NEW c \in Call, NEW p \in Phase, phase' = [phase EXCEPT ![c] = p],
           \A d \in Call \ {c} : err'[d] = err[d] /\ (d \in panicked' <=> d \in panicked)
    PROVE  Others(c)
<1> SUFFICES ASSUME NEW d \in Call \ {c}
             PROVE  Status(d)' = Status(d) /\ Verdict(d)' = Verdict(d)
    BY DEF Others
<1>1. phase'[d] = phase[d]
    BY DEF TypeOK
<1>q. QED
    BY <1>1 DEF Status, Verdict

\* A step that the contract does not see, or sees as a change by c.
LEMMA OpenStep ==
    ASSUME TypeOK, TypeOK', NEW c \in Call, Others(c), scope' = scope, before' = before,
           IsOpen(c), phase[c] # "snapshot", IsOpen(c)', phase'[c] # "snapshot",
           \A d \in Call : phase[d] # "snapshot",
           \/ failed' = failed
           \/ \E K \in SUBSET Covered(scope[c]) : failed' = [failed EXCEPT ![c] = K]
    PROVE  Contract!Change(c)
<1>1. Status(c) = "open" /\ Status(c)' = "open" /\ Verdict(c) = "none" /\ Verdict(c)' = "none"
    BY DEF Status, Verdict, IsOpen
<1>2. \A d \in Call : Status(d)' = Status(d) /\ Verdict(d)' = Verdict(d)
    BY <1>1 DEF Others
<1>3. \A d \in Call : Status(d) # "saving"
    BY DEF Status
<1>4. \A d \in Call : Covered(scope[d])' = Covered(scope[d])
    BY DEF Covered
<1>5. store' \in [Key -> Value]
    BY DEF TypeOK
<1>q. QED
    BY <1>1, <1>2, <1>3, <1>4, <1>5 DEF Contract!Change, Contract!NobodySaves

LEMMA Unseen ==
    ASSUME TypeOK, NEW c \in Call, Others(c), UNCHANGED <<store, scope, before, failed>>,
           Status(c)' = Status(c), Verdict(c)' = Verdict(c)
    PROVE  UNCHANGED Contract!vars
<1>1. \A d \in Call : Status(d)' = Status(d) /\ Verdict(d)' = Verdict(d)
    BY DEF Others
<1>2. \A d \in Call : Covered(scope[d])' = Covered(scope[d])
    BY DEF Covered
<1>q. QED
    BY <1>1, <1>2 DEF Contract!vars

\* A call that is refused.
LEMMA RefuseStep ==
    ASSUME TypeOK, NEW c \in Call, Others(c), UNCHANGED <<store, scope, before, failed>>,
           phase[c] \in {"ready", "snapshot"}, c \notin panicked', "hard" \in err'[c],
           phase' = [phase EXCEPT ![c] = "returned"]
    PROVE  Contract!Refuse(c)
<1>1. /\ Status(c) \in {"idle", "saving"} /\ Status(c)' = "closed"
      /\ Verdict(c)' = "failure"
    BY DEF Status, Verdict, TypeOK
<1>2. \A d \in Call : Covered(scope[d])' = Covered(scope[d])
    BY DEF Covered
<1>q. QED
    BY <1>1, <1>2 DEF Contract!Refuse, Others

\* The error of a restore that did not put everything back has a hard part.
LEMMA FailureIsHard ==
    ASSUME NEW e \in Error, "hard" \in e \/ "warning" \in e
    PROVE  "hard" \in Unclassified(e)
BY DEF Unclassified, IsNonCritical, Flatten, Hard, Nil

LEMMA SnapshotRefines ==
    ASSUME TypeOK, TypeOK', OneGoroutine, StackInv, SavedInv, ResultInv, NEW c \in Call,
           Reject(c) \/ Begin(c) \/ Cancel(c) \/ Snapshot(c)
    PROVE  [Contract!Next]_Contract!vars
<1> USE DEF data, input, env, Goto
<1>0. ResultOf(c)
    BY DEF ResultInv
<1>1. phase = [phase EXCEPT ![c] = phase[c]] /\ phase[c] \in Phase
    BY DEF TypeOK
<1>2. CASE Reject(c)
    <2>1. phase' = [phase EXCEPT ![c] = "returned"] /\ phase[c] = "ready" /\ err'[c] = Hard
        BY <1>2 DEF Reject, MayStart, TypeOK
    <2>2. Others(c)
        BY <1>2, <2>1, OthersKept DEF Reject, TypeOK, Phase
    <2>3. Contract!Refuse(c)
        BY <1>0, <1>2, <2>1, <2>2, RefuseStep DEF Reject, ResultOf, Hard
    <2>q. QED
        BY <2>3 DEF Contract!Next
<1>3. CASE Begin(c)
    <2>1. /\ phase' = [phase EXCEPT ![c] = "snapshot"] /\ phase[c] = "ready"
          /\ before' = [before EXCEPT ![c] = store]
          /\ UNCHANGED <<store, scope, failed, err, panicked>>
          /\ stack # <<>> => phase[stack[Len(stack)]] = "fn"
        BY <1>3 DEF Begin, MayStart
    <2>2. Others(c)
        BY <2>1, OthersKept DEF Phase
    <2>3. \A d \in Call : phase[d] # "snapshot"
        <3> SUFFICES ASSUME NEW d \in Call, phase[d] = "snapshot" PROVE FALSE
            OBVIOUS
        <3>1. PICK i \in 1..Len(stack) : stack[i] = d
            BY DEF StackInv, IsOpen
        <3>2. stack # <<>> /\ (i = Len(stack) \/ i \in 1..(Len(stack) - 1))
            BY <3>1
        <3>q. QED
            BY <2>1, <3>1, <3>2 DEF StackInv
    <2>4. /\ Status(c) = "idle" /\ Status(c)' = "saving" /\ Verdict(c) = "none" /\ Verdict(c)' = "none"
          /\ \A d \in Call : Status(d) # "saving"
        BY <2>1, <2>3 DEF Status, Verdict, TypeOK
    <2>5. \A d \in Call : Covered(scope[d])' = Covered(scope[d]) /\ Verdict(d)' = Verdict(d)
        BY <2>1, <2>2, <2>4 DEF Covered, Others
    <2>6. Contract!Save(c)
        BY <2>1, <2>2, <2>4, <2>5 DEF Contract!Save, Contract!NobodySaves, Others
    <2>q. QED
        BY <2>6 DEF Contract!Next
<1>4. CASE Cancel(c)
    BY <1>1, <1>4, OthersKept, Unseen DEF Cancel, Status, Verdict
<1>5. ASSUME NEW k \in Key, ReadSetting(c, k) PROVE UNCHANGED Contract!vars
    BY <1>1, <1>5, OthersKept, Unseen DEF ReadSetting, Status, Verdict
<1>6. ASSUME NEW k \in Key, SnapshotFails(c, k) PROVE Contract!Refuse(c)
    <2>1. phase' = [phase EXCEPT ![c] = "returned"] /\ phase[c] = "snapshot" /\ err'[c] = Hard
          /\ UNCHANGED <<store, scope, before, failed, panicked>>
        BY <1>6 DEF SnapshotFails, TypeOK
    <2>2. Others(c)
        BY <1>6, <2>1, OthersKept DEF SnapshotFails, TypeOK, Phase
    <2>q. QED
        BY <1>0, <2>1, <2>2, RefuseStep DEF ResultOf, Hard
<1>7. CASE SnapshotDone(c)
    <2>1. phase' = [phase EXCEPT ![c] = "apply"] /\ phase[c] = "snapshot"
          /\ UNCHANGED <<store, scope, before, failed, err, panicked>>
        BY <1>7 DEF SnapshotDone
    <2>2. Others(c)
        BY <2>1, OthersKept DEF Phase
    <2>3. Status(c) = "saving" /\ Status(c)' = "open" /\ Verdict(c) = "none" /\ Verdict(c)' = "none"
        BY <2>1 DEF Status, Verdict, TypeOK
    <2>4. \A d \in Call : Covered(scope[d])' = Covered(scope[d]) /\ Verdict(d)' = Verdict(d)
        BY <2>1, <2>2, <2>3 DEF Covered, Others
    <2>5. Contract!Admit(c)
        BY <2>1, <2>2, <2>3, <2>4 DEF Contract!Admit, Others
    <2>q. QED
        BY <2>5 DEF Contract!Next
<1>q. QED
    BY <1>2, <1>3, <1>4, <1>5, <1>6, <1>7 DEF Snapshot, Contract!Next

\* Nobody saves while a call is applied, runs fn or is restored.
LEMMA NobodySaving ==
    ASSUME TypeOK, OneGoroutine, StackInv, NEW c \in Call, Runs(c), phase[c] # "snapshot"
    PROVE  \A d \in Call : phase[d] # "snapshot"
BY RunsAlone DEF IsOpen

\* Apply, fn and the restore up to its end are changes.
LEMMA ChangeRefines ==
    ASSUME TypeOK, TypeOK', OneGoroutine, StackInv, ResultInv, NEW c \in Call,
           Apply(c) \/ Fn(c) \/ (Restore(c) /\ ~Return(c))
    PROVE  Contract!Change(c)
<1> USE DEF data, input, env, Goto
<1>1. phase = [phase EXCEPT ![c] = phase[c]] /\ phase[c] \in Phase
    BY DEF TypeOK
<1>2. ASSUME NEW p \in {"write", "fn", "restore"}, phase' = [phase EXCEPT ![c] = p],
             Runs(c), phase[c] \in {"apply", "write", "fn", "restore"},
             \A d \in Call \ {c} : err'[d] = err[d] /\ (d \in panicked' <=> d \in panicked),
             UNCHANGED <<scope, before>>,
             \/ failed' = failed
             \/ \E K \in SUBSET Covered(scope[c]) : failed' = [failed EXCEPT ![c] = K]
      PROVE  Contract!Change(c)
    <2>1. Others(c)
        BY <1>2, OthersKept DEF Phase
    <2>2. IsOpen(c) /\ phase'[c] = p /\ IsOpen(c)'
        BY <1>2 DEF IsOpen, TypeOK
    <2>q. QED
        BY <1>2, <2>1, <2>2, NobodySaving, OpenStep
<1>3. CASE ApplyRefused(c) \/ ApplyAborts(c)
    BY <1>2, <1>3 DEF ApplyRefused, ApplyAborts, TypeOK
<1>4. ASSUME NEW T \in SUBSET Covered(scope[c]), ApplyStart(c, T) PROVE Contract!Change(c)
    BY <1>2, <1>4 DEF ApplyStart
<1>5. ASSUME NEW k \in Key, NEW v \in Value, ApplyWrite(c, k, v) PROVE Contract!Change(c)
    BY <1>1, <1>2, <1>5 DEF ApplyWrite
<1>6. ASSUME NEW k \in Key, NEW e \in {Nil, Hard, Warning, Elevation}, ApplyFails(c, k, e)
      PROVE  Contract!Change(c)
    BY <1>1, <1>2, <1>6 DEF ApplyFails, TypeOK
<1>7. ASSUME NEW w \in {Nil, Warning}, ApplyDone(c, w) PROVE Contract!Change(c)
    <2>1. PICK p \in {"fn", "restore"} : phase' = [phase EXCEPT ![c] = p]
        BY <1>7 DEF ApplyDone
    <2>2. /\ Runs(c) /\ phase[c] = "write" /\ UNCHANGED <<scope, before, failed, panicked>>
          /\ \A d \in Call \ {c} : err'[d] = err[d]
        BY <1>7 DEF ApplyDone, TypeOK
    <2>q. QED
        BY <1>2, <2>1, <2>2
<1>8. ASSUME NEW k \in Key, NEW v \in Value, FnWrite(c, k, v) PROVE Contract!Change(c)
    BY <1>1, <1>2, <1>8 DEF FnWrite
<1>9. ASSUME NEW e \in {Nil, Hard, Warning}, FnReturns(c, e) PROVE Contract!Change(c)
    BY <1>2, <1>9 DEF FnReturns, TypeOK
<1>10. CASE FnPanics(c)
    BY <1>2, <1>10 DEF FnPanics
<1>11. ASSUME NEW k \in Key, RestoreWrite(c, k) PROVE Contract!Change(c)
    BY <1>1, <1>2, <1>11 DEF RestoreWrite
<1>12. ASSUME NEW k \in Key, NEW e \in {Nil, Hard, Warning, Elevation}, RestoreFails(c, k, e)
       PROVE  Contract!Change(c)
    <2>1. /\ Runs(c) /\ phase[c] = "restore" /\ UNCHANGED <<scope, before, phase, err, panicked>>
          /\ failed' = [failed EXCEPT ![c] = failed[c] \cup {k}] /\ k \in todo[c]
        BY <1>12 DEF RestoreFails
    <2>2. failed[c] \cup {k} \in SUBSET Covered(scope[c])
        BY <2>1 DEF ResultInv, ResultOf
    <2>q. QED
        BY <1>1, <1>2, <2>1, <2>2
<1>13. CASE RestoreTimeout(c)
    BY <1>1, <1>2, <1>13 DEF RestoreTimeout
<1>q. QED
    BY <1>3, <1>4, <1>5, <1>6, <1>7, <1>8, <1>9, <1>10, <1>11, <1>12, <1>13
    DEF Apply, Fn, Restore

\* The return closes the call, with its keys back and a truthful verdict.
LEMMA ReturnRefines ==
    ASSUME TypeOK, TypeOK', OneGoroutine, StackInv, SavedInv, ResultInv, NEW c \in Call, Return(c)
    PROVE  Contract!Close(c)
<1>1. /\ Runs(c) /\ phase[c] = "restore" /\ todo[c] = {}
      /\ phase' = [phase EXCEPT ![c] = "returned"]
      /\ err' = [err EXCEPT ![c] = err[c] \cup Unclassified(rerr[c])]
      /\ UNCHANGED <<store, scope, before, failed, panicked>>
    BY DEF Return, Goto, data, input, env, Join
<1>2. Others(c)
    BY <1>1, OthersKept DEF TypeOK, Phase
<1>3. \A d \in Call : Status(d) # "saving"
    BY <1>1, NobodySaving DEF Status
<1>4. \A k \in Covered(scope[c]) \ failed[c] : store[k] = before[c][k]
    BY <1>1 DEF SavedInv, SavedOf
<1>5. Status(c) = "open" /\ Status(c)' = "closed"
    BY <1>1 DEF Status, TypeOK
<1>6. Verdict(c)' \in IF failed[c] \subseteq Unreported THEN {"ok", "failure", "panic"} ELSE {"failure", "panic"}
    <2>1. phase'[c] = "returned" /\ err'[c] = err[c] \cup Unclassified(rerr[c])
        BY <1>1 DEF TypeOK
    <2>2. ~(failed[c] \subseteq Unreported) => "hard" \in err'[c]
        BY <2>1, FailureIsHard DEF ResultInv, ResultOf, TypeOK
    <2>q. QED
        BY <1>1, <2>1, <2>2 DEF Verdict
<1>7. \A d \in Call : Covered(scope[d])' = Covered(scope[d])
    BY <1>1 DEF Covered
<1>q. QED
    BY <1>1, <1>2, <1>3, <1>4, <1>5, <1>6, <1>7 DEF Contract!Close, Contract!NobodySaves, Others

LEMMA ContractInit == TypeOK /\ Init => Contract!Init
BY CoveredInKey DEF Init, TypeOK, Contract!Init, Status, Verdict

(***************************************************************************)
(* WithProxy keeps its contract, for any calls, keys and values and any    *)
(* failures: calls of one goroutine, one after the other or nested, put    *)
(* back what they cover or return an error with a hard part; what they may *)
(* lose without one is in Unreported.                                      *)
(***************************************************************************)
THEOREM ContractKept == ASSUME OneGoroutine PROVE Spec => KeepsContract
<1>1. /\ TypeOK /\ TypeOK' /\ IndInv /\ ResultInv /\ [Next]_vars
      => [Contract!Next]_Contract!vars
    <2> SUFFICES ASSUME TypeOK, TypeOK', StackInv, SavedInv, ResultInv, [Next]_vars
                 PROVE  [Contract!Next]_Contract!vars
        BY DEF IndInv
    <2>1. CASE UNCHANGED vars
        BY <2>1 DEF vars, Contract!vars, Status, Verdict, Covered
    <2>2. ASSUME NEW c \in Call, Reject(c) \/ Begin(c) \/ Cancel(c) \/ Snapshot(c)
          PROVE  [Contract!Next]_Contract!vars
        BY <2>2, SnapshotRefines
    <2>3. ASSUME NEW c \in Call, Apply(c) \/ Fn(c) \/ Restore(c)
          PROVE  Contract!Next
        BY <2>3, ChangeRefines, ReturnRefines DEF Contract!Next
    <2>q. QED
        BY <2>1, <2>2, <2>3 DEF Next
<1>2. TypeOK /\ Init => Contract!Init
    BY ContractInit
<1>3. Spec => []TypeOK /\ []IndInv /\ []ResultInv
    BY TypeCorrect, Inductive, ResultInvariance
<1>q. QED
    BY <1>1, <1>2, <1>3, PTL DEF Spec, KeepsContract, Contract!Spec
=============================================================================
