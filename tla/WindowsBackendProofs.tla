------------------------ MODULE WindowsBackendProofs ------------------------
(***************************************************************************)
(* That the Windows backend keeps the logins of others in Credential       *)
(* Manager, and that its operations and the restore do what they report,   *)
(* for any hosts and values, any sequence of operations, and any number of *)
(* failing calls.                                                          *)
(***************************************************************************)
EXTENDS WindowsBackend, TLAPS

\* A call that may be part of operation o, where `keep` is the host of the
\* proxy that a restore puts back: only Set stores a login, for its own host;
\* what Unset and a restore remove is not the login that is to be kept.
MayCall(o, keep, c) ==
    /\ c.do = "store"  => o.name = "set" /\ c.name = o.arg.host
    /\ c.do = "remove" => o.name # "set" /\ (o.name = "restore" => c.name # keep)

\* A sequence of such calls.
Polite(o, keep, s) ==
    /\ \E S : s \in Seq(S)
    /\ \A i \in 1..Len(s) : MayCall(o, keep, s[i])

LEMMA Nothing == ASSUME NEW o, NEW keep PROVE Polite(o, keep, <<>>)
<1>1. <<>> \in Seq({})
    OBVIOUS
<1>q. QED
    BY <1>1 DEF Polite

LEMMA Single ==
    ASSUME NEW o, NEW keep, NEW c, MayCall(o, keep, c) PROVE Polite(o, keep, <<c>>)
<1>1. <<c>> \in Seq({c})
    OBVIOUS
<1>2. Len(<<c>>) = 1 /\ <<c>>[1] = c
    OBVIOUS
<1>3. \A i \in 1..Len(<<c>>) : MayCall(o, keep, <<c>>[i])
    <2>1. \A i \in 1..1 : i = 1
        OBVIOUS
    <2>q. QED
        BY <1>2, <2>1
<1>4. \E S : <<c>> \in Seq(S)
    BY <1>1
<1>q. QED
    BY <1>3, <1>4 DEF Polite

LEMMA Concatenated ==
    ASSUME NEW o, NEW keep, NEW s, NEW t, Polite(o, keep, s), Polite(o, keep, t)
    PROVE  Polite(o, keep, s \o t)
<1>1. PICK S : s \in Seq(S)
    BY DEF Polite
<1>2. PICK T : t \in Seq(T)
    BY DEF Polite
<1>3. s \in Seq(S \cup T) /\ t \in Seq(S \cup T)
    BY <1>1, <1>2
<1>4. s \o t \in Seq(S \cup T)
    BY <1>3
<1>5. ASSUME NEW i \in 1..Len(s \o t) PROVE MayCall(o, keep, (s \o t)[i])
    <2>1. CASE i <= Len(s)
        <3>1. i \in 1..Len(s) /\ (s \o t)[i] = s[i]
            BY <1>3, <1>5, <2>1
        <3>q. QED
            BY <3>1 DEF Polite
    <2>2. CASE i > Len(s)
        <3>1. i - Len(s) \in 1..Len(t) /\ (s \o t)[i] = t[i - Len(s)]
            BY <1>3, <1>5, <2>2
        <3>q. QED
            BY <3>1 DEF Polite
    <2>q. QED
        BY <1>3, <1>5, <2>1, <2>2
<1>q. QED
    BY <1>4, <1>5 DEF Polite

\* The rest of a sequence, and its first call.
LEMMA Rest ==
    ASSUME NEW o, NEW keep, NEW s, Polite(o, keep, s), s # <<>>
    PROVE  Polite(o, keep, Tail(s)) /\ MayCall(o, keep, Head(s))
<1>1. PICK S : s \in Seq(S)
    BY DEF Polite
<1>2. Len(s) > 0 /\ Head(s) = s[1]
    BY <1>1
<1>3. Tail(s) \in Seq(S) /\ Len(Tail(s)) = Len(s) - 1
    BY <1>1, <1>2
<1>4. \A i \in 1..Len(Tail(s)) : i + 1 \in 1..Len(s) /\ Tail(s)[i] = s[i + 1]
    BY <1>1, <1>2, <1>3
<1>q. QED
    BY <1>1, <1>2, <1>3, <1>4 DEF Polite

-----------------------------------------------------------------------------
(* The operations.                                                         *)

\* A call of reg, and the notification, have nothing to do with logins.
LEMMA RegCalls ==
    ASSUME NEW o, NEW keep, NEW name, NEW value
    PROVE  /\ Polite(o, keep, Run(name, value))
           /\ Polite(o, keep, TryDelete(name))
           /\ Polite(o, keep, Notify)
<1>1. ASSUME NEW do \in {"add", "delete", "notify"}, NEW n, NEW v, NEW must
      PROVE  Polite(o, keep, Call(do, n, v, must))
    <2>1. MayCall(o, keep, [do |-> do, name |-> n, value |-> v, must |-> must])
        BY DEF MayCall
    <2>q. QED
        BY <2>1, Single DEF Call
<1>q. QED
    BY <1>1 DEF Run, TryDelete, Notify

LEMMA RemoveIsPolite ==
    ASSUME NEW o, NEW keep, NEW h, o.name # "set", o.name = "restore" => h # keep
    PROVE  Polite(o, keep, RemoveLogin(h))
<1>1. MayCall(o, keep, [do |-> "remove", name |-> h, value |-> None, must |-> FALSE])
    BY DEF MayCall
<1>q. QED
    BY <1>1, Single DEF RemoveLogin, Call

LEMMA StoreIsPolite ==
    ASSUME NEW o, NEW keep, o.name = "set" PROVE Polite(o, keep, StoreLogin(o.arg.host))
<1>1. MayCall(o, keep, [do |-> "store", name |-> o.arg.host, value |-> None, must |-> FALSE])
    BY DEF MayCall
<1>q. QED
    BY <1>1, Single DEF StoreLogin, Call

LEMMA ProgramIsPolite ==
    ASSUME NEW o \in Operations, NEW keep, NEW host PROVE Polite(o, keep, Program(o, host))
<1> DEFINE P(s) == Polite(o, keep, s)
<1>1. o.name \in {"set", "unset", "pac", "multi"}
    BY DEF Operations
<1>2. CASE o.name = "set"
    <2>1. P(IF o.arg.user THEN StoreLogin(o.arg.host) ELSE <<>>)
        BY <1>2, StoreIsPolite, Nothing
    <2>2. P(SetGlobal(o.arg))
        BY <2>1, RegCalls, Concatenated DEF SetGlobal
    <2>q. QED
        BY <1>2, <2>2 DEF Program
<1>3. CASE o.name = "unset"
    <2>1. P(IF host = None THEN <<>> ELSE RemoveLogin(host))
        BY <1>3, RemoveIsPolite, Nothing
    <2>2. P(UnsetGlobal(host))
        BY <2>1, RegCalls, Concatenated DEF UnsetGlobal
    <2>q. QED
        BY <1>3, <2>2 DEF Program
<1>4. CASE o.name = "pac"
    <2>1. P(SetGlobalPAC(o.arg))
        BY RegCalls, Concatenated DEF SetGlobalPAC
    <2>q. QED
        BY <1>4, <2>1 DEF Program
<1>5. CASE o.name = "multi"
    <2>1. P(IF NamesKind(o.arg)
            THEN TryDelete("AutoConfigURL") \o Run("ProxyEnable", 1)
                 \o Run("ProxyServer", Merge(reg["ProxyServer"], o.arg))
            ELSE <<>>)
        BY RegCalls, Concatenated, Nothing
    <2>2. P(IF o.arg["bypass"] = None THEN <<>> ELSE Run("ProxyOverride", o.arg["bypass"]))
        BY RegCalls, Nothing
    <2>3. P(SetGlobalMulti(o.arg))
        BY <2>1, <2>2, RegCalls, Concatenated DEF SetGlobalMulti
    <2>q. QED
        BY <1>5, <2>3 DEF Program
<1>q. QED
    BY <1>1, <1>2, <1>3, <1>4, <1>5

\* The host of the proxy that a restore puts back.
Kept == ProxyServerHost(snap.reg["ProxyServer"])

LEMMA RestoreIsPolite ==
    ASSUME NEW host PROVE Polite([name |-> "restore"], Kept, RestoreGlobal(host))
<1> DEFINE P(s) == Polite([name |-> "restore"], Kept, s)
<1>1. ASSUME NEW name PROVE P(PutBack(name))
    BY RegCalls DEF PutBack
<1>2. P(PutAllBack)
    BY <1>1, Concatenated DEF PutAllBack
<1>3. P(Leaves(host))
    <2>1. CASE host \in {None, Kept}
        BY <2>1, Nothing DEF Leaves, Kept
    <2>2. CASE host \notin {None, Kept}
        BY <2>2, RemoveIsPolite DEF Leaves, Kept
    <2>q. QED
        BY <2>1, <2>2
<1>4. P(IF snap.reg["ProxyEnable"] = None THEN TryDelete("ProxyEnable") ELSE <<>>)
    BY RegCalls, Nothing
<1>q. QED
    BY <1>2, <1>3, <1>4, RegCalls, Concatenated DEF RestoreGlobal

-----------------------------------------------------------------------------
(* The steps.                                                              *)

\* What an operation has left to do is polite, and nothing is left when none
\* is under way.
LoginInv == /\ DOMAIN logins = Host
            /\ ~running => prog = <<>>
            /\ Polite(op, Kept, prog)

\* Every step keeps that: an operation begins with a polite sequence, and goes
\* on with the rest of it.
LEMMA LoginStep == LoginInv /\ [Next]_vars => LoginInv'
<1> SUFFICES ASSUME LoginInv, [Next]_vars PROVE LoginInv'
    OBVIOUS
<1> USE DEF bounds
<1>1. ASSUME NEW o \in Operations, Start(o) PROVE LoginInv'
    BY <1>1, ProgramIsPolite DEF Start, Begins, LoginInv
<1>2. CASE StartBlind
    <2>1. [name |-> "unset"] \in Operations
        BY DEF Operations
    <2>2. Polite(op', Kept', UnsetGlobal(None))
        BY <1>2, <2>1, ProgramIsPolite DEF StartBlind, Begins, Program
    <2>q. QED
        BY <1>2, <2>2 DEF StartBlind, Begins, LoginInv
<1>3. ASSUME NEW o \in Operations, StartFails(o) PROVE LoginInv'
    BY <1>3, Nothing DEF StartFails, Begins, LoginInv
<1>4. CASE CallWorks \/ CallFails
    <2>1. Polite(op, Kept, prog')
        BY <1>4, Rest DEF CallWorks, CallFails, LoginInv
    <2>2. op' = op /\ snap' = snap /\ running' = running /\ running
        BY <1>4 DEF CallWorks, CallFails
    <2>3. DOMAIN logins' = Host
        BY <1>4 DEF CallWorks, CallFails, Store, Remove, LoginInv
    <2>q. QED
        BY <2>1, <2>2, <2>3 DEF LoginInv, Kept
<1>5. CASE Cancel
    BY <1>5 DEF Cancel, LoginInv, Kept
<1>6. CASE Finish \/ Snapshot \/ SnapshotFails
    BY <1>6, Nothing DEF Finish, Snapshot, SnapshotFails, Begins, LoginInv
<1>7. CASE Restore
    <2>1. snap' = snap /\ op' = [name |-> "restore"] /\ running' /\ UNCHANGED logins
        BY <1>7 DEF Restore, Begins
    <2>2. Polite(op', Kept, prog')
        BY <1>7, <2>1, RestoreIsPolite DEF Restore
    <2>q. QED
        BY <2>1, <2>2 DEF LoginInv, Kept
<1>8. CASE UNCHANGED vars
    BY <1>8 DEF vars, LoginInv, Kept
<1>q. QED
    BY <1>1, <1>2, <1>3, <1>4, <1>5, <1>6, <1>7, <1>8 DEF Next

\* Logins only change by a call that works.
LEMMA OtherSteps ==
    ASSUME [Next]_vars, ~CallWorks PROVE UNCHANGED logins
BY DEF Next, Start, StartFails, StartBlind, Begins, CallFails, Cancel, Finish, Snapshot,
       SnapshotFails, Restore, vars

LEMMA CallKeeps ==
    ASSUME LoginInv, CallWorks, NEW h \in Host, logins'[h] # logins[h]
    PROVE  /\ logins[h] # "foreign"
           /\ op.name = "set" => h = op.arg.host
           /\ op.name = "restore" => h # Kept
<1> DEFINE c == Head(prog)
<1>1. MayCall(op, Kept, c)
    BY Rest DEF LoginInv, CallWorks
<1>2. CASE c.do = "store" /\ Store(c.name)
    <2>1. h = c.name /\ logins[h] # "foreign"
        BY <1>2 DEF Store, LoginInv
    <2>q. QED
        BY <1>1, <1>2, <2>1 DEF MayCall
<1>3. CASE c.do = "remove" /\ Remove(c.name)
    <2>1. h = c.name /\ logins[h] = "ours"
        BY <1>3 DEF Remove, LoginInv
    <2>q. QED
        BY <1>1, <1>3, <2>1 DEF MayCall
<1>4. (c.do = "store" /\ Store(c.name)) \/ (c.do = "remove" /\ Remove(c.name))
    BY DEF CallWorks
<1>q. QED
    BY <1>2, <1>3, <1>4

\* "Set does not overwrite, and Unset does not delete, an entry that belongs
\* to someone else": no call of any operation changes a login of another
\* program; Set changes none but that of its own host, and a restore not the
\* one for the proxy that it puts back.
THEOREM OthersLogins == Spec => LoginsAreKept
<1>1. Init => LoginInv
    BY WindowsAssumption, Nothing DEF Init, LoginInv
<1>2. LoginInv /\ [Next]_vars =>
        [\A h \in Host : logins'[h] # logins[h] =>
            /\ logins[h] # "foreign"
            /\ op.name = "set" => h = op.arg.host
            /\ op.name = "restore" => h # ProxyServerHost(snap.reg["ProxyServer"])]_vars
    BY CallKeeps, OtherSteps DEF Kept
<1>q. QED
    BY <1>1, <1>2, LoginStep, PTL DEF Spec, LoginsAreKept

-----------------------------------------------------------------------------
(* What the calls do.  The second argument is a proof outline: an operation *)
(* is under way with an assertion between each two of its calls, a set of   *)
(* states that every outcome of the call before leads into.                 *)

State == [reg : Registry, live : Registry, logins : [Host -> Login],
          errs : {Nil, Hard}, warn : {Nil, Warning}, skipped : BOOLEAN]

Now == [reg |-> reg, live |-> live, logins |-> logins, errs |-> errs, warn |-> warn,
        skipped |-> skipped]

\* The values that a name may have.
Values(n) == [ProxyEnable |-> {0, 1, None}, ProxyServer |-> (Server \ {NoServer}) \cup {None},
              ProxyOverride |-> Bypass \cup {None}, AutoConfigURL |-> Pac \cup {None}][n]

NameSet == {"ProxyEnable", "ProxyServer", "ProxyOverride", "AutoConfigURL"}

\* The state after a call, where t has the fields of a state.
Worked(c, s, t) ==
    /\ t.errs = s.errs /\ t.skipped = s.skipped
    /\ UsesContext(c) => /\ t.reg = [s.reg EXCEPT ![c.name] = c.value]
                         /\ t.live = s.live /\ t.logins = s.logins /\ t.warn = s.warn
    /\ c.do = "store" => /\ t.reg = s.reg /\ t.live = s.live
                         /\ IF s.logins[c.name] = "foreign"
                            THEN t.warn = Warning /\ t.logins = s.logins
                            ELSE t.warn = s.warn /\ t.logins = [s.logins EXCEPT ![c.name] = "ours"]
    /\ c.do = "remove" => /\ t.reg = s.reg /\ t.live = s.live /\ t.warn = s.warn
                          /\ t.logins = [s.logins EXCEPT ![c.name] =
                                IF s.logins[c.name] = "ours" THEN "none" ELSE s.logins[c.name]]
    /\ c.do = "notify" => /\ s.reg["ProxyEnable"] # None => t.reg = s.reg
                          /\ \A n \in NameSet : t.reg[n] # s.reg[n] => n \in {"ProxyEnable", "ProxyServer"}
                          /\ t.reg \in Registry
                          /\ t.live = t.reg /\ t.logins = s.logins /\ t.warn = s.warn

Failed(c, s, t) ==
    /\ t.reg = s.reg /\ t.live = s.live /\ t.logins = s.logins
    /\ c.must  => t.errs = Hard
    /\ ~c.must => t.errs = s.errs
    /\ c.do = "store" => t.warn = Warning /\ t.skipped = s.skipped
    /\ c.do # "store" => t.warn = s.warn
    /\ ~c.must /\ c.do # "store" => t.skipped = TRUE
    /\ c.must => t.skipped = s.skipped

Fields(t) == t = [reg |-> t.reg, live |-> t.live, logins |-> t.logins, errs |-> t.errs,
                  warn |-> t.warn, skipped |-> t.skipped]

Outcome(c, s, t) == Fields(t) /\ (Worked(c, s, t) \/ Failed(c, s, t))

\* From a state in P, the calls of sequence p lead to a state in Q.
Leads(P, p, Q) ==
    \E S, A :
        /\ p \in Seq(S) /\ A \in [1..(Len(p) + 1) -> SUBSET State]
        /\ P \subseteq A[1] /\ A[Len(p) + 1] \subseteq Q
        /\ \A i \in 1..Len(p) : \A s \in A[i] : \A t : Outcome(p[i], s, t) => t \in A[i + 1]

LEMMA NoCalls ==
    ASSUME NEW P \in SUBSET State, NEW Q, P \subseteq Q PROVE Leads(P, <<>>, Q)
<1> DEFINE A == [i \in 1..(Len(<<>>) + 1) |-> P]
<1>1. <<>> \in Seq({}) /\ Len(<<>>) = 0 /\ A \in [1..(Len(<<>>) + 1) -> SUBSET State]
    OBVIOUS
<1>2. A[1] = P /\ A[Len(<<>>) + 1] = P /\ \A i \in 1..Len(<<>>) : FALSE
    BY <1>1
<1> HIDE DEF A
<1>3. \A i \in 1..Len(<<>>) : \A s \in A[i] : \A t : Outcome(<<>>[i], s, t) => t \in A[i + 1]
    BY <1>2
<1>q. QED
    BY <1>1, <1>2, <1>3, Zenon DEF Leads

LEMMA OneCall ==
    ASSUME NEW P \in SUBSET State, NEW Q \in SUBSET State, NEW c,
           \A s \in P : \A t : Outcome(c, s, t) => t \in Q
    PROVE  Leads(P, <<c>>, Q)
<1> DEFINE A == [i \in 1..(Len(<<c>>) + 1) |-> IF i = 1 THEN P ELSE Q]
<1>1. <<c>> \in Seq({c}) /\ Len(<<c>>) = 1 /\ <<c>>[1] = c
    OBVIOUS
<1>2. /\ A \in [1..(Len(<<c>>) + 1) -> SUBSET State]
      /\ A[1] = P /\ A[2] = Q /\ A[Len(<<c>>) + 1] = Q
    BY <1>1
<1> HIDE DEF A
<1>3. ASSUME NEW i \in 1..Len(<<c>>), NEW s \in A[i], NEW t, Outcome(<<c>>[i], s, t)
      PROVE  t \in A[i + 1]
    <2>1. i = 1
        BY <1>1, <1>3
    <2>2. Outcome(c, s, t) /\ s \in P
        BY <1>1, <1>2, <1>3, <2>1
    <2>q. QED
        BY <1>2, <2>1, <2>2
<1>q. QED
    BY <1>1, <1>2, <1>3, Zenon DEF Leads

LEMMA InSequence ==
    ASSUME NEW P, NEW Q, NEW R, NEW p, NEW q, Leads(P, p, Q), Leads(Q, q, R)
    PROVE  Leads(P, p \o q, R)
<1>1. PICK S, A :
        /\ p \in Seq(S) /\ A \in [1..(Len(p) + 1) -> SUBSET State]
        /\ P \subseteq A[1] /\ A[Len(p) + 1] \subseteq Q
        /\ \A i \in 1..Len(p) : \A s \in A[i] : \A t : Outcome(p[i], s, t) => t \in A[i + 1]
    BY Zenon DEF Leads
<1>2. PICK T, B :
        /\ q \in Seq(T) /\ B \in [1..(Len(q) + 1) -> SUBSET State]
        /\ Q \subseteq B[1] /\ B[Len(q) + 1] \subseteq R
        /\ \A i \in 1..Len(q) : \A s \in B[i] : \A t : Outcome(q[i], s, t) => t \in B[i + 1]
    BY Zenon DEF Leads
<1>3. p \in Seq(S \cup T) /\ q \in Seq(S \cup T)
    BY <1>1, <1>2
<1> DEFINE r == p \o q
           C == [i \in 1..(Len(r) + 1) |-> IF i <= Len(p) THEN A[i] ELSE B[i - Len(p)]]
<1>4. r \in Seq(S \cup T) /\ Len(r) = Len(p) + Len(q) /\ Len(p) \in Nat /\ Len(q) \in Nat
    BY <1>3
<1>5. \A i \in 1..Len(r) : \/ i \in 1..Len(p) /\ r[i] = p[i]
                           \/ i - Len(p) \in 1..Len(q) /\ r[i] = q[i - Len(p)]
    BY <1>3, <1>4
<1> HIDE DEF r
<1>6. C \in [1..(Len(r) + 1) -> SUBSET State]
    BY <1>1, <1>2, <1>4
<1>7. /\ \A i \in 1..Len(p) : C[i] = A[i]
      /\ \A i \in 1..(Len(q) + 1) : C[Len(p) + i] = B[i]
    BY <1>4
<1> HIDE DEF C
<1>8. \A s : s \in A[Len(p) + 1] => s \in C[Len(p) + 1]
    <2>1. C[Len(p) + 1] = B[1]
        BY <1>4, <1>7
    <2>q. QED
        BY <1>1, <1>2, <2>1
<1>9. P \subseteq C[1]
    <2>1. CASE Len(p) = 0
        BY <1>1, <1>8, <2>1
    <2>2. CASE Len(p) # 0
        <3>1. C[1] = A[1]
            BY <1>4, <1>7, <2>2
        <3>q. QED
            BY <1>1, <3>1
    <2>q. QED
        BY <2>1, <2>2
<1>10. C[Len(r) + 1] \subseteq R
    <2>1. C[Len(r) + 1] = B[Len(q) + 1]
        <3>1. Len(q) + 1 \in 1..(Len(q) + 1) /\ Len(r) + 1 = Len(p) + (Len(q) + 1)
            BY <1>4
        <3>q. QED
            BY <1>7, <3>1
    <2>q. QED
        BY <1>2, <2>1
<1>11. ASSUME NEW i \in 1..Len(r), NEW s \in C[i], NEW t, Outcome(r[i], s, t) PROVE t \in C[i + 1]
    <2>1. CASE i \in 1..Len(p) /\ r[i] = p[i]
        <3>1. t \in A[i + 1]
            BY <1>1, <1>7, <1>11, <2>1
        <3>2. CASE i + 1 \in 1..Len(p)
            BY <1>7, <3>1, <3>2
        <3>3. CASE i + 1 = Len(p) + 1
            BY <1>8, <3>1, <3>3
        <3>q. QED
            BY <1>4, <2>1, <3>2, <3>3
    <2>2. CASE i - Len(p) \in 1..Len(q) /\ r[i] = q[i - Len(p)]
        <3> DEFINE j == i - Len(p)
        <3>1. j \in 1..Len(q) /\ j \in 1..(Len(q) + 1) /\ j + 1 \in 1..(Len(q) + 1)
            BY <1>4, <2>2
        <3>2. Len(p) + j = i /\ Len(p) + (j + 1) = i + 1 /\ r[i] = q[j]
            BY <1>4, <2>2
        <3> HIDE DEF j
        <3>3. C[i] = B[j] /\ C[i + 1] = B[j + 1]
            BY <1>7, <3>1, <3>2
        <3>q. QED
            BY <1>2, <1>11, <3>1, <3>2, <3>3
    <2>q. QED
        BY <1>5, <1>11, <2>1, <2>2
<1>12. Leads(P, r, R)
    BY <1>4, <1>6, <1>9, <1>10, <1>11, Zenon DEF Leads
<1>q. QED
    BY <1>12 DEF r

\* The assertion after the first call.
LEMMA FirstCall ==
    ASSUME NEW P, NEW p, NEW Q, Leads(P, p, Q), p # <<>>
    PROVE  \E R \in SUBSET State : /\ \A s \in P : \A t : Outcome(Head(p), s, t) => t \in R
                                   /\ Leads(R, Tail(p), Q)
<1>1. PICK S, A :
        /\ p \in Seq(S) /\ A \in [1..(Len(p) + 1) -> SUBSET State]
        /\ P \subseteq A[1] /\ A[Len(p) + 1] \subseteq Q
        /\ \A i \in 1..Len(p) : \A s \in A[i] : \A t : Outcome(p[i], s, t) => t \in A[i + 1]
    BY Zenon DEF Leads
<1> DEFINE q == Tail(p)
           B == [i \in 1..(Len(q) + 1) |-> A[i + 1]]
<1>2. /\ q \in Seq(S) /\ Len(p) \in Nat \ {0} /\ Len(q) = Len(p) - 1 /\ Head(p) = p[1]
      /\ 1 \in 1..Len(p)
    BY <1>1
<1>3. \A i \in 1..Len(q) : i + 1 \in 1..Len(p) /\ q[i] = p[i + 1]
    BY <1>1, <1>2
<1> HIDE DEF q
<1>4. B \in [1..(Len(q) + 1) -> SUBSET State] /\ \A i \in 1..(Len(q) + 1) : B[i] = A[i + 1]
    BY <1>1, <1>2
<1> HIDE DEF B
<1>5. B[Len(q) + 1] \subseteq Q /\ A[2] \subseteq B[1] /\ A[2] \in SUBSET State
    BY <1>1, <1>2, <1>4
<1>6. ASSUME NEW i \in 1..Len(q), NEW s \in B[i], NEW t, Outcome(q[i], s, t) PROVE t \in B[i + 1]
    <2>1. i \in 1..(Len(q) + 1) /\ i + 1 \in 1..(Len(q) + 1)
        BY <1>2, <1>6
    <2>q. QED
        BY <1>1, <1>3, <1>4, <1>6, <2>1
<1>7. Leads(A[2], q, Q)
    BY <1>2, <1>4, <1>5, <1>6, Zenon DEF Leads
<1>8. \A s \in P : \A t : Outcome(Head(p), s, t) => t \in A[2]
    BY <1>1, <1>2
<1>q. QED
    BY <1>5, <1>7, <1>8 DEF q

-----------------------------------------------------------------------------
(* One call of each sort, and what the state after it has of the one       *)
(* before.                                                                 *)

\* Only reg changes.
Wrote(s, t, n, v) ==
    /\ t.reg[n] = v /\ \A m \in NameSet \ {n} : t.reg[m] = s.reg[m]
    /\ t.live = s.live /\ t.logins = s.logins /\ t.warn = s.warn
    /\ t.errs = s.errs /\ t.skipped = s.skipped

Deleted(s, t, n) ==
    /\ s.skipped => t.skipped
    /\ t.skipped \/ t.reg[n] = None
    /\ \A m \in NameSet \ {n} : t.reg[m] = s.reg[m]
    /\ t.reg[n] \in {None, s.reg[n]}
    /\ t.live = s.live /\ t.logins = s.logins /\ t.warn = s.warn /\ t.errs = s.errs

Notified(s, t) ==
    /\ s.skipped => t.skipped
    /\ t.skipped \/ t.live = t.reg
    /\ s.reg["ProxyEnable"] # None => t.reg = s.reg
    /\ \A n \in {"ProxyOverride", "AutoConfigURL"} : t.reg[n] = s.reg[n]
    /\ t.logins = s.logins /\ t.warn = s.warn /\ t.errs = s.errs

Stored(s, t, h) ==
    /\ t.reg = s.reg /\ t.live = s.live /\ t.errs = s.errs /\ t.skipped = s.skipped
    /\ t.logins[h] = "ours" \/ t.warn = Warning
    /\ \A g \in Host \ {h} : t.logins[g] = s.logins[g]

Removed(s, t, h) ==
    /\ s.skipped => t.skipped
    /\ t.skipped \/ t.logins[h] # "ours"
    /\ t.logins[h] = "ours" => s.logins[h] = "ours"
    /\ \A g \in Host \ {h} : t.logins[g] = s.logins[g]
    /\ t.reg = s.reg /\ t.live = s.live /\ t.errs = s.errs /\ t.warn = s.warn

LEMMA WriteReg ==
    ASSUME NEW r \in Registry, NEW n \in NameSet, NEW v \in Values(n)
    PROVE  /\ [r EXCEPT ![n] = v] \in Registry
           /\ [r EXCEPT ![n] = v][n] = v
           /\ \A m \in NameSet \ {n} : [r EXCEPT ![n] = v][m] = r[m]
<1>1. CASE n = "ProxyEnable"
    BY <1>1 DEF NameSet, Values, Registry
<1>2. CASE n = "ProxyServer"
    BY <1>2 DEF NameSet, Values, Registry
<1>3. CASE n = "ProxyOverride"
    BY <1>3 DEF NameSet, Values, Registry
<1>4. CASE n = "AutoConfigURL"
    BY <1>4 DEF NameSet, Values, Registry
<1>q. QED
    BY <1>1, <1>2, <1>3, <1>4 DEF NameSet

\* The fields of a state make it one.
LEMMA IsState ==
    ASSUME NEW t, Fields(t), t.reg \in Registry, t.live \in Registry, t.logins \in [Host -> Login],
           t.errs \in {Nil, Hard}, t.warn \in {Nil, Warning}, t.skipped \in BOOLEAN
    PROVE  t \in State
BY DEF Fields, State

LEMMA OfState ==
    ASSUME NEW t \in State
    PROVE  /\ t.reg \in Registry /\ t.live \in Registry /\ t.logins \in [Host -> Login]
           /\ t.errs \in {Nil, Hard} /\ t.warn \in {Nil, Warning} /\ t.skipped \in BOOLEAN
BY DEF State

LEMMA AfterRun ==
    ASSUME NEW n \in NameSet, NEW v \in Values(n), NEW P \in SUBSET State, NEW Q \in SUBSET State,
           \A t \in State : t.errs = Hard => t \in Q,
           \A s \in P, t \in State : Wrote(s, t, n, v) => t \in Q
    PROVE  Leads(P, Run(n, v), Q)
<1> DEFINE c == [do |-> "add", name |-> n, value |-> v, must |-> TRUE]
<1>0. UsesContext(c) /\ c.name = n /\ c.value = v /\ c.must /\ c.do = "add"
    BY DEF UsesContext
<1>1. Run(n, v) = <<c>>
    BY DEF Run, Call
<1> HIDE DEF c
<1>2. ASSUME NEW s \in P, NEW t, Outcome(c, s, t) PROVE t \in Q
    <2>0. s \in State /\ Fields(t)
        BY <1>2 DEF Outcome
    <2>1. CASE Worked(c, s, t)
        <3>1. /\ t.reg = [s.reg EXCEPT ![n] = v] /\ t.live = s.live /\ t.logins = s.logins
              /\ t.warn = s.warn /\ t.errs = s.errs /\ t.skipped = s.skipped
            BY <1>0, <2>1 DEF Worked
        <3>2. t.reg \in Registry /\ t.reg[n] = v /\ \A m \in NameSet \ {n} : t.reg[m] = s.reg[m]
            BY <2>0, <3>1, OfState, WriteReg
        <3>3. t \in State
            BY <2>0, <3>1, <3>2, OfState, IsState
        <3>q. QED
            BY <3>1, <3>2, <3>3 DEF Wrote
    <2>2. CASE Failed(c, s, t)
        <3>1. t \in State /\ t.errs = Hard
            BY <1>0, <2>0, <2>2, OfState, IsState DEF Failed
        <3>q. QED
            BY <3>1
    <2>q. QED
        BY <1>2, <2>1, <2>2 DEF Outcome
<1>q. QED
    BY <1>1, <1>2, OneCall

LEMMA AfterDelete ==
    ASSUME NEW n \in NameSet, NEW P \in SUBSET State, NEW Q \in SUBSET State,
           \A s \in P, t \in State : Deleted(s, t, n) => t \in Q
    PROVE  Leads(P, TryDelete(n), Q)
<1> DEFINE c == [do |-> "delete", name |-> n, value |-> None, must |-> FALSE]
<1>0. UsesContext(c) /\ c.name = n /\ c.value = None /\ ~c.must /\ c.do = "delete"
    BY DEF UsesContext
<1>1. TryDelete(n) = <<c>> /\ None \in Values(n)
    BY DEF TryDelete, Call, Values, NameSet
<1> HIDE DEF c
<1>2. ASSUME NEW s \in P, NEW t, Outcome(c, s, t) PROVE t \in Q
    <2>0. s \in State /\ Fields(t)
        BY <1>2 DEF Outcome
    <2>1. CASE Worked(c, s, t)
        <3>1. /\ t.reg = [s.reg EXCEPT ![n] = None] /\ t.live = s.live /\ t.logins = s.logins
              /\ t.warn = s.warn /\ t.errs = s.errs /\ t.skipped = s.skipped
            BY <1>0, <2>1 DEF Worked
        <3>2. t.reg \in Registry /\ t.reg[n] = None /\ \A m \in NameSet \ {n} : t.reg[m] = s.reg[m]
            BY <1>1, <2>0, <3>1, OfState, WriteReg
        <3>3. t \in State
            BY <2>0, <3>1, <3>2, OfState, IsState
        <3>q. QED
            BY <3>1, <3>2, <3>3 DEF Deleted
    <2>2. CASE Failed(c, s, t)
        <3>1. /\ t.reg = s.reg /\ t.live = s.live /\ t.logins = s.logins /\ t.warn = s.warn
              /\ t.errs = s.errs /\ t.skipped = TRUE
            BY <1>0, <2>2 DEF Failed
        <3>2. t \in State
            BY <2>0, <3>1, OfState, IsState
        <3>q. QED
            BY <3>1, <3>2 DEF Deleted
    <2>q. QED
        BY <1>2, <2>1, <2>2 DEF Outcome
<1>q. QED
    BY <1>1, <1>2, OneCall

LEMMA AfterNotify ==
    ASSUME NEW P \in SUBSET State, NEW Q \in SUBSET State,
           \A s \in P, t \in State : Notified(s, t) => t \in Q
    PROVE  Leads(P, Notify, Q)
<1> DEFINE c == [do |-> "notify", name |-> None, value |-> None, must |-> FALSE]
<1>0. ~UsesContext(c) /\ ~c.must /\ c.do = "notify"
    BY DEF UsesContext
<1>1. Notify = <<c>>
    BY DEF Notify, Call
<1> HIDE DEF c
<1>2. ASSUME NEW s \in P, NEW t, Outcome(c, s, t) PROVE t \in Q
    <2>0. s \in State /\ Fields(t)
        BY <1>2 DEF Outcome
    <2>1. CASE Worked(c, s, t)
        <3>1. /\ s.reg["ProxyEnable"] # None => t.reg = s.reg
              /\ \A n \in {"ProxyOverride", "AutoConfigURL"} : t.reg[n] = s.reg[n]
              /\ t.reg \in Registry /\ t.live = t.reg /\ t.logins = s.logins /\ t.warn = s.warn
              /\ t.errs = s.errs /\ t.skipped = s.skipped
            BY <1>0, <2>1 DEF Worked, NameSet
        <3>2. t \in State
            BY <2>0, <3>1, OfState, IsState
        <3>q. QED
            BY <3>1, <3>2 DEF Notified
    <2>2. CASE Failed(c, s, t)
        <3>1. /\ t.reg = s.reg /\ t.live = s.live /\ t.logins = s.logins /\ t.warn = s.warn
              /\ t.errs = s.errs /\ t.skipped = TRUE
            BY <1>0, <2>2 DEF Failed
        <3>2. t \in State
            BY <2>0, <3>1, OfState, IsState
        <3>q. QED
            BY <3>1, <3>2 DEF Notified
    <2>q. QED
        BY <1>2, <2>1, <2>2 DEF Outcome
<1>q. QED
    BY <1>1, <1>2, OneCall

LEMMA AfterStore ==
    ASSUME NEW h \in Host, NEW P \in SUBSET State, NEW Q \in SUBSET State,
           \A s \in P, t \in State : Stored(s, t, h) => t \in Q
    PROVE  Leads(P, StoreLogin(h), Q)
<1> DEFINE c == [do |-> "store", name |-> h, value |-> None, must |-> FALSE]
<1>0. ~UsesContext(c) /\ ~c.must /\ c.do = "store" /\ c.name = h
    BY DEF UsesContext
<1>1. StoreLogin(h) = <<c>>
    BY DEF StoreLogin, Call
<1> HIDE DEF c
<1>2. ASSUME NEW s \in P, NEW t, Outcome(c, s, t) PROVE t \in Q
    <2>0. s \in State /\ Fields(t)
        BY <1>2 DEF Outcome
    <2>1. CASE Worked(c, s, t)
        <3>1. /\ t.reg = s.reg /\ t.live = s.live /\ t.errs = s.errs /\ t.skipped = s.skipped
              /\ \/ t.warn = Warning /\ t.logins = s.logins
                 \/ t.warn = s.warn /\ t.logins = [s.logins EXCEPT ![h] = "ours"]
            BY <1>0, <2>1 DEF Worked
        <3>2. /\ t.logins \in [Host -> Login] /\ t.warn \in {Nil, Warning}
              /\ t.logins[h] = "ours" \/ t.warn = Warning
              /\ \A g \in Host \ {h} : t.logins[g] = s.logins[g]
            BY <2>0, <3>1, OfState DEF Login
        <3>3. t \in State
            BY <2>0, <3>1, <3>2, OfState, IsState
        <3>q. QED
            BY <3>1, <3>2, <3>3 DEF Stored
    <2>2. CASE Failed(c, s, t)
        <3>1. /\ t.reg = s.reg /\ t.live = s.live /\ t.logins = s.logins /\ t.warn = Warning
              /\ t.errs = s.errs /\ t.skipped = s.skipped
            BY <1>0, <2>2 DEF Failed
        <3>2. t \in State
            BY <2>0, <3>1, OfState, IsState
        <3>q. QED
            BY <3>1, <3>2 DEF Stored
    <2>q. QED
        BY <1>2, <2>1, <2>2 DEF Outcome
<1>q. QED
    BY <1>1, <1>2, OneCall

LEMMA AfterRemove ==
    ASSUME NEW h \in Host, NEW P \in SUBSET State, NEW Q \in SUBSET State,
           \A s \in P, t \in State : Removed(s, t, h) => t \in Q
    PROVE  Leads(P, RemoveLogin(h), Q)
<1> DEFINE c == [do |-> "remove", name |-> h, value |-> None, must |-> FALSE]
<1>0. ~UsesContext(c) /\ ~c.must /\ c.do = "remove" /\ c.name = h
    BY DEF UsesContext
<1>1. RemoveLogin(h) = <<c>>
    BY DEF RemoveLogin, Call
<1> HIDE DEF c
<1>2. ASSUME NEW s \in P, NEW t, Outcome(c, s, t) PROVE t \in Q
    <2>0. s \in State /\ Fields(t)
        BY <1>2 DEF Outcome
    <2>1. CASE Worked(c, s, t)
        <3>1. /\ t.reg = s.reg /\ t.live = s.live /\ t.errs = s.errs /\ t.skipped = s.skipped
              /\ t.warn = s.warn
              /\ t.logins = [s.logins EXCEPT ![h] =
                                IF s.logins[h] = "ours" THEN "none" ELSE s.logins[h]]
            BY <1>0, <2>1 DEF Worked
        <3>2. /\ t.logins \in [Host -> Login] /\ t.logins[h] # "ours"
              /\ \A g \in Host \ {h} : t.logins[g] = s.logins[g]
            BY <2>0, <3>1, OfState DEF Login
        <3>3. t \in State
            BY <2>0, <3>1, <3>2, OfState, IsState
        <3>q. QED
            BY <3>1, <3>2, <3>3 DEF Removed
    <2>2. CASE Failed(c, s, t)
        <3>1. /\ t.reg = s.reg /\ t.live = s.live /\ t.logins = s.logins /\ t.warn = s.warn
              /\ t.errs = s.errs /\ t.skipped = TRUE
            BY <1>0, <2>2 DEF Failed
        <3>2. t \in State
            BY <2>0, <3>1, OfState, IsState
        <3>q. QED
            BY <3>1, <3>2 DEF Removed
    <2>q. QED
        BY <1>2, <2>1, <2>2 DEF Outcome
<1>q. QED
    BY <1>1, <1>2, OneCall

-----------------------------------------------------------------------------
(* The outlines.  `old` is reg when the operation began and sn what the    *)
(* open WithProxy saved.  A failure that counts excuses everything.        *)

\* No login of ours but the ones the snapshot found and that for host.
Temp(s, sn, host) ==
    \A h \in Host : s.logins[h] = "ours" => sn.logins[h] = "ours" \/ h = host

SetHolds(p, sn, s, n) ==
    /\ sn.inside = 1 => Temp(s, sn, p.host)
    /\ n >= 1 => s.skipped \/ s.reg["AutoConfigURL"] = None
    /\ n >= 2 => s.reg["ProxyEnable"] = 1
    /\ n >= 3 => s.reg["ProxyServer"] = ServerValue(p)
    /\ n >= 4 => s.reg["ProxyOverride"] = Default
    /\ n >= 5 => (p.user => (s.logins[p.host] = "ours" \/ s.warn = Warning))
    /\ n >= 6 => s.skipped \/ s.live = s.reg

UnsetHolds(sn, s, n) ==
    /\ sn.inside = 1 => Temp(s, sn, None)
    /\ n >= 1 => s.reg["ProxyEnable"] = 0
    /\ n >= 2 => s.skipped \/ s.reg["ProxyServer"] = None
    /\ n >= 3 => s.skipped \/ s.reg["ProxyOverride"] = None
    /\ n >= 4 => s.skipped \/ s.reg["AutoConfigURL"] = None

PacHolds(url, old, sn, s, n) ==
    /\ sn.inside = 1 => Temp(s, sn, None)
    /\ s.reg["ProxyServer"] = old["ProxyServer"] /\ s.reg["ProxyOverride"] = old["ProxyOverride"]
    /\ n >= 1 => s.reg["AutoConfigURL"] = url
    /\ n >= 2 => s.reg["ProxyEnable"] = 0
    /\ n >= 3 => s.skipped \/ s.live = s.reg

MultiHolds(cfg, old, sn, s, n) ==
    /\ sn.inside = 1 => Temp(s, sn, None)
    /\ NamesKind(cfg) =>
          /\ n >= 1 => s.skipped \/ s.reg["AutoConfigURL"] = None
          /\ n >= 2 => s.reg["ProxyEnable"] = 1
          /\ n >= 3 => s.reg["ProxyServer"] = Merge(old["ProxyServer"], cfg)
    /\ ~NamesKind(cfg) /\ old["ProxyEnable"] # None =>
          \A m \in {"ProxyEnable", "ProxyServer", "AutoConfigURL"} : s.reg[m] = old[m]
    /\ s.reg["ProxyOverride"] =
          IF n >= 4 /\ cfg["bypass"] # None THEN cfg["bypass"] ELSE old["ProxyOverride"]
    /\ n >= 5 => s.skipped \/ s.live = s.reg

\* What PutBack makes of a value, before ProxyEnable is deleted.
IsBack(sn, s, m) ==
    /\ sn.reg[m] # None => s.reg[m] = sn.reg[m]
    /\ sn.reg[m] = None /\ m = "ProxyEnable" => s.reg[m] = 0
    /\ sn.reg[m] = None /\ m # "ProxyEnable" => s.skipped \/ s.reg[m] = None

Leftover(sn, s, host) == sn.inside <= 1 /\ sn.calm => s.skipped \/ Temp(s, sn, host)

RestoreHolds(sn, host, s, n) ==
    /\ n >= 1 => IsBack(sn, s, "ProxyEnable")
    /\ n >= 2 => IsBack(sn, s, "ProxyServer")
    /\ n >= 3 => IsBack(sn, s, "ProxyOverride")
    /\ n >= 4 => IsBack(sn, s, "AutoConfigURL")
    /\ IF n >= 5 THEN Leftover(sn, s, ProxyServerHost(sn.reg["ProxyServer"]))
                 ELSE Leftover(sn, s, host)
    /\ n >= 6 => s.skipped \/ s.live = s.reg

RestoreDone(sn, s) ==
    /\ \A m \in NameSet : sn.reg[m] # None => s.reg[m] = sn.reg[m]
    /\ s.skipped \/ \A m \in NameSet : s.reg[m] = sn.reg[m]
    /\ s.skipped \/ Acts(s.live) = Acts(s.reg)
    /\ Leftover(sn, s, ProxyServerHost(sn.reg["ProxyServer"]))

SetAt(p, sn, n)          == {s \in State : s.errs = Hard \/ SetHolds(p, sn, s, n)}
UnsetAt(sn, n)           == {s \in State : s.errs = Hard \/ UnsetHolds(sn, s, n)}
PacAt(url, old, sn, n)   == {s \in State : s.errs = Hard \/ PacHolds(url, old, sn, s, n)}
MultiAt(cfg, old, sn, n) == {s \in State : s.errs = Hard \/ MultiHolds(cfg, old, sn, s, n)}
RestoreAt(sn, host, n)   == {s \in State : s.errs = Hard \/ RestoreHolds(sn, host, s, n)}
RestoreEnd(sn)           == {s \in State : s.errs = Hard \/ RestoreDone(sn, s)}

\* What an operation has made of the state when it ends.
Final(o, old, sn) ==
    {s \in State : /\ o.name = "set"     => s \in SetAt(o.arg, sn, 6)
                   /\ o.name = "unset"   => s \in UnsetAt(sn, 4)
                   /\ o.name = "pac"     => s \in PacAt(o.arg, old, sn, 3)
                   /\ o.name = "multi"   => s \in MultiAt(o.arg, old, sn, 5)
                   /\ o.name = "restore" => s \in RestoreEnd(sn)}

\* What the values of the calls are.
LEMMA NoServerIs == NoServer \in Server /\ DOMAIN NoServer = Managed \cup {"ftp"}
BY DEF NoServer, Server

LEMMA NoneIsNone ==
    /\ None \notin Host /\ None \notin Pac /\ None \notin Bypass
    /\ None # 0 /\ None # 1 /\ None \notin Server /\ None \notin DOMAIN NoServer
BY WindowsAssumption

LEMMA ServerValueIs ==
    ASSUME NEW p \in Proxy
    PROVE  /\ ServerValue(p) \in Server \ {NoServer}
           /\ \A k \in DOMAIN NoServer :
                 ServerValue(p)[k] = IF k # "ftp" /\ (k = "socks") = p.socks THEN p.host ELSE None
<1>1. p.host \in Host /\ p.socks \in BOOLEAN
    BY DEF Proxy
<1> DEFINE V == ServerValue(p)
           k0 == IF p.socks THEN "socks" ELSE "http"
<1>2. /\ V \in [Managed \cup {"ftp"} -> Host \cup {None}]
      /\ \A k \in Managed \cup {"ftp"} :
            V[k] = IF k # "ftp" /\ (k = "socks") = p.socks THEN p.host ELSE None
    BY <1>1, NoServerIs DEF ServerValue
<1> HIDE DEF V
<1>3. k0 \in Managed \cup {"ftp"} /\ k0 # "ftp" /\ (k0 = "socks") = p.socks
    BY <1>1 DEF Managed
<1>4. V[k0] # None
    BY <1>1, <1>2, <1>3, NoneIsNone
<1>5. NoServer[k0] = None
    BY <1>3 DEF NoServer
<1>q. QED
    BY <1>2, <1>4, <1>5, NoServerIs DEF V, Server

LEMMA MergeIs ==
    ASSUME NEW server \in (Server \ {NoServer}) \cup {None}, NEW cfg \in Configs, NamesKind(cfg)
    PROVE  /\ Merge(server, cfg) \in Server \ {NoServer}
           /\ \A k \in DOMAIN NoServer : Merge(server, cfg)[k] =
                IF k \in Managed /\ cfg[k] # None THEN cfg[k]
                ELSE IF server = None THEN None ELSE server[k]
<1> DEFINE now == IF server = None THEN NoServer ELSE server
           M == Merge(server, cfg)
<1>1. /\ now \in Server
      /\ server = None => now = NoServer
      /\ server # None => now = server
    BY NoServerIs
<1> HIDE DEF now
<1>2. \A k \in Managed : cfg[k] \in Host \cup {None}
    BY WindowsAssumption
<1>3. M = [k \in DOMAIN NoServer |-> IF k = "ftp" \/ cfg[k] = None THEN now[k] ELSE cfg[k]]
    BY DEF Merge, now
<1> HIDE DEF M
<1>4. "ftp" \notin Managed
    BY DEF Managed
<1>5. \A k \in Managed \cup {"ftp"} : M[k] = IF k \in Managed /\ cfg[k] # None THEN cfg[k] ELSE now[k]
    BY <1>3, <1>4, NoServerIs
<1>6. M \in [Managed \cup {"ftp"} -> Host \cup {None}]
    <2>1. \A k \in Managed \cup {"ftp"} : now[k] \in Host \cup {None}
        BY <1>1 DEF Server
    <2>2. \A k \in Managed \cup {"ftp"} :
             (IF k = "ftp" \/ cfg[k] = None THEN now[k] ELSE cfg[k]) \in Host \cup {None}
        BY <1>2, <2>1
    <2>3. M = [k \in Managed \cup {"ftp"} |-> IF k = "ftp" \/ cfg[k] = None THEN now[k] ELSE cfg[k]]
        BY <1>3, NoServerIs
    <2>q. QED
        BY <2>2, <2>3
<1>7. PICK k \in Managed : cfg[k] # None
    BY DEF NamesKind
<1>8. M[k] # None /\ NoServer[k] = None
    BY <1>5, <1>7 DEF NoServer
<1>9. \A j \in Managed \cup {"ftp"} : NoServer[j] = None
    BY DEF NoServer
<1>10. M \in Server \ {NoServer}
    BY <1>6, <1>8 DEF Server
<1>11. \A j \in Managed \cup {"ftp"} :
          M[j] = IF j \in Managed /\ cfg[j] # None THEN cfg[j]
                 ELSE IF server = None THEN None ELSE server[j]
    BY <1>1, <1>5, <1>9
<1>q. QED
    BY <1>10, <1>11, NoServerIs DEF M

LEMMA SetLeads ==
    ASSUME NEW p \in Proxies, NEW sn PROVE Leads(SetAt(p, sn, 0), SetGlobal(p), SetAt(p, sn, 6))
<1> DEFINE A(n) == SetAt(p, sn, n)
<1>1. p \in Proxy /\ p.host \in Host /\ ServerValue(p) \in Values("ProxyServer") /\ Default \in Values("ProxyOverride")
    BY WindowsAssumption, ServerValueIs DEF Proxy, Values
<1>2. \A n \in 0..6 : A(n) \in SUBSET State /\ \A t \in State : t.errs = Hard => t \in A(n)
    BY DEF SetAt
<1>3. Leads(A(0), TryDelete("AutoConfigURL"), A(1))
    <2>1. ASSUME NEW s \in A(0), NEW t \in State, Deleted(s, t, "AutoConfigURL") PROVE t \in A(1)
        BY <2>1 DEF SetAt, SetHolds, Deleted, Temp, NameSet
    <2>q. QED
        BY <1>2, <2>1, AfterDelete DEF NameSet
<1>4. Leads(A(1), Run("ProxyEnable", 1), A(2))
    <2>1. ASSUME NEW s \in A(1), NEW t \in State, Wrote(s, t, "ProxyEnable", 1) PROVE t \in A(2)
        BY <2>1 DEF SetAt, SetHolds, Wrote, Temp, NameSet
    <2>q. QED
        BY <1>2, <2>1, AfterRun DEF NameSet, Values
<1>5. Leads(A(2), Run("ProxyServer", ServerValue(p)), A(3))
    <2>1. ASSUME NEW s \in A(2), NEW t \in State, Wrote(s, t, "ProxyServer", ServerValue(p)) PROVE t \in A(3)
        BY <2>1 DEF SetAt, SetHolds, Wrote, Temp, NameSet
    <2>q. QED
        BY <1>1, <1>2, <2>1, AfterRun DEF NameSet
<1>6. Leads(A(3), Run("ProxyOverride", Default), A(4))
    <2>1. ASSUME NEW s \in A(3), NEW t \in State, Wrote(s, t, "ProxyOverride", Default) PROVE t \in A(4)
        BY <2>1 DEF SetAt, SetHolds, Wrote, Temp, NameSet
    <2>q. QED
        BY <1>1, <1>2, <2>1, AfterRun DEF NameSet
<1>7. Leads(A(4), IF p.user THEN StoreLogin(p.host) ELSE <<>>, A(5))
    <2>1. ASSUME NEW s \in A(4), NEW t \in State, Stored(s, t, p.host) PROVE t \in A(5)
        BY <1>1, <2>1 DEF SetAt, SetHolds, Stored, Temp
    <2>2. Leads(A(4), StoreLogin(p.host), A(5))
        BY <1>1, <1>2, <2>1, AfterStore
    <2>3. ASSUME ~p.user PROVE Leads(A(4), <<>>, A(5))
        <3>1. A(4) \subseteq A(5)
            BY <2>3 DEF SetAt, SetHolds
        <3>q. QED
            BY <1>2, <3>1, NoCalls
    <2>q. QED
        BY <2>2, <2>3
<1>8. Leads(A(5), Notify, A(6))
    <2>1. ASSUME NEW s \in A(5), NEW t \in State, Notified(s, t) PROVE t \in A(6)
        BY <2>1, NoneIsNone DEF SetAt, SetHolds, Notified, Temp
    <2>q. QED
        BY <1>2, <2>1, AfterNotify
<1> HIDE DEF A
<1>9. Leads(A(0), TryDelete("AutoConfigURL") \o Run("ProxyEnable", 1) \o Run("ProxyServer", ServerValue(p))
                  \o Run("ProxyOverride", Default), A(4))
    BY <1>3, <1>4, <1>5, <1>6, InSequence
<1>10. Leads(A(0), SetGlobal(p), A(6))
    BY <1>7, <1>8, <1>9, InSequence DEF SetGlobal
<1>q. QED
    BY <1>10 DEF A

LEMMA UnsetLeads ==
    ASSUME NEW host \in Host \cup {None}, NEW sn
    PROVE  Leads(UnsetAt(sn, 0), UnsetGlobal(host), UnsetAt(sn, 4))
<1> DEFINE A(n) == UnsetAt(sn, n)
<1>2. \A n \in 0..4 : A(n) \in SUBSET State /\ \A t \in State : t.errs = Hard => t \in A(n)
    BY DEF UnsetAt
<1>3. Leads(A(0), Run("ProxyEnable", 0), A(1))
    <2>1. ASSUME NEW s \in A(0), NEW t \in State, Wrote(s, t, "ProxyEnable", 0) PROVE t \in A(1)
        BY <2>1 DEF UnsetAt, UnsetHolds, Wrote, Temp, NameSet
    <2>q. QED
        BY <1>2, <2>1, AfterRun DEF NameSet, Values
<1>4. Leads(A(1), TryDelete("ProxyServer"), A(2))
    <2>1. ASSUME NEW s \in A(1), NEW t \in State, Deleted(s, t, "ProxyServer") PROVE t \in A(2)
        BY <2>1 DEF UnsetAt, UnsetHolds, Deleted, Temp, NameSet
    <2>q. QED
        BY <1>2, <2>1, AfterDelete DEF NameSet
<1>5. Leads(A(2), TryDelete("ProxyOverride"), A(3))
    <2>1. ASSUME NEW s \in A(2), NEW t \in State, Deleted(s, t, "ProxyOverride") PROVE t \in A(3)
        BY <2>1 DEF UnsetAt, UnsetHolds, Deleted, Temp, NameSet
    <2>q. QED
        BY <1>2, <2>1, AfterDelete DEF NameSet
<1>6. Leads(A(3), TryDelete("AutoConfigURL"), A(4))
    <2>1. ASSUME NEW s \in A(3), NEW t \in State, Deleted(s, t, "AutoConfigURL") PROVE t \in A(4)
        BY <2>1 DEF UnsetAt, UnsetHolds, Deleted, Temp, NameSet
    <2>q. QED
        BY <1>2, <2>1, AfterDelete DEF NameSet
<1>7. Leads(A(4), IF host = None THEN <<>> ELSE RemoveLogin(host), A(4))
    <2>1. ASSUME NEW s \in A(4), NEW t \in State, NEW h \in Host, Removed(s, t, h) PROVE t \in A(4)
        <3>1. Temp(s, sn, None) => Temp(t, sn, None)
            BY <2>1 DEF Temp, Removed
        <3>q. QED
            BY <2>1, <3>1 DEF UnsetAt, UnsetHolds, Removed
    <2>2. host # None => Leads(A(4), RemoveLogin(host), A(4))
        BY <1>2, <2>1, AfterRemove
    <2>3. Leads(A(4), <<>>, A(4))
        BY <1>2, NoCalls
    <2>q. QED
        BY <2>2, <2>3
<1> HIDE DEF A
<1>9. Leads(A(0), Run("ProxyEnable", 0) \o TryDelete("ProxyServer") \o TryDelete("ProxyOverride")
                  \o TryDelete("AutoConfigURL"), A(4))
    BY <1>3, <1>4, <1>5, <1>6, InSequence
<1>10. Leads(A(0), UnsetGlobal(host), A(4))
    BY <1>7, <1>9, InSequence DEF UnsetGlobal
<1>q. QED
    BY <1>10 DEF A

LEMMA PacLeads ==
    ASSUME NEW url \in Pac, NEW old, NEW sn
    PROVE  Leads(PacAt(url, old, sn, 0), SetGlobalPAC(url), PacAt(url, old, sn, 3))
<1> DEFINE A(n) == PacAt(url, old, sn, n)
<1>2. \A n \in 0..3 : A(n) \in SUBSET State /\ \A t \in State : t.errs = Hard => t \in A(n)
    BY DEF PacAt
<1>3. Leads(A(0), Run("AutoConfigURL", url), A(1))
    <2>1. ASSUME NEW s \in A(0), NEW t \in State, Wrote(s, t, "AutoConfigURL", url) PROVE t \in A(1)
        BY <2>1 DEF PacAt, PacHolds, Wrote, Temp, NameSet
    <2>q. QED
        BY <1>2, <2>1, AfterRun DEF NameSet, Values
<1>4. Leads(A(1), Run("ProxyEnable", 0), A(2))
    <2>1. ASSUME NEW s \in A(1), NEW t \in State, Wrote(s, t, "ProxyEnable", 0) PROVE t \in A(2)
        BY <2>1 DEF PacAt, PacHolds, Wrote, Temp, NameSet
    <2>q. QED
        BY <1>2, <2>1, AfterRun DEF NameSet, Values
<1>5. Leads(A(2), Notify, A(3))
    <2>1. ASSUME NEW s \in A(2), NEW t \in State, Notified(s, t) PROVE t \in A(3)
        BY <2>1, NoneIsNone DEF PacAt, PacHolds, Notified, Temp
    <2>q. QED
        BY <1>2, <2>1, AfterNotify
<1> HIDE DEF A
<1>6. Leads(A(0), SetGlobalPAC(url), A(3))
    BY <1>3, <1>4, <1>5, InSequence DEF SetGlobalPAC
<1>q. QED
    BY <1>6 DEF A

LEMMA MultiLeads ==
    ASSUME NEW cfg \in Configs, NEW sn, reg \in Registry
    PROVE  Leads(MultiAt(cfg, reg, sn, 0), SetGlobalMulti(cfg), MultiAt(cfg, reg, sn, 5))
<1> DEFINE A(n) == MultiAt(cfg, reg, sn, n)
           V == Merge(reg["ProxyServer"], cfg)
<1>1. cfg["bypass"] \in Values("ProxyOverride")
    BY WindowsAssumption DEF Values
<1>2. \A n \in 0..5 : A(n) \in SUBSET State /\ \A t \in State : t.errs = Hard => t \in A(n)
    BY DEF MultiAt
<1>3. ASSUME NamesKind(cfg)
      PROVE  Leads(A(0), TryDelete("AutoConfigURL") \o Run("ProxyEnable", 1) \o Run("ProxyServer", V), A(3))
    <2>0. V \in Values("ProxyServer")
        <3>1. reg["ProxyServer"] \in (Server \ {NoServer}) \cup {None}
            BY DEF Registry
        <3>q. QED
            BY <1>3, <3>1, MergeIs DEF Values
    <2>1. ASSUME NEW s \in A(0), NEW t \in State, Deleted(s, t, "AutoConfigURL") PROVE t \in A(1)
        BY <1>3, <2>1 DEF MultiAt, MultiHolds, Deleted, Temp, NameSet
    <2>2. Leads(A(0), TryDelete("AutoConfigURL"), A(1))
        BY <1>2, <2>1, AfterDelete DEF NameSet
    <2>3. ASSUME NEW s \in A(1), NEW t \in State, Wrote(s, t, "ProxyEnable", 1) PROVE t \in A(2)
        BY <1>3, <2>3 DEF MultiAt, MultiHolds, Wrote, Temp, NameSet
    <2>4. Leads(A(1), Run("ProxyEnable", 1), A(2))
        BY <1>2, <2>3, AfterRun DEF NameSet, Values
    <2>5. ASSUME NEW s \in A(2), NEW t \in State, Wrote(s, t, "ProxyServer", V) PROVE t \in A(3)
        BY <1>3, <2>5 DEF MultiAt, MultiHolds, Wrote, Temp, NameSet
    <2>6. Leads(A(2), Run("ProxyServer", V), A(3))
        BY <1>2, <2>0, <2>5, AfterRun DEF NameSet
    <2> HIDE DEF A, V
    <2>q. QED
        BY <2>2, <2>4, <2>6, InSequence
<1>4. ASSUME ~NamesKind(cfg) PROVE Leads(A(0), <<>>, A(3))
    <2>1. A(0) \subseteq A(3)
        BY <1>4 DEF MultiAt, MultiHolds
    <2>q. QED
        BY <1>2, <2>1, NoCalls
<1>5. Leads(A(3), IF cfg["bypass"] = None THEN <<>> ELSE Run("ProxyOverride", cfg["bypass"]), A(4))
    <2>1. ASSUME cfg["bypass"] # None, NEW s \in A(3), NEW t \in State,
                 Wrote(s, t, "ProxyOverride", cfg["bypass"])
          PROVE  t \in A(4)
        BY <2>1 DEF MultiAt, MultiHolds, Wrote, Temp, NameSet
    <2>2. cfg["bypass"] # None => Leads(A(3), Run("ProxyOverride", cfg["bypass"]), A(4))
        BY <1>1, <1>2, <2>1, AfterRun DEF NameSet
    <2>3. ASSUME cfg["bypass"] = None PROVE Leads(A(3), <<>>, A(4))
        <3>1. A(3) \subseteq A(4)
            BY <2>3 DEF MultiAt, MultiHolds
        <3>q. QED
            BY <1>2, <3>1, NoCalls
    <2>q. QED
        BY <2>2, <2>3
<1>6. Leads(A(4), Notify, A(5))
    <2>1. ASSUME NEW s \in A(4), NEW t \in State, Notified(s, t) PROVE t \in A(5)
        BY <2>1, NoneIsNone DEF MultiAt, MultiHolds, Notified, Temp
    <2>q. QED
        BY <1>2, <2>1, AfterNotify
<1>7. Leads(A(0), IF NamesKind(cfg)
                  THEN TryDelete("AutoConfigURL") \o Run("ProxyEnable", 1) \o Run("ProxyServer", V)
                  ELSE <<>>, A(3))
    BY <1>3, <1>4
<1>8. SetGlobalMulti(cfg) =
        (IF NamesKind(cfg)
         THEN TryDelete("AutoConfigURL") \o Run("ProxyEnable", 1) \o Run("ProxyServer", V)
         ELSE <<>>)
        \o (IF cfg["bypass"] = None THEN <<>> ELSE Run("ProxyOverride", cfg["bypass"])) \o Notify
    BY DEF SetGlobalMulti
<1> HIDE DEF A, V
<1>9. Leads(A(0), SetGlobalMulti(cfg), A(5))
    BY <1>5, <1>6, <1>7, <1>8, InSequence
<1>q. QED
    BY <1>9 DEF A

\* A value is put back, and the others stay.
BroughtBack(sn, s, t, m) ==
    /\ IsBack(sn, t, m) /\ (s.skipped => t.skipped)
    /\ \A n \in NameSet \ {m} : t.reg[n] = s.reg[n]
    /\ t.logins = s.logins /\ t.errs = s.errs

LEMMA PutBackLeads ==
    ASSUME snap.reg \in Registry, NEW m \in NameSet, NEW P \in SUBSET State, NEW Q \in SUBSET State,
           \A t \in State : t.errs = Hard => t \in Q,
           \A s \in P, t \in State : BroughtBack(snap, s, t, m) => t \in Q
    PROVE  Leads(P, PutBack(m), Q)
<1>0. snap.reg[m] \in Values(m)
    <2>1. CASE m = "ProxyEnable"
        BY <2>1 DEF Values, Registry
    <2>2. CASE m = "ProxyServer"
        BY <2>2 DEF Values, Registry
    <2>3. CASE m = "ProxyOverride"
        BY <2>3 DEF Values, Registry
    <2>4. CASE m = "AutoConfigURL"
        BY <2>4 DEF Values, Registry
    <2>q. QED
        BY <2>1, <2>2, <2>3, <2>4 DEF NameSet
<1>1. CASE snap.reg[m] # None
    <2>1. \A s \in P, t \in State : Wrote(s, t, m, snap.reg[m]) => t \in Q
        BY <1>1 DEF Wrote, IsBack, BroughtBack
    <2>2. Leads(P, Run(m, snap.reg[m]), Q)
        BY <1>0, <2>1, AfterRun
    <2>q. QED
        BY <1>1, <2>2 DEF PutBack
<1>2. CASE snap.reg[m] = None /\ m = "ProxyEnable"
    <2>1. \A s \in P, t \in State : Wrote(s, t, m, 0) => t \in Q
        BY <1>2 DEF Wrote, IsBack, BroughtBack
    <2>2. Leads(P, Run(m, 0), Q)
        BY <1>2, <2>1, AfterRun DEF Values
    <2>q. QED
        BY <1>2, <2>2 DEF PutBack
<1>3. CASE snap.reg[m] = None /\ m # "ProxyEnable"
    <2>1. \A s \in P, t \in State : Deleted(s, t, m) => t \in Q
        BY <1>3 DEF Deleted, IsBack, BroughtBack
    <2>2. Leads(P, TryDelete(m), Q)
        BY <2>1, AfterDelete
    <2>q. QED
        BY <1>3, <2>2 DEF PutBack
<1>q. QED
    BY <1>1, <1>2, <1>3

LEMMA RestoreLeads ==
    ASSUME snap.reg \in Registry, NEW host \in Host \cup {None}
    PROVE  Leads(RestoreAt(snap, host, 0), RestoreGlobal(host), RestoreEnd(snap))
<1> DEFINE A(n) == RestoreAt(snap, host, n)
           back == ProxyServerHost(snap.reg["ProxyServer"])
<1>2. \A n \in 0..6 : A(n) \in SUBSET State /\ \A t \in State : t.errs = Hard => t \in A(n)
    BY DEF RestoreAt
<1>e. RestoreEnd(snap) \in SUBSET State
    BY DEF RestoreEnd
<1>n. /\ Names[1] = "ProxyEnable" /\ Names[2] = "ProxyServer"
      /\ Names[3] = "ProxyOverride" /\ Names[4] = "AutoConfigURL"
    BY DEF Names
<1>3. Leads(A(0), PutBack("ProxyEnable"), A(1))
    <2>1. ASSUME NEW s \in A(0), NEW t \in State, BroughtBack(snap, s, t, "ProxyEnable")
          PROVE  t \in A(1)
        BY <2>1 DEF RestoreAt, RestoreHolds, Leftover, Temp, BroughtBack
    <2>q. QED
        BY <1>2, <2>1, PutBackLeads DEF NameSet
<1>4. Leads(A(1), PutBack("ProxyServer"), A(2))
    <2>1. ASSUME NEW s \in A(1), NEW t \in State, BroughtBack(snap, s, t, "ProxyServer")
          PROVE  t \in A(2)
        BY <2>1 DEF RestoreAt, RestoreHolds, Leftover, Temp, IsBack, BroughtBack, NameSet
    <2>q. QED
        BY <1>2, <2>1, PutBackLeads DEF NameSet
<1>5. Leads(A(2), PutBack("ProxyOverride"), A(3))
    <2>1. ASSUME NEW s \in A(2), NEW t \in State, BroughtBack(snap, s, t, "ProxyOverride")
          PROVE  t \in A(3)
        BY <2>1 DEF RestoreAt, RestoreHolds, Leftover, Temp, IsBack, BroughtBack, NameSet
    <2>q. QED
        BY <1>2, <2>1, PutBackLeads DEF NameSet
<1>6. Leads(A(3), PutBack("AutoConfigURL"), A(4))
    <2>1. ASSUME NEW s \in A(3), NEW t \in State, BroughtBack(snap, s, t, "AutoConfigURL")
          PROVE  t \in A(4)
        BY <2>1 DEF RestoreAt, RestoreHolds, Leftover, Temp, IsBack, BroughtBack, NameSet
    <2>q. QED
        BY <1>2, <2>1, PutBackLeads DEF NameSet
<1>7. Leads(A(4), Leaves(host), A(5))
    <2>1. ASSUME host \notin {None, back} PROVE Leads(A(4), RemoveLogin(host), A(5))
        <3>1. ASSUME NEW s \in A(4), NEW t \in State, Removed(s, t, host) PROVE t \in A(5)
            <4>1. s.skipped \/ Temp(s, snap, host) => t.skipped \/ Temp(t, snap, back)
                BY <2>1, <3>1 DEF Removed, Temp
            <4>q. QED
                BY <3>1, <4>1 DEF RestoreAt, RestoreHolds, Leftover, Removed, IsBack
        <3>q. QED
            BY <1>2, <2>1, <3>1, AfterRemove
    <2>2. ASSUME host \in {None, back} PROVE Leads(A(4), <<>>, A(5))
        <3>1. ASSUME NEW s \in A(4) PROVE s \in A(5)
            <4>1. Temp(s, snap, host) => Temp(s, snap, back)
                BY <2>2, NoneIsNone DEF Temp
            <4>q. QED
                BY <3>1, <4>1 DEF RestoreAt, RestoreHolds, Leftover
        <3>q. QED
            BY <1>2, <3>1, NoCalls
    <2>q. QED
        BY <2>1, <2>2 DEF Leaves
<1>8. Leads(A(5), Notify, A(6))
    <2>1. ASSUME NEW s \in A(5), NEW t \in State, Notified(s, t) PROVE t \in A(6)
        <3>1. CASE s.errs = Hard
            BY <2>1, <3>1 DEF RestoreAt, Notified
        <3>2. CASE s.errs # Hard
            <4>1. s.reg["ProxyEnable"] # None
                BY <2>1, <3>2, NoneIsNone DEF RestoreAt, RestoreHolds, IsBack
            <4>q. QED
                BY <2>1, <3>2, <4>1 DEF RestoreAt, RestoreHolds, IsBack, Notified, Leftover, Temp
        <3>q. QED
            BY <3>1, <3>2
    <2>q. QED
        BY <1>2, <2>1, AfterNotify
<1>9. Leads(A(6), IF snap.reg["ProxyEnable"] = None THEN TryDelete("ProxyEnable") ELSE <<>>,
            RestoreEnd(snap))
    <2>1. ASSUME snap.reg["ProxyEnable"] = None PROVE Leads(A(6), TryDelete("ProxyEnable"), RestoreEnd(snap))
        <3>1. ASSUME NEW s \in A(6), NEW t \in State, Deleted(s, t, "ProxyEnable")
              PROVE  t \in RestoreEnd(snap)
            <4>1. CASE s.errs = Hard
                BY <3>1, <4>1 DEF RestoreEnd, Deleted
            <4>2. CASE s.errs # Hard
                <5>0. RestoreHolds(snap, host, s, 6)
                    BY <3>1, <4>2 DEF RestoreAt
                <5>1. \A m \in NameSet : snap.reg[m] # None => t.reg[m] = snap.reg[m]
                    BY <2>1, <3>1, <5>0 DEF RestoreHolds, IsBack, Deleted, NameSet
                <5>2. t.skipped \/ \A m \in NameSet : t.reg[m] = snap.reg[m]
                    BY <2>1, <3>1, <5>0 DEF RestoreHolds, IsBack, Deleted, NameSet
                <5>3. t.skipped \/ Acts(t.live) = Acts(t.reg)
                    <6>1. t.skipped \/ t.live = s.reg
                        BY <3>1, <5>0 DEF RestoreHolds, Deleted
                    <6>2. /\ s.reg["ProxyEnable"] # 1 /\ t.reg["ProxyEnable"] # 1
                          /\ s.reg["AutoConfigURL"] = t.reg["AutoConfigURL"]
                        BY <2>1, <3>1, <5>0, NoneIsNone DEF RestoreHolds, IsBack, Deleted, NameSet
                    <6>3. GetGlobal(s.reg) = GetGlobal(t.reg)
                        BY <6>2 DEF GetGlobal, OnlyPac
                    <6>4. GetGlobalConfig(s.reg) = GetGlobalConfig(t.reg)
                        BY <6>2 DEF GetGlobalConfig
                    <6>q. QED
                        BY <6>1, <6>3, <6>4 DEF Acts
                <5>4. Leftover(snap, t, back)
                    BY <3>1, <5>0 DEF RestoreHolds, Leftover, Deleted, Temp
                <5>q. QED
                    BY <5>1, <5>2, <5>3, <5>4 DEF RestoreEnd, RestoreDone
            <4>q. QED
                BY <4>1, <4>2
        <3>q. QED
            BY <1>2, <1>e, <3>1, AfterDelete DEF NameSet
    <2>2. ASSUME snap.reg["ProxyEnable"] # None PROVE Leads(A(6), <<>>, RestoreEnd(snap))
        <3>1. ASSUME NEW s \in A(6) PROVE s \in RestoreEnd(snap)
            BY <2>2, <3>1 DEF RestoreAt, RestoreHolds, IsBack, RestoreEnd, RestoreDone, NameSet
        <3>q. QED
            BY <1>2, <3>1, NoCalls
    <2>q. QED
        BY <2>1, <2>2
<1> HIDE DEF A
<1>10. Leads(A(0), PutAllBack, A(4))
    BY <1>n, <1>3, <1>4, <1>5, <1>6, InSequence DEF PutAllBack
<1>11. Leads(A(0), RestoreGlobal(host), RestoreEnd(snap))
    BY <1>7, <1>8, <1>9, <1>10, InSequence DEF RestoreGlobal
<1>q. QED
    BY <1>11 DEF A

-----------------------------------------------------------------------------
(* The invariant.                                                          *)

LEMMA Classes == Nil # Warning /\ Nil # Hard /\ Warning # Hard
BY DEF Nil, Warning, Hard

\* Hosts of ProxyServer values.
LEMMA FirstOfIs ==
    ASSUME NEW server \in Server, NEW kinds \in SUBSET (Managed \cup {"ftp"})
    PROVE  LET k == FirstOf(server, kinds)
           IN  /\ (\E j \in kinds : server[j] # None) => k \in kinds /\ server[k] # None
               /\ "http" \in kinds /\ server["http"] # None => k = "http"
<1> DEFINE has == {i \in DOMAIN Kinds : Kinds[i] \in kinds /\ server[Kinds[i]] # None}
           i0  == CHOOSE i \in has : \A j \in has : i <= j
           k   == FirstOf(server, kinds)
<1>1. /\ DOMAIN Kinds = 1..4 /\ Kinds[1] = "http" /\ Kinds[2] = "https" /\ Kinds[3] = "socks"
      /\ Kinds[4] = "ftp"
    BY DEF Kinds
<1>2. /\ has \subseteq 1..4
      /\ \A i \in 1..4 : i \in has <=> (Kinds[i] \in kinds /\ server[Kinds[i]] # None)
    BY <1>1
<1>3. k = IF has = {} THEN None ELSE Kinds[i0]
    BY DEF FirstOf
<1> HIDE DEF has, k
<1>4. ASSUME has # {} PROVE i0 \in has /\ \A j \in has : i0 <= j
    <2>1. \E i \in has : \A j \in has : i <= j
        <3>1. CASE 1 \in has
            BY <1>2, <3>1
        <3>2. CASE 1 \notin has /\ 2 \in has
            BY <1>2, <3>2
        <3>3. CASE 1 \notin has /\ 2 \notin has /\ 3 \in has
            BY <1>2, <3>3
        <3>4. CASE 1 \notin has /\ 2 \notin has /\ 3 \notin has
            <4>1. \A i \in 1..4 : i \in {1, 2, 3, 4}
                OBVIOUS
            <4>2. \A i \in has : i = 4
                BY <1>2, <3>4, <4>1
            <4>q. QED
                BY <1>4, <4>2
        <3>q. QED
            BY <3>1, <3>2, <3>3, <3>4
    <2>q. QED
        BY <2>1
<1> HIDE DEF i0
<1>5. ASSUME NEW j \in kinds, server[j] # None PROVE k \in kinds /\ server[k] # None
    <2>1. has # {}
        BY <1>1, <1>2, <1>5 DEF Managed
    <2>q. QED
        BY <1>2, <1>3, <1>4, <2>1
<1>6. ASSUME "http" \in kinds, server["http"] # None PROVE k = "http"
    <2>1. 1 \in has
        BY <1>1, <1>2, <1>6
    <2>2. i0 \in 1..4 /\ i0 <= 1
        BY <1>2, <1>4, <2>1
    <2>q. QED
        BY <1>1, <1>3, <2>1, <2>2
<1>q. QED
    BY <1>5, <1>6 DEF k

LEMMA HostOfValue ==
    ASSUME NEW p \in Proxy PROVE ProxyServerHost(ServerValue(p)) = p.host
<1> DEFINE V == ServerValue(p)
           k == FirstOf(V, DOMAIN V)
<1>1. V \in Server \ {NoServer} /\ DOMAIN V = Managed \cup {"ftp"} /\ p.host \in Host
    BY ServerValueIs DEF Server, Proxy
<1>2. \A j \in Managed \cup {"ftp"} : V[j] \in {None, p.host}
    BY ServerValueIs, NoServerIs
<1> HIDE DEF V
<1>3. \E j \in DOMAIN V : V[j] # None
    <2>1. NoServer = [j \in Managed \cup {"ftp"} |-> None]
        BY DEF NoServer
    <2>q. QED
        BY <1>1, <2>1 DEF Server
<1>4. k \in DOMAIN V /\ V[k] # None
    BY <1>1, <1>3, FirstOfIs
<1>5. V[k] = p.host
    BY <1>1, <1>2, <1>4
<1>6. V # None => ProxyServerHost(V) = V[k]
    BY DEF ProxyServerHost
<1>7. V # None
    BY <1>1, NoneIsNone
<1>q. QED
    BY <1>5, <1>6, <1>7 DEF V

LEMMA HostIs ==
    ASSUME NEW server \in (Server \ {NoServer}) \cup {None}
    PROVE  ProxyServerHost(server) \in Host \cup {None}
<1>1. CASE server = None
    BY <1>1 DEF ProxyServerHost
<1>2. CASE server # None
    <2> DEFINE k == FirstOf(server, DOMAIN server)
    <2>1. server \in Server /\ DOMAIN server = Managed \cup {"ftp"} /\ server # NoServer
        BY <1>2 DEF Server
    <2>2. \E j \in DOMAIN server : server[j] # None
        <3>1. NoServer = [j \in Managed \cup {"ftp"} |-> None]
            BY DEF NoServer
        <3>q. QED
            BY <2>1, <3>1 DEF Server
    <2>3. k \in DOMAIN server
        BY <2>1, <2>2, FirstOfIs
    <2>q. QED
        BY <1>2, <2>1, <2>3 DEF ProxyServerHost, Server
<1>q. QED
    BY <1>1, <1>2

LEMMA Weaker ==
    ASSUME NEW P, NEW p, NEW Q, NEW R, Leads(P, p, Q), Q \subseteq R PROVE Leads(P, p, R)
<1>1. PICK S, A :
        /\ p \in Seq(S) /\ A \in [1..(Len(p) + 1) -> SUBSET State]
        /\ P \subseteq A[1] /\ A[Len(p) + 1] \subseteq Q
        /\ \A i \in 1..Len(p) : \A s \in A[i] : \A t : Outcome(p[i], s, t) => t \in A[i + 1]
    BY Zenon DEF Leads
<1>2. A[Len(p) + 1] \subseteq R
    BY <1>1
<1>q. QED
    BY <1>1, <1>2, Zenon DEF Leads

LEMMA NothingLeft == ASSUME NEW P, NEW Q, Leads(P, <<>>, Q) PROVE P \subseteq Q
<1>1. PICK S, A :
        /\ <<>> \in Seq(S) /\ A \in [1..(Len(<<>>) + 1) -> SUBSET State]
        /\ P \subseteq A[1] /\ A[Len(<<>>) + 1] \subseteq Q
        /\ \A i \in 1..Len(<<>>) : \A s \in A[i] : \A t : Outcome(<<>>[i], s, t) => t \in A[i + 1]
    BY Zenon DEF Leads
<1>2. Len(<<>>) + 1 = 1
    OBVIOUS
<1>q. QED
    BY <1>1, <1>2

\* What an operation may rely on when it starts.
AtStart(old, sn) == {s \in State : s.reg = old /\ (sn.inside = 1 => Temp(s, sn, None))}

LEMMA ProgramLeads ==
    ASSUME NEW o \in Operations, NEW host \in Host \cup {None}, NEW sn, reg \in Registry
    PROVE  Leads(AtStart(reg, sn), Program(o, host), Final(o, reg, sn))
<1> DEFINE I == AtStart(reg, sn)
           F == Final(o, reg, sn)
<1>0. I \in SUBSET State /\ o.name \in {"set", "unset", "pac", "multi"}
    BY DEF AtStart, Operations
<1>s. ASSUME NEW P \in SUBSET State, I \subseteq P, NEW Q, NEW p, Leads(P, p, Q), Q \subseteq F
      PROVE  Leads(I, p, F)
    <2>1. Leads(I, <<>>, P)
        BY <1>0, <1>s, NoCalls
    <2>2. Leads(I, <<>> \o p, F)
        BY <1>s, <2>1, InSequence, Weaker
    <2>3. \E S : p \in Seq(S)
        BY <1>s, Zenon DEF Leads
    <2>4. <<>> \o p = p
        BY <2>3
    <2>q. QED
        BY <2>2, <2>4
<1>1. CASE o.name = "set"
    <2>1. o.arg \in Proxies
        BY <1>1 DEF Operations
    <2>2. I \subseteq SetAt(o.arg, sn, 0)
        BY NoneIsNone DEF AtStart, SetAt, SetHolds, Temp
    <2>3. SetAt(o.arg, sn, 6) \subseteq F /\ SetAt(o.arg, sn, 0) \in SUBSET State
        BY <1>1 DEF Final, SetAt
    <2>4. Leads(SetAt(o.arg, sn, 0), Program(o, host), SetAt(o.arg, sn, 6))
        BY <1>1, <2>1, SetLeads DEF Program
    <2>q. QED
        BY <1>s, <2>2, <2>3, <2>4
<1>2. CASE o.name = "unset"
    <2>2. I \subseteq UnsetAt(sn, 0)
        BY DEF AtStart, UnsetAt, UnsetHolds
    <2>3. UnsetAt(sn, 4) \subseteq F /\ UnsetAt(sn, 0) \in SUBSET State
        BY <1>2 DEF Final, UnsetAt
    <2>4. Leads(UnsetAt(sn, 0), Program(o, host), UnsetAt(sn, 4))
        BY <1>2, UnsetLeads DEF Program
    <2>q. QED
        BY <1>s, <2>2, <2>3, <2>4
<1>3. CASE o.name = "pac"
    <2>1. o.arg \in Pac
        BY <1>3 DEF Operations
    <2>2. I \subseteq PacAt(o.arg, reg, sn, 0)
        BY DEF AtStart, PacAt, PacHolds
    <2>3. PacAt(o.arg, reg, sn, 3) \subseteq F /\ PacAt(o.arg, reg, sn, 0) \in SUBSET State
        BY <1>3 DEF Final, PacAt
    <2>4. Leads(PacAt(o.arg, reg, sn, 0), Program(o, host), PacAt(o.arg, reg, sn, 3))
        BY <1>3, <2>1, PacLeads DEF Program
    <2>q. QED
        BY <1>s, <2>2, <2>3, <2>4
<1>4. CASE o.name = "multi"
    <2>1. o.arg \in Configs
        BY <1>4 DEF Operations
    <2>2. I \subseteq MultiAt(o.arg, reg, sn, 0)
        BY DEF AtStart, MultiAt, MultiHolds
    <2>3. MultiAt(o.arg, reg, sn, 5) \subseteq F /\ MultiAt(o.arg, reg, sn, 0) \in SUBSET State
        BY <1>4 DEF Final, MultiAt
    <2>4. Leads(MultiAt(o.arg, reg, sn, 0), Program(o, host), MultiAt(o.arg, reg, sn, 5))
        BY <1>4, <2>1, MultiLeads DEF Program
    <2>q. QED
        BY <1>s, <2>2, <2>3, <2>4
<1>q. QED
    BY <1>0, <1>1, <1>2, <1>3, <1>4

TypeInv == /\ TypeOK /\ errs \in {Nil, Hard} /\ warn \in {Nil, Warning}
           /\ op \in Operations \cup [name : {"none", "snapshot", "restore"}]
           /\ running => op \in Operations \cup [name : {"restore"}]

SnapInv == /\ DOMAIN snap = {"open", "reg", "logins", "inside", "calm"} /\ snap.inside \in Nat
           /\ snap.open \/ op.name = "restore" =>
                 snap.reg \in Registry /\ snap.logins \in [Host -> Login]
           /\ running /\ snap.open /\ op.name # "restore" => snap.inside > 0
           /\ running /\ op.name = "restore" => snap.open

\* What is left to do leads from here to where the operation is to end.
RunInv == running => \E P \in SUBSET State : Now \in P /\ Leads(P, prog, Final(op, pre, snap))

\* Where the last operation that reported success has ended.
DoneInv == ~running =>
    /\ Success => errs = Nil /\ result = warn /\ Now \in Final(op, pre, snap)
    /\ op.name = "restore" /\ snap.calm => ~skipped

\* As long as WithProxy has made one change at most, and no call has failed,
\* a login that was not there is for the proxy that is set.
TraceInv == ~running /\ snap.open =>
    /\ snap.inside = 0 => Temp(Now, snap, None)
    /\ snap.inside <= 1 /\ snap.calm => Temp(Now, snap, ProxyServerHost(reg["ProxyServer"]))

WinInv == TypeInv /\ SnapInv /\ RunInv /\ DoneInv /\ TraceInv

\* The parts of TypeOK one by one.
Types == /\ reg \in Registry /\ live \in Registry /\ pre \in Registry
         /\ logins \in [Host -> Login]
         /\ running \in BOOLEAN /\ ended \in BOOLEAN /\ skipped \in BOOLEAN
         /\ snap.open \in BOOLEAN /\ snap.calm \in BOOLEAN
         /\ errs \in {Nil, Warning, Hard} /\ warn \in {Nil, Warning, Hard}
         /\ result \in {Nil, Warning, Hard}
         /\ ops \in 0..MaxOps /\ faults \in 0..MaxFaults

LEMMA TypeParts == (TypeOK <=> Types) /\ (TypeOK' <=> Types')
<1>1. \A a, b, c, S : {a, b, c} \subseteq S <=> a \in S /\ b \in S /\ c \in S
    OBVIOUS
<1>2. \A a, b, c, d, e, S :
        {a, b, c, d, e} \subseteq S <=> a \in S /\ b \in S /\ c \in S /\ d \in S /\ e \in S
    OBVIOUS
<1>q. QED
    BY <1>1, <1>2, Zenon DEF TypeOK, Types

\* What a change of one field leaves of the others.
LEMMA SnapFields ==
    ASSUME NEW r, DOMAIN r = {"open", "reg", "logins", "inside", "calm"}, NEW n, NEW c, NEW o
    PROVE  /\ LET q == [r EXCEPT !.inside = n]
              IN  /\ DOMAIN q = DOMAIN r /\ q.inside = n /\ q.open = r.open /\ q.calm = r.calm
                  /\ q.reg = r.reg /\ q.logins = r.logins
           /\ LET q == [r EXCEPT !.calm = c, !.open = o]
              IN  /\ DOMAIN q = DOMAIN r /\ q.inside = r.inside /\ q.open = o /\ q.calm = c
                  /\ q.reg = r.reg /\ q.logins = r.logins
OBVIOUS

LEMMA WinInit == Init => WinInv
<1> SUFFICES ASSUME Init PROVE WinInv
    OBVIOUS
<1>0. /\ reg \in Registry /\ logins \in [Host -> Login] /\ live = reg /\ pre = reg /\ snap = NoSnap
      /\ op = [name |-> "none"] /\ running = FALSE /\ ended = FALSE
      /\ errs = Nil /\ warn = Nil /\ result = Nil /\ skipped = FALSE /\ ops = 0 /\ faults = 0
      /\ MaxOps \in Nat /\ MaxFaults \in Nat
    BY WindowsAssumption DEF Init
<1>s. /\ DOMAIN snap = {"open", "reg", "logins", "inside", "calm"} /\ snap.inside = 0
      /\ snap.open = FALSE /\ snap.calm = TRUE
    BY <1>0 DEF NoSnap
<1>n. op.name = "none" /\ op \in [name : {"none", "snapshot", "restore"}]
    BY <1>0
<1>t. TypeOK
    <2>1. reg \in Registry /\ live \in Registry /\ pre \in Registry /\ logins \in [Host -> Login]
        BY <1>0
    <2>2. /\ running \in BOOLEAN /\ ended \in BOOLEAN /\ skipped \in BOOLEAN
          /\ snap.open \in BOOLEAN /\ snap.calm \in BOOLEAN
        BY <1>0, <1>s
    <2>3. /\ errs \in {Nil, Warning, Hard} /\ warn \in {Nil, Warning, Hard}
          /\ result \in {Nil, Warning, Hard} /\ ops \in 0..MaxOps /\ faults \in 0..MaxFaults
        BY <1>0
    <2>q. QED
        BY <2>1, <2>2, <2>3, TypeParts DEF Types
<1>1. TypeInv
    BY <1>0, <1>t, <1>n DEF TypeInv
<1>2. SnapInv
    BY <1>0, <1>s, <1>n DEF SnapInv
<1>3. Now \in State
    BY <1>0 DEF Now, State
<1>4. Now \in Final(op, pre, snap)
    BY <1>3, <1>n DEF Final
<1>5. RunInv /\ DoneInv /\ TraceInv
    BY <1>0, <1>s, <1>n, <1>4 DEF RunInv, DoneInv, TraceInv
<1>q. QED
    BY <1>1, <1>2, <1>5 DEF WinInv

\* What holds of a state when no operation is under way.
LEMMA NowIsState == ASSUME TypeInv PROVE Now \in State
BY DEF TypeInv, TypeOK, Now, State

\* The steps do what the outlines take calls to do.
LEMMA CallIsOutcome ==
    ASSUME TypeInv, CallWorks \/ CallFails PROVE Outcome(Head(prog), Now, Now')
<1> DEFINE c == Head(prog)
<1>0. /\ Fields(Now')
      /\ Now.reg = reg /\ Now.live = live /\ Now.logins = logins /\ Now.errs = errs
      /\ Now.warn = warn /\ Now.skipped = skipped
      /\ Now'.reg = reg' /\ Now'.live = live' /\ Now'.logins = logins' /\ Now'.errs = errs'
      /\ Now'.warn = warn' /\ Now'.skipped = skipped'
    BY DEF Now, Fields
<1>1. CASE CallWorks
    <2>0. errs' = errs /\ skipped' = skipped
        BY <1>1 DEF CallWorks
    <2>1. CASE UsesContext(c) /\ reg' = [reg EXCEPT ![c.name] = c.value] /\ UNCHANGED <<logins, live, warn>>
        BY <1>0, <2>0, <2>1 DEF Worked, Outcome, UsesContext
    <2>2. CASE c.do = "store" /\ Store(c.name) /\ UNCHANGED <<reg, live>>
        BY <1>0, <2>0, <2>2 DEF Worked, Outcome, UsesContext, Store
    <2>3. CASE c.do = "remove" /\ Remove(c.name) /\ UNCHANGED <<reg, live, warn>>
        BY <1>0, <2>0, <2>3 DEF Worked, Outcome, UsesContext, Remove
    <2>4. CASE c.do = "notify" /\ Refresh /\ UNCHANGED <<logins, warn>>
        <3>1. reg \in Registry /\ live \in Registry
            BY DEF TypeInv, TypeOK
        <3>2. /\ reg["ProxyEnable"] # None => reg' = reg
              /\ \A n \in NameSet : reg'[n] # reg[n] => n \in {"ProxyEnable", "ProxyServer"}
              /\ reg' \in Registry /\ live' = reg'
            BY <2>4, <3>1 DEF Refresh, Registry, NameSet
        <3>q. QED
            BY <1>0, <2>0, <2>4, <3>2 DEF Worked, Outcome, UsesContext
    <2>q. QED
        BY <1>1, <2>1, <2>2, <2>3, <2>4 DEF CallWorks
<1>2. CASE CallFails
    BY <1>0, <1>2 DEF CallFails, Failed, Outcome, TypeInv, TypeOK
<1>q. QED
    BY <1>1, <1>2

\* An operation begins.
LEMMA BeginsWell ==
    ASSUME WinInv, NEW o \in Operations, Begins(o), Counted, NEW host \in Host \cup {None},
           prog' = Program(o, host), running' = TRUE, ended' = FALSE, result' = Nil,
           skipped' \in BOOLEAN, faults' \in 0..MaxFaults
    PROVE  WinInv'
<1>0. /\ op' = o /\ pre' = reg /\ errs' = Nil /\ warn' = Nil /\ ~running
      /\ UNCHANGED <<reg, logins, live>>
      /\ ops < MaxOps /\ ops' = ops + 1
      /\ snap' = IF snap.open THEN [snap EXCEPT !.inside = @ + 1] ELSE NoSnap
    BY DEF Begins, Counted
<1>t. TypeOK /\ MaxOps \in Nat /\ reg \in Registry /\ logins \in [Host -> Login] /\ live \in Registry
    BY WindowsAssumption DEF WinInv, TypeInv, TypeOK
<1>s. /\ DOMAIN snap' = {"open", "reg", "logins", "inside", "calm"} /\ snap'.inside \in Nat
      /\ snap'.open = snap.open /\ snap'.calm \in BOOLEAN
      /\ snap.open => /\ snap'.reg = snap.reg /\ snap'.logins = snap.logins
                      /\ snap'.inside = snap.inside + 1
      /\ ~snap.open => snap'.inside = 0
    <2>0. /\ DOMAIN snap = {"open", "reg", "logins", "inside", "calm"} /\ snap.inside \in Nat
          /\ snap.open \in BOOLEAN /\ snap.calm \in BOOLEAN
        BY <1>t, TypeParts DEF Types, WinInv, SnapInv
    <2>1. CASE snap.open
        <3>1. snap' = [snap EXCEPT !.inside = snap.inside + 1]
            BY <1>0, <2>1
        <3>2. /\ DOMAIN snap' = DOMAIN snap /\ snap'.inside = snap.inside + 1
              /\ snap'.open = snap.open /\ snap'.calm = snap.calm
              /\ snap'.reg = snap.reg /\ snap'.logins = snap.logins
            BY <2>0, <3>1, SnapFields
        <3>q. QED
            BY <2>0, <2>1, <3>2
    <2>2. CASE ~snap.open
        <3>1. snap' = NoSnap
            BY <1>0, <2>2
        <3>2. NoSnap.open = FALSE /\ snap.open = FALSE
            BY <2>0, <2>2 DEF NoSnap
        <3>q. QED
            BY <3>1, <3>2 DEF NoSnap
    <2>q. QED
        BY <2>1, <2>2
<1>n. o.name \in {"set", "unset", "pac", "multi"}
    BY DEF Operations
<1>1. TypeInv'
    <2>1. ops' \in 0..MaxOps /\ snap'.open \in BOOLEAN /\ snap'.calm \in BOOLEAN
        BY <1>0, <1>t, <1>s, TypeParts DEF Types
    <2>2. TypeOK'
        BY <1>0, <1>t, <2>1, TypeParts DEF Types
    <2>q. QED
        BY <1>0, <2>2 DEF TypeInv
<1>2. SnapInv'
    BY <1>0, <1>s, <1>n DEF SnapInv, WinInv
<1>3. Now' \in AtStart(reg, snap')
    <2>1. Now' \in State /\ Now'.reg = reg /\ Now'.logins = logins /\ Now.logins = logins
        BY <1>0, <1>1, NowIsState DEF TypeInv, TypeOK, Now, State
    <2>2. snap'.inside = 1 => snap.open /\ snap.inside = 0 /\ snap'.logins = snap.logins
        BY <1>s DEF WinInv, SnapInv
    <2>3. snap'.inside = 1 => Temp(Now', snap', None)
        BY <1>0, <2>1, <2>2 DEF WinInv, TraceInv, Temp
    <2>q. QED
        BY <2>1, <2>3 DEF AtStart
<1>4. Leads(AtStart(reg, snap'), prog', Final(op', pre', snap'))
    BY <1>0, <1>t, ProgramLeads
<1>5. AtStart(reg, snap') \in SUBSET State
    BY DEF AtStart
<1>6. RunInv' /\ DoneInv' /\ TraceInv'
    BY <1>3, <1>4, <1>5 DEF RunInv, DoneInv, TraceInv
<1>q. QED
    BY <1>1, <1>2, <1>6 DEF WinInv

\* The host that an operation reads before it starts.
LEMMA HostRead ==
    ASSUME TypeInv PROVE ProxyServerHost(reg["ProxyServer"]) \in Host \cup {None}
<1>1. reg["ProxyServer"] \in (Server \ {NoServer}) \cup {None}
    BY TypeParts DEF TypeInv, Types, Registry
<1>q. QED
    BY <1>1, HostIs

LEMMA FaultCount == ASSUME TypeInv PROVE /\ Fault => faults' \in 0..MaxFaults
                                         /\ UNCHANGED faults => faults' \in 0..MaxFaults
BY TypeParts, WindowsAssumption DEF TypeInv, Types, Fault

LEMMA StartKeeps == ASSUME WinInv, NEW o \in Operations, Start(o) PROVE WinInv'
<1>1. faults' \in 0..MaxFaults /\ ProxyServerHost(reg["ProxyServer"]) \in Host \cup {None}
    BY FaultCount, HostRead DEF Start, WinInv
<1>q. QED
    BY <1>1, BeginsWell DEF Start

LEMMA StartBlindKeeps == ASSUME WinInv, StartBlind PROVE WinInv'
<1>1. faults' \in 0..MaxFaults
    BY FaultCount DEF StartBlind, WinInv
<1>2. [name |-> "unset"] \in Operations
    BY DEF Operations
<1>3. prog' = Program([name |-> "unset"], None)
    BY DEF StartBlind, Program
<1>q. QED
    BY <1>1, <1>2, <1>3, BeginsWell DEF StartBlind

\* A step between operations that changes no setting and reports a failure,
\* or takes a snapshot.
LEMMA StartFailsKeeps == ASSUME WinInv, NEW o \in Operations, StartFails(o) PROVE WinInv'
<1>0. /\ op' = o /\ pre' = reg /\ errs' = Nil /\ warn' = Nil /\ ~running /\ o.name = "multi"
      /\ UNCHANGED <<reg, logins, live, running, ended, prog>>
      /\ ops < MaxOps /\ ops' = ops + 1 /\ result' = Hard /\ skipped' = FALSE
      /\ snap' = IF snap.open THEN [snap EXCEPT !.inside = snap.inside + 1] ELSE NoSnap
    BY DEF StartFails, Begins, Counted
<1>t. Types /\ MaxOps \in Nat /\ faults' \in 0..MaxFaults
    BY TypeParts, WindowsAssumption, FaultCount DEF WinInv, TypeInv, StartFails
<1>s. /\ DOMAIN snap' = {"open", "reg", "logins", "inside", "calm"} /\ snap'.inside \in Nat
      /\ snap'.open \in BOOLEAN /\ snap'.calm \in BOOLEAN
      /\ snap'.open => /\ snap.open /\ snap'.reg = snap.reg /\ snap'.logins = snap.logins
                       /\ snap'.inside = snap.inside + 1
    <2>0. DOMAIN snap = {"open", "reg", "logins", "inside", "calm"} /\ snap.inside \in Nat
        BY DEF WinInv, SnapInv
    <2>1. CASE snap.open
        <3>1. snap' = [snap EXCEPT !.inside = snap.inside + 1]
            BY <1>0, <2>1
        <3>2. /\ DOMAIN snap' = DOMAIN snap /\ snap'.inside = snap.inside + 1
              /\ snap'.open = snap.open /\ snap'.calm = snap.calm
              /\ snap'.reg = snap.reg /\ snap'.logins = snap.logins
            BY <2>0, <3>1, SnapFields
        <3>q. QED
            BY <1>t, <2>0, <2>1, <3>2 DEF Types
    <2>2. CASE ~snap.open
        <3>1. snap' = NoSnap
            BY <1>0, <2>2
        <3>q. QED
            BY <3>1 DEF NoSnap
    <2>q. QED
        BY <2>1, <2>2
<1>1. TypeInv'
    <2>1. ops' \in 0..MaxOps
        BY <1>0, <1>t DEF Types
    <2>2. Types'
        BY <1>0, <1>t, <1>s, <2>1 DEF Types
    <2>q. QED
        BY <1>0, <1>t, <2>2, TypeParts DEF TypeInv
<1>2. SnapInv'
    BY <1>0, <1>s DEF SnapInv, WinInv
<1>3. Now'.logins = Now.logins /\ reg' = reg
    BY <1>0 DEF Now
<1>4. TraceInv'
    <2>1. snap'.open => snap.inside = 0 \/ snap'.inside > 1
        BY <1>s DEF WinInv, SnapInv
    <2>2. snap'.open /\ snap.inside = 0 => Temp(Now', snap', None)
        BY <1>0, <1>s, <1>3 DEF WinInv, TraceInv, Temp
    <2>3. snap'.open => ~(snap'.inside = 0)
        BY <1>s DEF WinInv, SnapInv
    <2>4. Temp(Now', snap', None) => Temp(Now', snap', ProxyServerHost(reg'["ProxyServer"]))
        BY NoneIsNone DEF Temp
    <2>q. QED
        BY <1>s, <2>1, <2>2, <2>3, <2>4 DEF TraceInv
<1>5. RunInv' /\ DoneInv'
    BY <1>0, Classes DEF RunInv, DoneInv, Success
<1>q. QED
    BY <1>1, <1>2, <1>4, <1>5 DEF WinInv

LEMMA CallKeepsInv == ASSUME WinInv, CallWorks \/ CallFails PROVE WinInv'
<1>0. /\ running /\ prog # <<>> /\ prog' = Tail(prog)
      /\ UNCHANGED <<op, running, ended, result, pre, snap, ops>>
    BY DEF CallWorks, CallFails, bounds
<1>1. PICK P \in SUBSET State : Now \in P /\ Leads(P, prog, Final(op, pre, snap))
    BY <1>0 DEF WinInv, RunInv
<1>2. Outcome(Head(prog), Now, Now')
    BY CallIsOutcome DEF WinInv
<1>3. PICK R \in SUBSET State : Now' \in R /\ Leads(R, Tail(prog), Final(op, pre, snap))
    BY <1>0, <1>1, <1>2, FirstCall
<1>4. RunInv'
    BY <1>0, <1>3 DEF RunInv
<1>5. TypeInv'
    <2>1. Now' \in State
        BY <1>3
    <2>2. /\ reg' \in Registry /\ live' \in Registry /\ logins' \in [Host -> Login]
          /\ errs' \in {Nil, Hard} /\ warn' \in {Nil, Warning} /\ skipped' \in BOOLEAN
        BY <2>1, OfState DEF Now
    <2>3. faults' \in 0..MaxFaults
        BY FaultCount DEF CallWorks, CallFails, bounds, WinInv
    <2>4. Types'
        BY <1>0, <2>2, <2>3, TypeParts DEF WinInv, TypeInv, Types
    <2>q. QED
        BY <1>0, <2>2, <2>4, TypeParts DEF WinInv, TypeInv
<1>6. SnapInv' /\ DoneInv' /\ TraceInv'
    BY <1>0 DEF WinInv, SnapInv, DoneInv, TraceInv
<1>q. QED
    BY <1>4, <1>5, <1>6 DEF WinInv

LEMMA CancelKeeps == ASSUME WinInv, Cancel PROVE WinInv'
<1>0. /\ running /\ ended' = TRUE /\ Now' = Now
      /\ UNCHANGED <<reg, logins, live, op, running, prog, errs, warn, result, skipped, pre, snap, ops>>
    BY DEF Cancel, Now
<1>1. TypeInv'
    <2>1. faults' \in 0..MaxFaults
        BY FaultCount DEF Cancel, WinInv
    <2>2. Types'
        BY <1>0, <2>1, TypeParts DEF WinInv, TypeInv, Types
    <2>q. QED
        BY <1>0, <2>2, TypeParts DEF WinInv, TypeInv
<1>2. SnapInv' /\ RunInv' /\ DoneInv' /\ TraceInv'
    BY <1>0 DEF WinInv, SnapInv, RunInv, DoneInv, TraceInv
<1>q. QED
    BY <1>1, <1>2 DEF WinInv

LEMMA FinishKeeps == ASSUME WinInv, Finish PROVE WinInv'
<1> DEFINE calm == snap.calm /\ errs = Nil /\ ~skipped
           open == snap.open /\ op.name # "restore"
<1>0. /\ running /\ prog = <<>> /\ running' = FALSE
      /\ result' = IF errs # Nil THEN errs ELSE warn
      /\ snap' = [snap EXCEPT !.calm = calm, !.open = open]
      /\ UNCHANGED <<reg, logins, live, op, prog, ended, errs, warn, skipped, pre, ops, faults>>
    BY DEF Finish, bounds
<1>s. /\ DOMAIN snap' = {"open", "reg", "logins", "inside", "calm"} /\ snap'.inside = snap.inside
      /\ snap'.open = open /\ snap'.calm = calm /\ snap'.reg = snap.reg /\ snap'.logins = snap.logins
      /\ open \in BOOLEAN /\ calm \in BOOLEAN
    <2>1. DOMAIN snap = {"open", "reg", "logins", "inside", "calm"}
        BY DEF WinInv, SnapInv
    <2>2. open \in BOOLEAN /\ calm \in BOOLEAN
        OBVIOUS
    <2> HIDE DEF open, calm
    <2>q. QED
        BY <1>0, <2>1, <2>2, SnapFields
<1>c. (snap'.calm => snap.calm /\ errs = Nil /\ ~skipped) /\ (snap'.open => snap.open /\ op.name # "restore")
    BY <1>s
<1> HIDE DEF calm, open
<1>n. Now' = Now
    BY <1>0 DEF Now
<1>1. Now \in Final(op, pre, snap)
    BY <1>0, NothingLeft DEF WinInv, RunInv
<1>2. TypeInv'
    <2>1. Types'
        BY <1>0, <1>s, TypeParts DEF WinInv, TypeInv, Types
    <2>q. QED
        BY <1>0, <2>1, TypeParts DEF WinInv, TypeInv
<1>3. SnapInv'
    BY <1>0, <1>s, <1>c DEF WinInv, SnapInv
<1>4. Now \in Final(op, pre, snap')
    <2>1. op.name = "set" => SetAt(op.arg, snap', 6) = SetAt(op.arg, snap, 6)
        BY <1>s DEF SetAt, SetHolds, Temp
    <2>2. UnsetAt(snap', 4) = UnsetAt(snap, 4)
        BY <1>s DEF UnsetAt, UnsetHolds, Temp
    <2>3. PacAt(op.arg, pre, snap', 3) = PacAt(op.arg, pre, snap, 3)
        BY <1>s DEF PacAt, PacHolds, Temp
    <2>4. MultiAt(op.arg, pre, snap', 5) = MultiAt(op.arg, pre, snap, 5)
        BY <1>s DEF MultiAt, MultiHolds, Temp
    <2>5. Now \in RestoreEnd(snap) => Now \in RestoreEnd(snap')
        BY <1>s, <1>c DEF RestoreEnd, RestoreDone, Leftover, Temp
    <2>q. QED
        BY <1>1, <2>1, <2>2, <2>3, <2>4, <2>5 DEF Final
<1>5. DoneInv'
    <2>1. Success' => errs = Nil
        BY <1>0, Classes DEF Success, WinInv, TypeInv
    <2>q. QED
        BY <1>0, <1>c, <1>n, <1>4, <2>1 DEF DoneInv
<1>6. TraceInv'
    <2>1. ASSUME snap'.open PROVE snap.inside # 0 /\ op \in Operations
        <3>1. snap.inside > 0 /\ op.name # "restore"
            BY <1>0, <1>c, <2>1 DEF WinInv, SnapInv
        <3>q. QED
            BY <1>0, <3>1 DEF WinInv, SnapInv, TypeInv
    <2>2. ASSUME snap'.open, snap'.inside <= 1, snap'.calm
          PROVE  Temp(Now, snap, ProxyServerHost(reg["ProxyServer"]))
        <3>0. /\ snap.inside = 1 /\ op.name \in {"set", "unset", "pac", "multi"}
              /\ errs # Hard /\ Now.errs = errs /\ Now.reg = reg
            <4>1. snap.inside \in Nat /\ snap.inside <= 1 /\ errs = Nil
                BY <1>s, <1>c, <2>2 DEF WinInv, SnapInv
            <4>2. op.name \in {"set", "unset", "pac", "multi"}
                BY <2>1, <2>2 DEF Operations
            <4>q. QED
                BY <2>1, <2>2, <4>1, <4>2, Classes DEF Now
        <3>1. CASE op.name = "set"
            <4>1. SetHolds(op.arg, snap, Now, 6)
                BY <1>1, <3>0, <3>1 DEF Final, SetAt
            <4>2. op.arg \in Proxy
                BY <2>1, <2>2, <3>1, WindowsAssumption DEF Operations
            <4>3. ProxyServerHost(reg["ProxyServer"]) = op.arg.host
                BY <3>0, <4>1, <4>2, HostOfValue DEF SetHolds
            <4>q. QED
                BY <3>0, <4>1, <4>3 DEF SetHolds
        <3>2. CASE op.name # "set"
            <4>1. Temp(Now, snap, None)
                BY <1>1, <3>0, <3>2 DEF Final, UnsetAt, UnsetHolds, PacAt, PacHolds, MultiAt, MultiHolds
            <4>q. QED
                BY <4>1, NoneIsNone DEF Temp
        <3>q. QED
            BY <3>1, <3>2
    <2>3. \A h : Temp(Now, snap, h) => Temp(Now, snap', h)
        BY <1>s DEF Temp
    <2>q. QED
        BY <1>0, <1>s, <1>n, <2>1, <2>2, <2>3 DEF TraceInv
<1>7. RunInv'
    BY <1>0 DEF RunInv
<1>q. QED
    BY <1>2, <1>3, <1>5, <1>6, <1>7 DEF WinInv

LEMMA SnapshotKeeps == ASSUME WinInv, Snapshot \/ SnapshotFails PROVE WinInv'
<1>0. /\ ~snap.open /\ ~running /\ op' = [name |-> "snapshot"] /\ pre' = reg
      /\ errs' = Nil /\ warn' = Nil
      /\ UNCHANGED <<reg, logins, live, running, prog, ended, skipped, ops>>
      /\ \/ /\ result' = Nil
            /\ snap' = [open |-> TRUE, reg |-> reg, logins |-> logins, inside |-> 0, calm |-> TRUE]
         \/ result' = Hard /\ snap' = snap
    BY DEF Snapshot, SnapshotFails, Begins, bounds
<1>t. Types /\ faults' \in 0..MaxFaults
    BY TypeParts, FaultCount DEF WinInv, TypeInv, Snapshot, SnapshotFails, bounds
<1>s. /\ DOMAIN snap' = {"open", "reg", "logins", "inside", "calm"} /\ snap'.inside \in Nat
      /\ snap'.open \in BOOLEAN /\ snap'.calm \in BOOLEAN
      /\ snap'.open => snap'.reg = reg /\ snap'.logins = logins
    <2>1. CASE snap' = snap
        BY <1>0, <1>t, <2>1 DEF WinInv, SnapInv, Types
    <2>2. CASE snap' = [open |-> TRUE, reg |-> reg, logins |-> logins, inside |-> 0, calm |-> TRUE]
        BY <2>2
    <2>q. QED
        BY <1>0, <2>1, <2>2
<1>1. TypeInv'
    <2>1. Types'
        BY <1>0, <1>t, <1>s DEF Types
    <2>q. QED
        BY <1>0, <2>1, TypeParts DEF TypeInv
<1>2. SnapInv'
    BY <1>0, <1>t, <1>s DEF SnapInv, Types
<1>3. TraceInv'
    BY <1>0, <1>s DEF TraceInv, Temp, Now
<1>4. RunInv'
    BY <1>0 DEF RunInv
<1>5. DoneInv'
    <2>1. Now' \in State
        BY <1>1, NowIsState DEF TypeInv, TypeOK, Now, State
    <2>2. Now' \in Final(op', pre', snap')
        BY <1>0, <2>1 DEF Final
    <2>q. QED
        BY <1>0, <2>2, Classes DEF DoneInv, Success
<1>q. QED
    BY <1>1, <1>2, <1>3, <1>4, <1>5 DEF WinInv

LEMMA RestoreKeeps == ASSUME WinInv, Restore PROVE WinInv'
<1> DEFINE host == ProxyServerHost(reg["ProxyServer"])
<1>0. /\ snap.open /\ ~running /\ op' = [name |-> "restore"] /\ pre' = reg
      /\ errs' = Nil /\ warn' = Nil /\ running' = TRUE /\ ended' = FALSE /\ result' = Nil
      /\ UNCHANGED <<reg, logins, live, snap, ops>>
      /\ skipped' \in BOOLEAN
    BY DEF Restore, Begins
<1>h. \E h \in Host \cup {None} : prog' = RestoreGlobal(h) /\ (h = host \/ skipped')
    BY HostRead DEF Restore, WinInv
<1>t. Types /\ faults' \in 0..MaxFaults
    BY TypeParts, FaultCount DEF WinInv, TypeInv, Restore
<1>1. TypeInv'
    <2>1. Types'
        BY <1>0, <1>t DEF Types
    <2>q. QED
        BY <1>0, <2>1, TypeParts DEF TypeInv
<1>2. SnapInv'
    BY <1>0 DEF WinInv, SnapInv
<1>3. RunInv'
    <2>1. PICK h \in Host \cup {None} : prog' = RestoreGlobal(h) /\ (h = host \/ skipped')
        BY <1>h
    <2>2. Leads(RestoreAt(snap, h, 0), prog', RestoreEnd(snap))
        BY <1>0, <2>1, RestoreLeads DEF WinInv, SnapInv
    <2>3. RestoreEnd(snap) \subseteq Final(op', pre', snap')
        BY <1>0 DEF Final, RestoreEnd
    <2>4. Now' \in RestoreAt(snap, h, 0)
        <3>1. Now' \in State /\ Now'.logins = Now.logins /\ Now'.skipped = skipped'
            BY <1>0, <1>1, NowIsState DEF TypeInv, TypeOK, Now, State
        <3>2. snap.inside <= 1 /\ snap.calm => skipped' \/ Temp(Now', snap, h)
            BY <1>0, <2>1, <3>1 DEF WinInv, TraceInv, Temp
        <3>q. QED
            BY <3>1, <3>2 DEF RestoreAt, RestoreHolds, Leftover
    <2>5. RestoreAt(snap, h, 0) \in SUBSET State
        BY DEF RestoreAt
    <2>q. QED
        BY <2>2, <2>3, <2>4, <2>5, Weaker DEF RunInv
<1>4. DoneInv' /\ TraceInv'
    BY <1>0 DEF DoneInv, TraceInv
<1>q. QED
    BY <1>1, <1>2, <1>3, <1>4 DEF WinInv

LEMMA WinStep == WinInv /\ [Next]_vars => WinInv'
<1> SUFFICES ASSUME WinInv, [Next]_vars PROVE WinInv'
    OBVIOUS
<1>1. CASE UNCHANGED vars
    BY <1>1 DEF vars, bounds, WinInv, TypeInv, TypeOK, SnapInv, RunInv, DoneInv, TraceInv, Now, Success
<1>q. QED
    BY <1>1, StartKeeps, StartFailsKeeps, StartBlindKeeps, CallKeepsInv, CancelKeeps, FinishKeeps,
       SnapshotKeeps, RestoreKeeps DEF Next

LEMMA WinAlways == Spec => []WinInv
BY WinInit, WinStep, PTL DEF Spec

-----------------------------------------------------------------------------
(* What it is for.                                                         *)

\* Every variable keeps its type.
THEOREM TypesKept == Spec => []TypeOK
<1>1. WinInv => TypeOK
    BY DEF WinInv, TypeInv
<1>q. QED
    BY <1>1, WinAlways, PTL

LEMMA WhenDone ==
    ASSUME WinInv, ~running, Success, op.name \in {"set", "unset", "pac", "multi", "restore"}
    PROVE  /\ op.name = "set"     => SetHolds(op.arg, snap, Now, 6)
           /\ op.name = "unset"   => UnsetHolds(snap, Now, 4)
           /\ op.name = "pac"     => PacHolds(op.arg, pre, snap, Now, 3)
           /\ op.name = "multi"   => MultiHolds(op.arg, pre, snap, Now, 5)
           /\ op.name = "restore" => RestoreDone(snap, Now)
           /\ op.name # "restore" => op \in Operations
           /\ Now.reg = reg /\ Now.live = live /\ Now.logins = logins /\ Now.skipped = skipped
           /\ Now.warn = result /\ reg \in Registry /\ pre \in Registry
<1>1. Now \in Final(op, pre, snap) /\ errs = Nil /\ warn = result
    BY DEF WinInv, DoneInv
<1>2. /\ Now.errs # Hard /\ Now.reg = reg /\ Now.live = live /\ Now.logins = logins
      /\ Now.skipped = skipped /\ Now.warn = result
    BY <1>1, Classes DEF Now
<1>3. op.name # "restore" => op \in Operations
    BY DEF WinInv, TypeInv
<1>4. reg \in Registry /\ pre \in Registry
    BY TypeParts DEF WinInv, TypeInv, Types
<1>q. QED
    BY <1>1, <1>2, <1>3, <1>4 DEF Final, SetAt, UnsetAt, PacAt, MultiAt, RestoreEnd

\* "a change that did not happen is an error, not a success": when an operation
\* ends without a hard error, the values it has to write are what was asked and
\* the login is stored or a warning tells of it.  Exempt is what a delete that
\* failed and was ignored (skipped) may leave: a PAC URL after Set and SetMulti,
\* the old server, bypass list and PAC URL after Unset.  A SetMulti with a bypass
\* list alone leaves the rest as it was where ProxyEnable was there.
THEOREM SuccessIsDone == Spec => []SuccessMeansDone
<1>1. ASSUME WinInv, ~running, Success PROVE /\ op.name = "set"   => SetDone(op.arg)
                                             /\ op.name = "multi" => MultiDone(op.arg)
    <2>1. ASSUME op.name = "set" PROVE SetDone(op.arg)
        <3> DEFINE p == op.arg
                   V == ServerValue(p)
        <3>1. SetHolds(p, snap, Now, 6) /\ Now.reg = reg /\ Now.logins = logins /\ Now.warn = result
              /\ Now.skipped = skipped /\ op \in Operations
            BY <1>1, <2>1, WhenDone
        <3>2. p \in Proxy /\ p.host \in Host /\ p.socks \in BOOLEAN
            BY <2>1, <3>1, WindowsAssumption DEF Operations, Proxy
        <3>3. V \in Server /\ V # None /\ p.host # None
            BY <3>2, ServerValueIs, NoneIsNone
        <3>4. \A k \in DOMAIN NoServer : V[k] = IF k # "ftp" /\ (k = "socks") = p.socks THEN p.host ELSE None
            BY <3>2, ServerValueIs
        <3>5. /\ DOMAIN NoServer = {"http", "https", "socks", "ftp"}
              /\ Managed = {"http", "https", "socks"}
            BY NoServerIs DEF Managed
        <3> HIDE DEF V
        <3>6. reg["ProxyServer"] = V /\ reg["ProxyEnable"] = 1 /\ reg["ProxyOverride"] = Default
            BY <3>1 DEF SetHolds, V
        <3>7. \A k \in DOMAIN NoServer :
                (reg["ProxyServer"][k] # None) <=> k \in (IF p.socks THEN {"socks"} ELSE {"http", "https"})
            <4>1. CASE p.socks
                BY <3>3, <3>4, <3>5, <3>6, <4>1
            <4>2. CASE ~p.socks
                <5>1. p.socks = FALSE
                    BY <3>2, <4>2
                <5>q. QED
                    BY <3>3, <3>4, <3>5, <3>6, <5>1
            <4>q. QED
                BY <4>1, <4>2
        <3>8. GetGlobal(reg) = [kind |-> IF p.socks THEN "socks" ELSE "http", host |-> p.host]
            <4> DEFINE k == FirstOf(V, Managed)
            <4>1. /\ (\E j \in Managed : V[j] # None) => k \in Managed /\ V[k] # None
                  /\ "http" \in Managed /\ V["http"] # None => k = "http"
                BY <3>3, FirstOfIs
            <4> HIDE DEF k
            <4>2. CASE p.socks
                <5>1. V["socks"] = p.host /\ V["http"] = None /\ V["https"] = None
                    BY <3>4, <3>5, <4>2
                <5>2. k = "socks"
                    BY <3>3, <3>5, <4>1, <5>1
                <5>3. FirstOf(reg["ProxyServer"], Managed) = "socks" /\ "socks" # None
                    BY <3>5, <3>6, <5>2, NoneIsNone DEF k
                <5>q. QED
                    BY <3>3, <3>6, <4>2, <5>1, <5>3 DEF GetGlobal
            <4>3. CASE ~p.socks
                <5>0. p.socks = FALSE
                    BY <3>2, <4>3
                <5>1. V["http"] = p.host
                    <6>1. ("http" = "socks") = FALSE
                        OBVIOUS
                    <6>2. V["http"] =
                            IF "http" # "ftp" /\ ("http" = "socks") = p.socks THEN p.host ELSE None
                        BY <3>4, <3>5
                    <6>q. QED
                        BY <5>0, <6>1, <6>2
                <5>2. k = "http"
                    BY <3>3, <3>5, <4>1, <5>1
                <5>3. FirstOf(reg["ProxyServer"], Managed) = "http" /\ "http" # None
                    BY <3>5, <3>6, <5>2, NoneIsNone DEF k
                <5>q. QED
                    BY <3>3, <3>6, <4>3, <5>1, <5>3 DEF GetGlobal
            <4>q. QED
                BY <4>2, <4>3
        <3>9. /\ skipped \/ reg["AutoConfigURL"] = None
              /\ p.user => logins[p.host] = "ours" \/ result = Warning
            BY <3>1 DEF SetHolds
        <3>q. QED
            BY <3>6, <3>7, <3>8, <3>9 DEF SetDone
    <2>2. ASSUME op.name = "multi" PROVE MultiDone(op.arg)
        <3> DEFINE cfg == op.arg
        <3>1. /\ MultiHolds(cfg, pre, snap, Now, 5) /\ Now.reg = reg /\ Now.skipped = skipped
              /\ op \in Operations /\ pre \in Registry
            BY <1>1, <2>2, WhenDone
        <3>2. cfg \in Configs
            BY <2>2, <3>1 DEF Operations
        <3>3. pre["ProxyServer"] \in (Server \ {NoServer}) \cup {None}
            BY <3>1 DEF Registry
        <3>4. NamesKind(cfg) => \A k \in DOMAIN NoServer : reg["ProxyServer"][k] =
                IF k \in Managed /\ cfg[k] # None THEN cfg[k]
                ELSE IF pre["ProxyServer"] = None THEN None ELSE pre["ProxyServer"][k]
            BY <3>1, <3>2, <3>3, MergeIs DEF MultiHolds
        <3>5. reg["ProxyOverride"] = IF cfg["bypass"] = None THEN pre["ProxyOverride"] ELSE cfg["bypass"]
            BY <3>1 DEF MultiHolds
        <3>6. NamesKind(cfg) => reg["ProxyEnable"] = 1 /\ (skipped \/ reg["AutoConfigURL"] = None)
            BY <3>1 DEF MultiHolds
        <3>7. ~NamesKind(cfg) /\ pre["ProxyEnable"] # None =>
                \A n \in {"ProxyEnable", "ProxyServer", "AutoConfigURL"} : reg[n] = pre[n]
            BY <3>1 DEF MultiHolds
        <3>q. QED
            BY <3>4, <3>5, <3>6, <3>7 DEF MultiDone
    <2>q. QED
        BY <2>1, <2>2
<1>2. ASSUME WinInv, ~running, Success, op.name = "pac"
      PROVE  /\ reg = [pre EXCEPT !["AutoConfigURL"] = op.arg, !["ProxyEnable"] = 0]
             /\ GetGlobal(reg) = [kind |-> "pac", host |-> op.arg]
    <2>1. PacHolds(op.arg, pre, snap, Now, 3) /\ Now.reg = reg /\ reg \in Registry /\ pre \in Registry
        BY <1>2, WhenDone
    <2>2. /\ reg["AutoConfigURL"] = op.arg /\ reg["ProxyEnable"] = 0
          /\ reg["ProxyServer"] = pre["ProxyServer"] /\ reg["ProxyOverride"] = pre["ProxyOverride"]
        BY <2>1 DEF PacHolds
    <2>3. reg = [pre EXCEPT !["AutoConfigURL"] = op.arg, !["ProxyEnable"] = 0]
        BY <2>1, <2>2 DEF Registry
    <2>4. GetGlobal(reg) = [kind |-> "pac", host |-> op.arg]
        BY <2>2 DEF GetGlobal, OnlyPac
    <2>q. QED
        BY <2>3, <2>4
<1>3. ASSUME WinInv, ~running, Success, op.name = "unset"
      PROVE  /\ reg["ProxyEnable"] = 0
             /\ skipped \/ \A n \in DOMAIN reg \ {"ProxyEnable"} : reg[n] = None
    <2>1. UnsetHolds(snap, Now, 4) /\ Now.reg = reg /\ Now.skipped = skipped /\ reg \in Registry
        BY <1>3, WhenDone
    <2>2. DOMAIN reg = NameSet
        BY <2>1 DEF Registry, NameSet
    <2>q. QED
        BY <2>1, <2>2 DEF UnsetHolds, NameSet
<1>4. WinInv => SuccessMeansDone
    BY <1>1, <1>2, <1>3 DEF SuccessMeansDone
<1>q. QED
    BY <1>4, WinAlways, PTL

LEMMA RestoredIs ==
    ASSUME WinInv, Ended("restore"), Success
    PROVE  RestoreDone(snap, Now) /\ snap.reg \in Registry /\ (snap.calm => ~skipped)
BY WhenDone DEF Ended, WinInv, SnapInv, DoneInv

\* "the previous state back exactly": a restore that ends without a hard error
\* has put back every value that was there, what WinINET writes by itself
\* notwithstanding, and has removed those that were not, unless a call failed
\* and was ignored.
THEOREM RestoreExact == Spec => []RestoreIsExact
<1>1. ASSUME WinInv, Ended("restore"), Success
      PROVE  /\ \A n \in DOMAIN reg : snap.reg[n] # None => reg[n] = snap.reg[n]
             /\ skipped \/ reg = snap.reg
    <2>1. RestoreDone(snap, Now) /\ snap.reg \in Registry /\ Now.reg = reg /\ Now.skipped = skipped
          /\ reg \in Registry
        BY <1>1, RestoredIs, WhenDone DEF Ended
    <2>2. DOMAIN reg = NameSet
        BY <2>1 DEF Registry, NameSet
    <2>3. (\A m \in NameSet : reg[m] = snap.reg[m]) => reg = snap.reg
        BY <2>1 DEF Registry, NameSet
    <2>q. QED
        BY <2>1, <2>2, <2>3 DEF RestoreDone
<1>2. WinInv => RestoreIsExact
    BY <1>1 DEF RestoreIsExact
<1>q. QED
    BY <1>2, WinAlways, PTL

\* After Set, SetPAC, SetMulti and a restore that ended without a hard error, and
\* in which no failure was ignored, the running applications act on what is
\* stored.  Unset tells them nothing, and a notification that fails is ignored.
THEOREM Applications_Follow == Spec => []ApplicationsFollow
<1>1. ASSUME WinInv, ~running, Success, ~skipped, op.name \in {"set", "pac", "multi", "restore"}
      PROVE  Acts(live) = Acts(reg)
    <2>1. /\ Now.reg = reg /\ Now.live = live /\ Now.skipped = skipped
          /\ op.name = "set"     => SetHolds(op.arg, snap, Now, 6)
          /\ op.name = "pac"     => PacHolds(op.arg, pre, snap, Now, 3)
          /\ op.name = "multi"   => MultiHolds(op.arg, pre, snap, Now, 5)
          /\ op.name = "restore" => RestoreDone(snap, Now)
        BY <1>1, WhenDone
    <2>2. op.name # "restore" => live = reg
        BY <1>1, <2>1 DEF SetHolds, PacHolds, MultiHolds
    <2>3. op.name = "restore" => Acts(live) = Acts(reg)
        BY <1>1, <2>1 DEF RestoreDone
    <2>q. QED
        BY <2>2, <2>3
<1>2. WinInv => ApplicationsFollow
    BY <1>1 DEF ApplicationsFollow
<1>q. QED
    BY <1>2, WinAlways, PTL

\* "Credentials stored for a temporary proxy must not outlive it", when
\* WithProxy has made one change and no call has failed.
THEOREM Logins_Go == Spec => []TemporaryLoginsGo
<1>1. ASSUME WinInv, Ended("restore"), Success, snap.inside <= 1, snap.calm PROVE LoginsGo
    <2>1. RestoreDone(snap, Now) /\ ~skipped /\ Now.logins = logins /\ Now.skipped = skipped
        BY <1>1, RestoredIs, WhenDone DEF Ended
    <2>2. Temp(Now, snap, ProxyServerHost(snap.reg["ProxyServer"]))
        BY <1>1, <2>1 DEF RestoreDone, Leftover
    <2>q. QED
        BY <2>1, <2>2 DEF Temp, LoginsGo
<1>2. WinInv => TemporaryLoginsGo
    BY <1>1 DEF TemporaryLoginsGo
<1>q. QED
    BY <1>2, WinAlways, PTL
=============================================================================
