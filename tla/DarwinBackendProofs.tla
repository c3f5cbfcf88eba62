------------------------ MODULE DarwinBackendProofs ------------------------
(***************************************************************************)
(* That the macOS backend and the command line keep what they promise, for *)
(* any list of services, any values, any sequence of operations and any    *)
(* number of commands that fail.                                           *)
(*                                                                         *)
(* What an operation promises of a service is cut into small goals, one    *)
(* for each setting.  The heart of the argument is that, as long as no     *)
(* failure was recorded, each goal is either reached and no command that   *)
(* is left can spoil it, or one of those commands reaches it, counts when  *)
(* it fails, and is followed by none that could spoil it.                  *)
(***************************************************************************)
EXTENDS CommandLine, TLAPS

-----------------------------------------------------------------------------
(* The goals.                                                              *)

Aspect == {"proxy", "on", "auto", "url", "bypass"}

SetGoal(p, st, w, k) ==
    /\ w = "auto"  => ~st.auto
    /\ w = "proxy" => IF (k = "socks") = p.socks
                      THEN st.proxy[k] = [server |-> p.server, on |-> TRUE, auth |-> p.user]
                      ELSE ~st.proxy[k].on

UnsetGoal(st, w, k) ==
    /\ w = "auto"  => ~st.auto
    /\ w = "proxy" => ~st.proxy[k].on

PacGoal(url, st, w, k) ==
    /\ w = "auto"  => st.auto
    /\ w = "url"   => st.url = url
    /\ w = "proxy" => ~st.proxy[k].on

MultiGoal(cfg, st, old, w, k) ==
    /\ w = "auto"   => ~st.auto
    /\ w = "url"    => st.url = old.url
    /\ w = "bypass" => st.bypass = (IF cfg["bypass"] = None THEN old.bypass ELSE cfg["bypass"])
    /\ w = "proxy"  => IF cfg[k] = None THEN st.proxy[k] = old.proxy[k]
                       ELSE st.proxy[k].on /\ st.proxy[k].server = cfg[k]

RestoreGoal(st, old, w, k) ==
    /\ w = "proxy"  => /\ st.proxy[k].server = old.proxy[k].server
                       /\ old.proxy[k].server # None /\ ~old.proxy[k].auth => ~st.proxy[k].auth
    /\ w = "on"     => st.proxy[k].on = old.proxy[k].on
    /\ w = "auto"   => IF old.url # None THEN st.auto = old.auto ELSE st.auto => old.auto
    /\ w = "url"    => (old.url # None => st.url = old.url)
    /\ w = "bypass" => st.bypass = old.bypass

\* What operation o wants of aspect w of a service and of proxy kind k, where
\* `old` is the state the service had, or the one a restore puts back.
Goal(o, old, st, w, k) ==
    /\ o.name = "set"     => SetGoal(o.arg, st, w, k)
    /\ o.name = "unset"   => UnsetGoal(st, w, k)
    /\ o.name = "pac"     => PacGoal(o.arg, st, w, k)
    /\ o.name = "multi"   => MultiGoal(o.arg, st, old, w, k)
    /\ o.name = "restore" => RestoreGoal(st, old, w, k)

\* A command that cannot spoil a goal, and one that reaches it or is noticed.
Keeps(c, o, old, w, k) ==
    \A st \in ServiceState : Goal(o, old, st, w, k) => Goal(o, old, Effect(st, c), w, k)

Reaches(c, o, old, w, k) ==
    c.must /\ \A st \in ServiceState : Goal(o, old, Effect(st, c), w, k)

\* A sequence of commands that make states of states.
Program(p) ==
    /\ \E S : p \in Seq(S)
    /\ \A i \in 1..Len(p) : \A st \in ServiceState : Effect(st, p[i]) \in ServiceState

AllKeep(p, o, old, w, k) == \A i \in 1..Len(p) : Keeps(p[i], o, old, w, k)

Achieves(p, o, old, w, k) ==
    \E i \in 1..Len(p) : /\ Reaches(p[i], o, old, w, k)
                         /\ \A j \in (i + 1)..Len(p) : Keeps(p[j], o, old, w, k)

\* The goal is reached for good, or will be.
OnTrack(p, o, old, st, w, k) ==
    \/ AllKeep(p, o, old, w, k) /\ Goal(o, old, st, w, k)
    \/ Achieves(p, o, old, w, k)

-----------------------------------------------------------------------------
(* Sequences of commands.                                                  *)

LEMMA Nothing ==
    /\ Program(<<>>)
    /\ \A o, old, w, k : AllKeep(<<>>, o, old, w, k) /\ ~Achieves(<<>>, o, old, w, k)
<1>1. <<>> \in Seq({}) /\ Len(<<>>) = 0
    OBVIOUS
<1>2. \A i \in 1..0 : FALSE
    OBVIOUS
<1>q. QED
    BY <1>1, <1>2, Zenon DEF Program, AllKeep, Achieves

\* One command.
LEMMA Single ==
    ASSUME NEW c, \A st \in ServiceState : Effect(st, c) \in ServiceState
    PROVE  /\ Program(<<c>>)
           /\ \A o, old, w, k : Keeps(c, o, old, w, k) => AllKeep(<<c>>, o, old, w, k)
           /\ \A o, old, w, k : Reaches(c, o, old, w, k) => Achieves(<<c>>, o, old, w, k)
<1>1. <<c>> \in Seq({c}) /\ Len(<<c>>) = 1 /\ <<c>>[1] = c
    OBVIOUS
<1>2. (\A i \in 1..1 : i = 1) /\ 1 \in 1..1 /\ (\A j \in (1 + 1)..1 : FALSE)
    OBVIOUS
<1>3. Program(<<c>>)
    BY <1>1, <1>2 DEF Program
<1>4. ASSUME NEW o, NEW old, NEW w, NEW k, Keeps(c, o, old, w, k)
      PROVE  AllKeep(<<c>>, o, old, w, k)
    BY <1>1, <1>2, <1>4 DEF AllKeep
<1>5. ASSUME NEW o, NEW old, NEW w, NEW k, Reaches(c, o, old, w, k)
      PROVE  Achieves(<<c>>, o, old, w, k)
    <2>1. \A j \in (1 + 1)..Len(<<c>>) : FALSE
        BY <1>1, <1>2
    <2>q. QED
        BY <1>1, <1>2, <1>5, <2>1, Zenon DEF Achieves
<1>q. QED
    BY <1>3, <1>4, <1>5

\* One sequence and then another.
LEMMA Then ==
    ASSUME NEW p, NEW q, Program(p), Program(q)
    PROVE  /\ Program(p \o q)
           /\ \A o, old, w, k :
                /\ AllKeep(p, o, old, w, k) /\ AllKeep(q, o, old, w, k) => AllKeep(p \o q, o, old, w, k)
                /\ Achieves(p, o, old, w, k) /\ AllKeep(q, o, old, w, k) => Achieves(p \o q, o, old, w, k)
                /\ Achieves(q, o, old, w, k) => Achieves(p \o q, o, old, w, k)
<1>1. PICK S : p \in Seq(S)
    BY DEF Program
<1>2. PICK T : q \in Seq(T)
    BY DEF Program
<1>3. p \in Seq(S \cup T) /\ q \in Seq(S \cup T)
    BY <1>1, <1>2
<1> DEFINE r == p \o q
<1>4. r \in Seq(S \cup T) /\ Len(r) = Len(p) + Len(q) /\ Len(p) \in Nat /\ Len(q) \in Nat
    BY <1>3
<1>5. \A i \in 1..Len(p) : i \in 1..Len(r) /\ r[i] = p[i]
    BY <1>3, <1>4
<1>6. \A i \in 1..Len(q) : Len(p) + i \in 1..Len(r) /\ r[Len(p) + i] = q[i]
    BY <1>3, <1>4
<1>7. \A i \in 1..Len(r) : \/ i \in 1..Len(p) /\ r[i] = p[i]
                           \/ i - Len(p) \in 1..Len(q) /\ r[i] = q[i - Len(p)]
    BY <1>3, <1>4
<1> HIDE DEF r
<1>8. Program(r)
    BY <1>4, <1>7 DEF Program
<1>9. ASSUME NEW o, NEW old, NEW w, NEW k
      PROVE  /\ AllKeep(p, o, old, w, k) /\ AllKeep(q, o, old, w, k) => AllKeep(r, o, old, w, k)
             /\ Achieves(p, o, old, w, k) /\ AllKeep(q, o, old, w, k) => Achieves(r, o, old, w, k)
             /\ Achieves(q, o, old, w, k) => Achieves(r, o, old, w, k)
    <2>1. AllKeep(p, o, old, w, k) /\ AllKeep(q, o, old, w, k) => AllKeep(r, o, old, w, k)
        BY <1>7 DEF AllKeep
    <2>2. ASSUME Achieves(p, o, old, w, k), AllKeep(q, o, old, w, k) PROVE Achieves(r, o, old, w, k)
        <3>1. PICK i \in 1..Len(p) : /\ Reaches(p[i], o, old, w, k)
                                     /\ \A j \in (i + 1)..Len(p) : Keeps(p[j], o, old, w, k)
            BY <2>2 DEF Achieves
        <3>2. ASSUME NEW j \in (i + 1)..Len(r) PROVE Keeps(r[j], o, old, w, k)
            <4>1. j \in 1..Len(r)
                BY <1>4, <3>1, <3>2
            <4>2. CASE j \in 1..Len(p) /\ r[j] = p[j]
                BY <3>1, <3>2, <4>2
            <4>3. CASE j - Len(p) \in 1..Len(q) /\ r[j] = q[j - Len(p)]
                BY <2>2, <4>3 DEF AllKeep
            <4>q. QED
                BY <1>7, <4>1, <4>2, <4>3
        <3>q. QED
            BY <1>5, <3>1, <3>2 DEF Achieves
    <2>3. ASSUME Achieves(q, o, old, w, k) PROVE Achieves(r, o, old, w, k)
        <3>1. PICK i \in 1..Len(q) : /\ Reaches(q[i], o, old, w, k)
                                     /\ \A j \in (i + 1)..Len(q) : Keeps(q[j], o, old, w, k)
            BY <2>3 DEF Achieves
        <3>2. ASSUME NEW j \in ((Len(p) + i) + 1)..Len(r) PROVE Keeps(r[j], o, old, w, k)
            <4>1. /\ j \in 1..Len(r) /\ j \notin 1..Len(p)
                  /\ j - Len(p) \in (i + 1)..Len(q)
                BY <1>4, <3>1, <3>2
            <4>2. r[j] = q[j - Len(p)]
                BY <1>7, <4>1
            <4>q. QED
                BY <3>1, <4>1, <4>2
        <3>3. Len(p) + i \in 1..Len(r) /\ Reaches(r[Len(p) + i], o, old, w, k)
            BY <1>6, <3>1
        <3>q. QED
            BY <3>2, <3>3 DEF Achieves
    <2>q. QED
        BY <2>1, <2>2, <2>3
<1>q. QED
    BY <1>8, <1>9 DEF r

\* The first command of a sequence, and the rest.
LEMMA Rest ==
    ASSUME NEW p, Program(p), p # <<>>
    PROVE  /\ Program(Tail(p))
           /\ \A st \in ServiceState : Effect(st, Head(p)) \in ServiceState
           /\ \A o, old, w, k :
                /\ AllKeep(p, o, old, w, k) =>
                      Keeps(Head(p), o, old, w, k) /\ AllKeep(Tail(p), o, old, w, k)
                /\ Achieves(p, o, old, w, k) =>
                      \/ Achieves(Tail(p), o, old, w, k)
                      \/ Reaches(Head(p), o, old, w, k) /\ AllKeep(Tail(p), o, old, w, k)
<1>1. PICK S : p \in Seq(S)
    BY DEF Program
<1> DEFINE t == Tail(p)
<1>2. /\ t \in Seq(S) /\ Len(p) \in Nat \ {0} /\ Len(t) = Len(p) - 1 /\ Head(p) = p[1]
      /\ 1 \in 1..Len(p)
    BY <1>1
<1>3. \A i \in 1..Len(t) : i + 1 \in 1..Len(p) /\ t[i] = p[i + 1]
    BY <1>1, <1>2
<1> HIDE DEF t
<1>4. Program(t)
    BY <1>2, <1>3 DEF Program
<1>5. \A st \in ServiceState : Effect(st, Head(p)) \in ServiceState
    BY <1>2 DEF Program
<1>6. ASSUME NEW o, NEW old, NEW w, NEW k
      PROVE  /\ AllKeep(p, o, old, w, k) =>
                      Keeps(Head(p), o, old, w, k) /\ AllKeep(t, o, old, w, k)
             /\ Achieves(p, o, old, w, k) =>
                      \/ Achieves(t, o, old, w, k)
                      \/ Reaches(Head(p), o, old, w, k) /\ AllKeep(t, o, old, w, k)
    <2>1. AllKeep(p, o, old, w, k) => Keeps(Head(p), o, old, w, k) /\ AllKeep(t, o, old, w, k)
        BY <1>2, <1>3 DEF AllKeep
    <2>2. ASSUME Achieves(p, o, old, w, k)
          PROVE  \/ Achieves(t, o, old, w, k)
                 \/ Reaches(Head(p), o, old, w, k) /\ AllKeep(t, o, old, w, k)
        <3>1. PICK i \in 1..Len(p) : /\ Reaches(p[i], o, old, w, k)
                                     /\ \A j \in (i + 1)..Len(p) : Keeps(p[j], o, old, w, k)
            BY <2>2 DEF Achieves
        <3>2. CASE i = 1
            <4>1. \A j \in 1..Len(t) : j + 1 \in (i + 1)..Len(p)
                BY <1>2, <3>2
            <4>q. QED
                BY <1>2, <1>3, <3>1, <3>2, <4>1 DEF AllKeep
        <3>3. CASE i # 1
            <4>1. i - 1 \in 1..Len(t) /\ t[i - 1] = p[i]
                BY <1>2, <1>3, <3>1, <3>3
            <4>2. ASSUME NEW j \in ((i - 1) + 1)..Len(t) PROVE Keeps(t[j], o, old, w, k)
                <5>1. j \in 1..Len(t) /\ j + 1 \in (i + 1)..Len(p)
                    BY <1>2, <3>1, <3>3, <4>2
                <5>q. QED
                    BY <1>3, <3>1, <5>1
            <4>q. QED
                BY <3>1, <4>1, <4>2 DEF Achieves
        <3>q. QED
            BY <3>2, <3>3
    <2>q. QED
        BY <2>1, <2>2
<1>q. QED
    BY <1>4, <1>5, <1>6 DEF t

-----------------------------------------------------------------------------
(* The commands: how the state e after a command follows from the state st *)
(* before it.                                                              *)

AfterSet(st, e, k, v, a) ==
    /\ e.proxy[k].server = v /\ e.proxy[k].on = TRUE
    /\ a = "keep" => e.proxy[k].auth = st.proxy[k].auth
    /\ a = "on"   => e.proxy[k] = [server |-> v, on |-> TRUE, auth |-> TRUE]
    /\ a = "off"  => e.proxy[k] = [server |-> v, on |-> TRUE, auth |-> FALSE]
    /\ \A j \in Kind \ {k} : e.proxy[j] = st.proxy[j]
    /\ e.auto = st.auto /\ e.url = st.url /\ e.bypass = st.bypass

AfterState(st, e, k, on) ==
    /\ e.proxy[k].on = on
    /\ e.proxy[k].server = st.proxy[k].server /\ e.proxy[k].auth = st.proxy[k].auth
    /\ on = st.proxy[k].on => e.proxy[k] = st.proxy[k]
    /\ \A j \in Kind \ {k} : e.proxy[j] = st.proxy[j]
    /\ e.auto = st.auto /\ e.url = st.url /\ e.bypass = st.bypass

AfterAutoState(st, e, on) ==
    e.auto = on /\ e.proxy = st.proxy /\ e.url = st.url /\ e.bypass = st.bypass

AfterAutoUrl(st, e, url) ==
    e.auto = TRUE /\ e.url = url /\ e.proxy = st.proxy /\ e.bypass = st.bypass

AfterBypass(st, e, list) ==
    e.bypass = list /\ e.proxy = st.proxy /\ e.auto = st.auto /\ e.url = st.url

LEMMA SetEffect ==
    ASSUME NEW k \in Kind, NEW v \in Server \cup {None}, NEW a \in {"on", "off", "keep"},
           NEW m \in BOOLEAN
    PROVE  LET c == [Set(k, v, a) EXCEPT !.must = m]
           IN  /\ c.must = m
               /\ \A st \in ServiceState :
                     Effect(st, c) \in ServiceState /\ AfterSet(st, Effect(st, c), k, v, a)
<1> DEFINE c == [Set(k, v, a) EXCEPT !.must = m]
<1>1. c.must = m /\ c.do = "proxy" /\ c.kind = k /\ c.value = v /\ c.flag = a
    BY DEF Set, Command
<1> HIDE DEF c
<1>2. ASSUME NEW st \in ServiceState
      PROVE  Effect(st, c) \in ServiceState /\ AfterSet(st, Effect(st, c), k, v, a)
    <2> DEFINE e  == Effect(st, c)
               ps == [server |-> v, on |-> TRUE,
                      auth |-> IF a = "keep" THEN st.proxy[k].auth ELSE a = "on"]
    <2>1. st.proxy[k] \in ProxyState /\ ps \in ProxyState
        BY DEF ServiceState, ProxyState
    <2>2. e = [st EXCEPT !.proxy = [st.proxy EXCEPT ![k] = ps]]
        BY <1>1 DEF Effect
    <2>w. /\ ps.server = v /\ ps.on = TRUE
          /\ a = "keep" => ps.auth = st.proxy[k].auth
          /\ a = "on"   => ps = [server |-> v, on |-> TRUE, auth |-> TRUE]
          /\ a = "off"  => ps = [server |-> v, on |-> TRUE, auth |-> FALSE]
        OBVIOUS
    <2> HIDE DEF e, ps
    <2>3. [st.proxy EXCEPT ![k] = ps] \in [Kind -> ProxyState]
        BY <2>1 DEF ServiceState
    <2>4. e \in ServiceState
        BY <2>2, <2>3 DEF ServiceState
    <2>5. e.proxy = [st.proxy EXCEPT ![k] = ps]
        BY <2>2 DEF ServiceState
    <2>6. e.proxy[k] = ps /\ \A j \in Kind \ {k} : e.proxy[j] = st.proxy[j]
        BY <2>5 DEF ServiceState
    <2>7. e.auto = st.auto /\ e.url = st.url /\ e.bypass = st.bypass
        BY <2>2 DEF ServiceState
    <2>8. AfterSet(st, e, k, v, a)
        BY <2>w, <2>6, <2>7 DEF AfterSet
    <2>q. QED
        BY <2>4, <2>8 DEF e
<1>q. QED
    BY <1>1, <1>2 DEF c

LEMMA StateEffect ==
    ASSUME NEW k \in Kind, NEW on \in BOOLEAN
    PROVE  LET c == [State(k, on) EXCEPT !.must = TRUE]
           IN  /\ c.must
               /\ \A st \in ServiceState :
                     Effect(st, c) \in ServiceState /\ AfterState(st, Effect(st, c), k, on)
<1> DEFINE c == [State(k, on) EXCEPT !.must = TRUE]
<1>1. c.must /\ c.do = "state" /\ c.kind = k /\ c.flag = on
    BY DEF State, Command
<1> HIDE DEF c
<1>2. ASSUME NEW st \in ServiceState
      PROVE  Effect(st, c) \in ServiceState /\ AfterState(st, Effect(st, c), k, on)
    <2> DEFINE e  == Effect(st, c)
               ps == [st.proxy[k] EXCEPT !.on = on]
    <2>1. st.proxy[k] \in ProxyState /\ ps \in ProxyState
        BY DEF ServiceState, ProxyState
    <2>2. /\ ps.on = on /\ ps.server = st.proxy[k].server /\ ps.auth = st.proxy[k].auth
          /\ on = st.proxy[k].on => ps = st.proxy[k]
        BY <2>1 DEF ProxyState
    <2>3. e = [st EXCEPT !.proxy = [st.proxy EXCEPT ![k] = ps]]
        BY <1>1 DEF Effect
    <2> HIDE DEF e, ps
    <2>4. [st.proxy EXCEPT ![k] = ps] \in [Kind -> ProxyState]
        BY <2>1 DEF ServiceState
    <2>5. e \in ServiceState
        BY <2>3, <2>4 DEF ServiceState
    <2>6. e.proxy = [st.proxy EXCEPT ![k] = ps]
        BY <2>3 DEF ServiceState
    <2>7. e.proxy[k] = ps /\ \A j \in Kind \ {k} : e.proxy[j] = st.proxy[j]
        BY <2>6 DEF ServiceState
    <2>8. e.auto = st.auto /\ e.url = st.url /\ e.bypass = st.bypass
        BY <2>3 DEF ServiceState
    <2>9. AfterState(st, e, k, on)
        BY <2>2, <2>7, <2>8 DEF AfterState
    <2>q. QED
        BY <2>5, <2>9 DEF e
<1>q. QED
    BY <1>1, <1>2 DEF c

LEMMA AutoStateEffect ==
    ASSUME NEW on \in BOOLEAN
    PROVE  LET c == [AutoState(on) EXCEPT !.must = TRUE]
           IN  /\ c.must
               /\ \A st \in ServiceState :
                     Effect(st, c) \in ServiceState /\ AfterAutoState(st, Effect(st, c), on)
BY DEF AutoState, Command, Effect, ServiceState, ProxyState, AfterAutoState

LEMMA AutoUrlEffect ==
    ASSUME NEW url \in Pac
    PROVE  LET c == [AutoUrl(url) EXCEPT !.must = TRUE]
           IN  /\ c.must
               /\ \A st \in ServiceState :
                     Effect(st, c) \in ServiceState /\ AfterAutoUrl(st, Effect(st, c), url)
<1> DEFINE c == [AutoUrl(url) EXCEPT !.must = TRUE]
<1>1. c.must /\ c.do = "autoUrl" /\ c.value = url
    BY DEF AutoUrl, Command
<1> HIDE DEF c
<1>2. ASSUME NEW st \in ServiceState
      PROVE  Effect(st, c) \in ServiceState /\ AfterAutoUrl(st, Effect(st, c), url)
    <2>1. Effect(st, c) = [st EXCEPT !.url = url, !.auto = TRUE]
        BY <1>1 DEF Effect
    <2>q. QED
        BY <2>1 DEF ServiceState, AfterAutoUrl
<1>q. QED
    BY <1>1, <1>2 DEF c

LEMMA BypassEffect ==
    ASSUME NEW list \in Bypass \cup {None}
    PROVE  LET c == [BypassDomains(list) EXCEPT !.must = TRUE]
           IN  /\ c.must
               /\ \A st \in ServiceState :
                     Effect(st, c) \in ServiceState /\ AfterBypass(st, Effect(st, c), list)
BY DEF BypassDomains, Command, Effect, ServiceState, ProxyState, AfterBypass

\* What one command that counts does for a goal, from what it does to a state.
LEMMA RunSet ==
    ASSUME NEW k \in Kind, NEW v \in Server \cup {None}, NEW a \in {"on", "off", "keep"}
    PROVE  /\ Program(Run(Set(k, v, a)))
           /\ \A o, old, w, j :
                 /\ (\A st, e \in ServiceState : AfterSet(st, e, k, v, a) /\ Goal(o, old, st, w, j)
                        => Goal(o, old, e, w, j)) => AllKeep(Run(Set(k, v, a)), o, old, w, j)
                 /\ (\A st, e \in ServiceState : AfterSet(st, e, k, v, a) => Goal(o, old, e, w, j))
                        => Achieves(Run(Set(k, v, a)), o, old, w, j)
<1> DEFINE c == [Set(k, v, a) EXCEPT !.must = TRUE]
<1>1. /\ c.must
      /\ \A st \in ServiceState : Effect(st, c) \in ServiceState /\ AfterSet(st, Effect(st, c), k, v, a)
    BY SetEffect
<1>2. Run(Set(k, v, a)) = <<c>>
    BY DEF Run
<1> HIDE DEF c
<1>3. ASSUME NEW o, NEW old, NEW w, NEW j
      PROVE  /\ (\A st, e \in ServiceState : AfterSet(st, e, k, v, a) /\ Goal(o, old, st, w, j)
                    => Goal(o, old, e, w, j)) => Keeps(c, o, old, w, j)
             /\ (\A st, e \in ServiceState : AfterSet(st, e, k, v, a) => Goal(o, old, e, w, j))
                    => Reaches(c, o, old, w, j)
    BY <1>1, Zenon DEF Keeps, Reaches
<1>q. QED
    BY <1>1, <1>2, <1>3, Single

\* A command whose failure is ignored is never relied upon.
LEMMA TrySet ==
    ASSUME NEW k \in Kind, NEW v \in Server \cup {None}, NEW a \in {"on", "off", "keep"}
    PROVE  Program(Try(Set(k, v, a)))
BY SetEffect, Single DEF Try

LEMMA RunState ==
    ASSUME NEW k \in Kind, NEW on \in BOOLEAN
    PROVE  /\ Program(Run(State(k, on)))
           /\ \A o, old, w, j :
                 /\ (\A st, e \in ServiceState : AfterState(st, e, k, on) /\ Goal(o, old, st, w, j)
                        => Goal(o, old, e, w, j)) => AllKeep(Run(State(k, on)), o, old, w, j)
                 /\ (\A st, e \in ServiceState : AfterState(st, e, k, on) => Goal(o, old, e, w, j))
                        => Achieves(Run(State(k, on)), o, old, w, j)
<1> DEFINE c == [State(k, on) EXCEPT !.must = TRUE]
<1>1. /\ c.must
      /\ \A st \in ServiceState : Effect(st, c) \in ServiceState /\ AfterState(st, Effect(st, c), k, on)
    BY StateEffect
<1>2. Run(State(k, on)) = <<c>>
    BY DEF Run
<1> HIDE DEF c
<1>3. ASSUME NEW o, NEW old, NEW w, NEW j
      PROVE  /\ (\A st, e \in ServiceState : AfterState(st, e, k, on) /\ Goal(o, old, st, w, j)
                    => Goal(o, old, e, w, j)) => Keeps(c, o, old, w, j)
             /\ (\A st, e \in ServiceState : AfterState(st, e, k, on) => Goal(o, old, e, w, j))
                    => Reaches(c, o, old, w, j)
    BY <1>1, Zenon DEF Keeps, Reaches
<1>q. QED
    BY <1>1, <1>2, <1>3, Single

LEMMA RunAutoState ==
    ASSUME NEW on \in BOOLEAN
    PROVE  /\ Program(Run(AutoState(on)))
           /\ \A o, old, w, j :
                 /\ (\A st, e \in ServiceState : AfterAutoState(st, e, on) /\ Goal(o, old, st, w, j)
                        => Goal(o, old, e, w, j)) => AllKeep(Run(AutoState(on)), o, old, w, j)
                 /\ (\A st, e \in ServiceState : AfterAutoState(st, e, on) => Goal(o, old, e, w, j))
                        => Achieves(Run(AutoState(on)), o, old, w, j)
<1> DEFINE c == [AutoState(on) EXCEPT !.must = TRUE]
<1>1. /\ c.must
      /\ \A st \in ServiceState : Effect(st, c) \in ServiceState /\ AfterAutoState(st, Effect(st, c), on)
    BY AutoStateEffect
<1>2. Run(AutoState(on)) = <<c>>
    BY DEF Run
<1> HIDE DEF c
<1>3. ASSUME NEW o, NEW old, NEW w, NEW j
      PROVE  /\ (\A st, e \in ServiceState : AfterAutoState(st, e, on) /\ Goal(o, old, st, w, j)
                    => Goal(o, old, e, w, j)) => Keeps(c, o, old, w, j)
             /\ (\A st, e \in ServiceState : AfterAutoState(st, e, on) => Goal(o, old, e, w, j))
                    => Reaches(c, o, old, w, j)
    BY <1>1, Zenon DEF Keeps, Reaches
<1>q. QED
    BY <1>1, <1>2, <1>3, Single

LEMMA RunAutoUrl ==
    ASSUME NEW url \in Pac
    PROVE  /\ Program(Run(AutoUrl(url)))
           /\ \A o, old, w, j :
                 /\ (\A st, e \in ServiceState : AfterAutoUrl(st, e, url) /\ Goal(o, old, st, w, j)
                        => Goal(o, old, e, w, j)) => AllKeep(Run(AutoUrl(url)), o, old, w, j)
                 /\ (\A st, e \in ServiceState : AfterAutoUrl(st, e, url) => Goal(o, old, e, w, j))
                        => Achieves(Run(AutoUrl(url)), o, old, w, j)
<1> DEFINE c == [AutoUrl(url) EXCEPT !.must = TRUE]
<1>1. /\ c.must
      /\ \A st \in ServiceState : Effect(st, c) \in ServiceState /\ AfterAutoUrl(st, Effect(st, c), url)
    BY AutoUrlEffect
<1>2. Run(AutoUrl(url)) = <<c>>
    BY DEF Run
<1> HIDE DEF c
<1>3. ASSUME NEW o, NEW old, NEW w, NEW j
      PROVE  /\ (\A st, e \in ServiceState : AfterAutoUrl(st, e, url) /\ Goal(o, old, st, w, j)
                    => Goal(o, old, e, w, j)) => Keeps(c, o, old, w, j)
             /\ (\A st, e \in ServiceState : AfterAutoUrl(st, e, url) => Goal(o, old, e, w, j))
                    => Reaches(c, o, old, w, j)
    BY <1>1, Zenon DEF Keeps, Reaches
<1>q. QED
    BY <1>1, <1>2, <1>3, Single

LEMMA RunBypass ==
    ASSUME NEW list \in Bypass \cup {None}
    PROVE  /\ Program(Run(BypassDomains(list)))
           /\ \A o, old, w, j :
                 /\ (\A st, e \in ServiceState : AfterBypass(st, e, list) /\ Goal(o, old, st, w, j)
                        => Goal(o, old, e, w, j)) => AllKeep(Run(BypassDomains(list)), o, old, w, j)
                 /\ (\A st, e \in ServiceState : AfterBypass(st, e, list) => Goal(o, old, e, w, j))
                        => Achieves(Run(BypassDomains(list)), o, old, w, j)
<1> DEFINE c == [BypassDomains(list) EXCEPT !.must = TRUE]
<1>1. /\ c.must
      /\ \A st \in ServiceState : Effect(st, c) \in ServiceState /\ AfterBypass(st, Effect(st, c), list)
    BY BypassEffect
<1>2. Run(BypassDomains(list)) = <<c>>
    BY DEF Run
<1> HIDE DEF c
<1>3. ASSUME NEW o, NEW old, NEW w, NEW j
      PROVE  /\ (\A st, e \in ServiceState : AfterBypass(st, e, list) /\ Goal(o, old, st, w, j)
                    => Goal(o, old, e, w, j)) => Keeps(c, o, old, w, j)
             /\ (\A st, e \in ServiceState : AfterBypass(st, e, list) => Goal(o, old, e, w, j))
                    => Reaches(c, o, old, w, j)
    BY <1>1, Zenon DEF Keeps, Reaches
<1>q. QED
    BY <1>1, <1>2, <1>3, Single

-----------------------------------------------------------------------------
(* The operations.  w and k range over the goals: a goal that no command   *)
(* reaches is one that none of them spoils.                                *)

LEMMA SetReaches ==
    ASSUME NEW o \in [name : {"set"}, arg : Proxies], NEW old, NEW w \in Aspect, NEW k \in Kind
    PROVE  /\ Program(SetGlobal(o.arg))
           /\ \A st : OnTrack(SetGlobal(o.arg), o, old, st, w, k)
<1> DEFINE p       == o.arg
           A(q)    == AllKeep(q, o, old, w, k)
           R(q)    == Achieves(q, o, old, w, k)
           flag    == IF p.user THEN "on" ELSE "off"
           Use(j)  == Run(Set(j, p.server, flag)) \o Run(State(j, TRUE))
           Drop(j) == Run(State(j, FALSE))
           first   == Run(AutoState(FALSE))
<1>1. /\ p \in Proxy /\ p.server \in Server /\ p.user \in BOOLEAN /\ p.socks \in BOOLEAN
      /\ flag \in {"on", "off", "keep"} /\ (flag = "on" <=> p.user) /\ flag # "keep"
    BY DarwinAssumption DEF Proxy
<1>2. \A st : Goal(o, old, st, w, k) <=> SetGoal(p, st, w, k)
    BY DEF Goal
<1> HIDE DEF p, flag
<1>3. Program(first) /\ A(first) /\ (w = "auto" => R(first))
    <2>1. /\ \A st, e : AfterAutoState(st, e, FALSE) /\ SetGoal(p, st, w, k) => SetGoal(p, e, w, k)
          /\ w = "auto" => \A st, e : AfterAutoState(st, e, FALSE) => SetGoal(p, e, w, k)
        BY DEF AfterAutoState, SetGoal
    <2>q. QED
        BY <1>2, <2>1, RunAutoState
<1>4. ASSUME NEW j \in Kind, (j = "socks") = p.socks
      PROVE  Program(Use(j)) /\ A(Use(j)) /\ (w = "proxy" /\ k = j => R(Use(j)))
    <2> DEFINE s == Run(Set(j, p.server, flag))
               n == Run(State(j, TRUE))
    <2>1. Program(s) /\ A(s) /\ (w = "proxy" /\ k = j => R(s))
        <3>1. /\ \A st, e : AfterSet(st, e, j, p.server, flag) /\ SetGoal(p, st, w, k) => SetGoal(p, e, w, k)
              /\ w = "proxy" /\ k = j =>
                    \A st, e : AfterSet(st, e, j, p.server, flag) => SetGoal(p, e, w, k)
            BY <1>1, <1>4 DEF AfterSet, SetGoal
        <3>q. QED
            BY <1>1, <1>2, <3>1, RunSet
    <2>2. Program(n) /\ A(n)
        <3>1. \A st, e : AfterState(st, e, j, TRUE) /\ SetGoal(p, st, w, k) => SetGoal(p, e, w, k)
            BY <1>1, <1>4 DEF AfterState, SetGoal
        <3>q. QED
            BY <1>2, <3>1, RunState
    <2> HIDE DEF s, n
    <2>3. Program(s \o n) /\ A(s \o n) /\ (w = "proxy" /\ k = j => R(s \o n))
        BY <2>1, <2>2, Then
    <2>q. QED
        BY <2>3 DEF s, n
<1>5. ASSUME NEW j \in Kind, (j = "socks") # p.socks
      PROVE  Program(Drop(j)) /\ A(Drop(j)) /\ (w = "proxy" /\ k = j => R(Drop(j)))
    <2>1. /\ \A st, e : AfterState(st, e, j, FALSE) /\ SetGoal(p, st, w, k) => SetGoal(p, e, w, k)
          /\ w = "proxy" /\ k = j => \A st, e : AfterState(st, e, j, FALSE) => SetGoal(p, e, w, k)
        BY <1>1, <1>5 DEF AfterState, SetGoal
    <2>q. QED
        BY <1>2, <2>1, RunState
<1>6. "web" \in Kind /\ "secureWeb" \in Kind /\ "socks" \in Kind
    BY DEF Kind
<1> HIDE DEF Use, Drop, first
<1>7. CASE p.socks
    <2> DEFINE q == first \o (Use("socks") \o Drop("web") \o Drop("secureWeb"))
    <2>1. Program(q) /\ A(q) /\ (w \in {"auto", "proxy"} => R(q))
        BY <1>1, <1>3, <1>4, <1>5, <1>6, <1>7, Then DEF Kind
    <2>2. q = SetGlobal(p)
        BY <1>7 DEF SetGlobal, first, Use, Drop, flag
    <2>q. QED
        BY <1>2, <2>1, <2>2 DEF OnTrack, SetGoal, p
<1>8. CASE ~p.socks
    <2> DEFINE q == first \o (Use("web") \o Use("secureWeb") \o Drop("socks"))
    <2>1. Program(q) /\ A(q) /\ (w \in {"auto", "proxy"} => R(q))
        BY <1>1, <1>3, <1>4, <1>5, <1>6, <1>8, Then DEF Kind
    <2>2. q = SetGlobal(p)
        BY <1>8 DEF SetGlobal, first, Use, Drop, flag
    <2>q. QED
        BY <1>2, <2>1, <2>2 DEF OnTrack, SetGoal, p
<1>q. QED
    BY <1>7, <1>8

\* AllOff, for a goal that holds of any state in which kind k is off, and that
\* switching off a proxy does not spoil.
LEMMA AllOffReaches ==
    ASSUME NEW o, NEW old, NEW w, NEW k,
           \A j \in Kind : \A st, e \in ServiceState :
                AfterState(st, e, j, FALSE) /\ Goal(o, old, st, w, k) => Goal(o, old, e, w, k)
    PROVE  /\ Program(AllOff) /\ AllKeep(AllOff, o, old, w, k)
           /\ (\E j \in Kind : \A st, e \in ServiceState :
                    AfterState(st, e, j, FALSE) => Goal(o, old, e, w, k))
                => Achieves(AllOff, o, old, w, k)
<1> DEFINE A(q)   == AllKeep(q, o, old, w, k)
           R(q)   == Achieves(q, o, old, w, k)
           Off(j) == Run(State(j, FALSE))
<1>1. ASSUME NEW j \in Kind
      PROVE  /\ Program(Off(j)) /\ A(Off(j))
             /\ (\A st, e \in ServiceState : AfterState(st, e, j, FALSE) => Goal(o, old, e, w, k))
                    => R(Off(j))
    BY RunState
<1> HIDE DEF Off
<1> DEFINE q == Off("web") \o Off("secureWeb") \o Off("socks")
<1>2. Program(q) /\ A(q) /\ \A j \in Kind : R(Off(j)) => R(q)
    BY <1>1, Then DEF Kind
<1>3. q = AllOff
    BY DEF AllOff, Off
<1>q. QED
    BY <1>1, <1>2, <1>3

\* The servers are emptied before the states go off, so it does not matter
\* that this switches them on.
LEMMA UnsetReaches ==
    ASSUME NEW o \in [name : {"unset"}], NEW old, NEW w \in Aspect, NEW k \in Kind
    PROVE  /\ Program(UnsetGlobal)
           /\ \A st : OnTrack(UnsetGlobal, o, old, st, w, k)
<1> DEFINE A(q)     == AllKeep(q, o, old, w, k)
           R(q)     == Achieves(q, o, old, w, k)
           Empty(j) == Try(Set(j, None, "keep"))
           auto     == Run(AutoState(FALSE))
<1>1. \A st : Goal(o, old, st, w, k) <=> UnsetGoal(st, w, k)
    BY DEF Goal
<1>2. \A j \in Kind : Program(Empty(j))
    BY TrySet
<1>3. Program(auto) /\ A(auto) /\ (w = "auto" => R(auto))
    <2>1. /\ \A st, e : AfterAutoState(st, e, FALSE) /\ UnsetGoal(st, w, k) => UnsetGoal(e, w, k)
          /\ w = "auto" => \A st, e : AfterAutoState(st, e, FALSE) => UnsetGoal(e, w, k)
        BY DEF AfterAutoState, UnsetGoal
    <2>q. QED
        BY <1>1, <2>1, RunAutoState
<1>4. Program(AllOff) /\ A(AllOff) /\ (w = "proxy" => R(AllOff))
    <2>1. \A j \in Kind : \A st, e :
             AfterState(st, e, j, FALSE) /\ UnsetGoal(st, w, k) => UnsetGoal(e, w, k)
        BY DEF AfterState, UnsetGoal
    <2>2. w = "proxy" => \A st, e : AfterState(st, e, k, FALSE) => UnsetGoal(e, w, k)
        BY DEF AfterState, UnsetGoal
    <2>q. QED
        BY <1>1, <2>1, <2>2, AllOffReaches
<1> HIDE DEF Empty, auto
<1> DEFINE h == Empty("web") \o Empty("secureWeb") \o Empty("socks")
           q == h \o auto \o AllOff
<1>5. Program(h)
    BY <1>2, Then DEF Kind
<1>6. q = UnsetGlobal
    BY DEF UnsetGlobal, Empty, auto
<1> HIDE DEF h
<1>7. Program(q) /\ (w \in {"auto", "proxy"} => R(q))
    BY <1>3, <1>4, <1>5, Then
<1>8. w \notin {"auto", "proxy"} => A(q) /\ \A st : Goal(o, old, st, w, k)
    <2>1. w \notin {"auto", "proxy"} => \A st : Goal(o, old, st, w, k)
        BY <1>1 DEF UnsetGoal
    <2>q. QED
        BY <2>1 DEF AllKeep, Keeps
<1>q. QED
    BY <1>6, <1>7, <1>8 DEF OnTrack

LEMMA PacReaches ==
    ASSUME NEW o \in [name : {"pac"}, arg : Pac], NEW old, NEW w \in Aspect, NEW k \in Kind
    PROVE  /\ Program(SetGlobalPAC(o.arg))
           /\ \A st : OnTrack(SetGlobalPAC(o.arg), o, old, st, w, k)
<1> DEFINE u    == o.arg
           A(q) == AllKeep(q, o, old, w, k)
           R(q) == Achieves(q, o, old, w, k)
           url  == Run(AutoUrl(u))
           auto == Run(AutoState(TRUE))
<1>1. u \in Pac /\ \A st : Goal(o, old, st, w, k) <=> PacGoal(u, st, w, k)
    BY DEF Goal
<1> HIDE DEF u
<1>2. Program(auto) /\ A(auto) /\ (w = "auto" => R(auto))
    <2>1. /\ \A st, e : AfterAutoState(st, e, TRUE) /\ PacGoal(u, st, w, k) => PacGoal(u, e, w, k)
          /\ w = "auto" => \A st, e : AfterAutoState(st, e, TRUE) => PacGoal(u, e, w, k)
        BY DEF AfterAutoState, PacGoal
    <2>q. QED
        BY <1>1, <2>1, RunAutoState
<1>3. Program(url) /\ A(url) /\ (w = "url" => R(url))
    <2>1. /\ \A st, e : AfterAutoUrl(st, e, u) /\ PacGoal(u, st, w, k) => PacGoal(u, e, w, k)
          /\ w = "url" => \A st, e : AfterAutoUrl(st, e, u) => PacGoal(u, e, w, k)
        BY DEF AfterAutoUrl, PacGoal
    <2>q. QED
        BY <1>1, <2>1, RunAutoUrl
<1>4. Program(AllOff) /\ A(AllOff) /\ (w = "proxy" => R(AllOff))
    <2>1. \A j \in Kind : \A st, e :
             AfterState(st, e, j, FALSE) /\ PacGoal(u, st, w, k) => PacGoal(u, e, w, k)
        BY DEF AfterState, PacGoal
    <2>2. w = "proxy" => \A st, e : AfterState(st, e, k, FALSE) => PacGoal(u, e, w, k)
        BY DEF AfterState, PacGoal
    <2>q. QED
        BY <1>1, <2>1, <2>2, AllOffReaches
<1> HIDE DEF url, auto
<1> DEFINE q == AllOff \o url \o auto
<1>5. Program(q) /\ A(q) /\ (w \in {"auto", "proxy", "url"} => R(q))
    BY <1>2, <1>3, <1>4, Then
<1>6. q = SetGlobalPAC(u)
    BY DEF SetGlobalPAC, url, auto
<1>q. QED
    BY <1>1, <1>5, <1>6 DEF OnTrack, PacGoal, u

\* A kind that the configuration does not name is as it was, and no command
\* touches it.
LEMMA MultiReaches ==
    ASSUME NEW o \in [name : {"multi"}, arg : Configs], NEW old, NEW w \in Aspect, NEW k \in Kind
    PROVE  /\ Program(SetGlobalMulti(o.arg))
           /\ OnTrack(SetGlobalMulti(o.arg), o, old, old, w, k)
<1> DEFINE cfg  == o.arg
           A(q) == AllKeep(q, o, old, w, k)
           R(q) == Achieves(q, o, old, w, k)
           Use(j) == IF cfg[j] = None THEN <<>>
                     ELSE Run(Set(j, cfg[j], "keep")) \o Run(State(j, TRUE))
           auto == Run(AutoState(FALSE))
           list == IF cfg["bypass"] = None THEN <<>> ELSE Run(BypassDomains(cfg["bypass"]))
<1>1. /\ \A st : Goal(o, old, st, w, k) <=> MultiGoal(cfg, st, old, w, k)
      /\ \A j \in Kind : cfg[j] \in Server \cup {None}
      /\ cfg["bypass"] \in Bypass \cup {None}
    BY DarwinAssumption DEF Goal
<1> HIDE DEF cfg
<1>2. Program(auto) /\ A(auto) /\ (w = "auto" => R(auto))
    <2>1. /\ \A st, e : AfterAutoState(st, e, FALSE) /\ MultiGoal(cfg, st, old, w, k)
                => MultiGoal(cfg, e, old, w, k)
          /\ w = "auto" => \A st, e : AfterAutoState(st, e, FALSE) => MultiGoal(cfg, e, old, w, k)
        BY DEF AfterAutoState, MultiGoal
    <2>q. QED
        BY <1>1, <2>1, RunAutoState
<1>3. /\ Program(list) /\ A(list)
      /\ w = "bypass" => R(list) \/ cfg["bypass"] = None
    <2>1. CASE cfg["bypass"] = None
        BY <2>1, Nothing
    <2>2. CASE cfg["bypass"] # None
        <3>1. /\ \A st, e : AfterBypass(st, e, cfg["bypass"]) /\ MultiGoal(cfg, st, old, w, k)
                    => MultiGoal(cfg, e, old, w, k)
              /\ w = "bypass" =>
                    \A st, e : AfterBypass(st, e, cfg["bypass"]) => MultiGoal(cfg, e, old, w, k)
            BY <2>2 DEF AfterBypass, MultiGoal
        <3>q. QED
            BY <1>1, <2>2, <3>1, RunBypass
    <2>q. QED
        BY <2>1, <2>2
<1>4. ASSUME NEW j \in Kind
      PROVE  /\ Program(Use(j)) /\ A(Use(j))
             /\ w = "proxy" /\ k = j => R(Use(j)) \/ cfg[j] = None
    <2>1. CASE cfg[j] = None
        BY <2>1, Nothing
    <2>2. CASE cfg[j] # None
        <3> DEFINE s == Run(Set(j, cfg[j], "keep"))
                   n == Run(State(j, TRUE))
        <3>1. Program(s) /\ A(s) /\ (w = "proxy" /\ k = j => R(s))
            <4>1. /\ \A st, e : AfterSet(st, e, j, cfg[j], "keep") /\ MultiGoal(cfg, st, old, w, k)
                        => MultiGoal(cfg, e, old, w, k)
                  /\ w = "proxy" /\ k = j => \A st, e : AfterSet(st, e, j, cfg[j], "keep")
                        => MultiGoal(cfg, e, old, w, k)
                BY <2>2 DEF AfterSet, MultiGoal
            <4>q. QED
                BY <1>1, <4>1, RunSet
        <3>2. Program(n) /\ A(n)
            <4>1. \A st, e : AfterState(st, e, j, TRUE) /\ MultiGoal(cfg, st, old, w, k)
                        => MultiGoal(cfg, e, old, w, k)
                BY <2>2 DEF AfterState, MultiGoal
            <4>q. QED
                BY <1>1, <4>1, RunState
        <3> HIDE DEF s, n
        <3>3. Program(s \o n) /\ A(s \o n) /\ (w = "proxy" /\ k = j => R(s \o n))
            BY <3>1, <3>2, Then
        <3>q. QED
            BY <2>2, <3>3 DEF s, n
    <2>q. QED
        BY <2>1, <2>2
<1> HIDE DEF Use, auto, list
<1> DEFINE q == auto \o Use("web") \o Use("secureWeb") \o Use("socks") \o list
<1>5. /\ Program(q) /\ A(q)
      /\ w = "auto" => R(q)
      /\ w = "proxy" => R(q) \/ cfg[k] = None
      /\ w = "bypass" => R(q) \/ cfg["bypass"] = None
    BY <1>2, <1>3, <1>4, Then DEF Kind
<1>6. q = SetGlobalMulti(cfg)
    BY DEF SetGlobalMulti, auto, Use, list
<1>q. QED
    BY <1>1, <1>5, <1>6 DEF OnTrack, MultiGoal, cfg

\* Writing a server back switches its proxy on, so its state comes after it;
\* the PAC URL switches auto-proxy on, whose state comes later still.
LEMMA RestoreReaches ==
    ASSUME NEW o, o.name = "restore", NEW old \in ServiceState, NEW w \in Aspect, NEW k \in Kind
    PROVE  /\ Program(RestoreServiceState(old))
           /\ \A st : OnTrack(RestoreServiceState(old), o, old, st, w, k)
<1> DEFINE A(q)    == AllKeep(q, o, old, w, k)
           R(q)    == Achieves(q, o, old, w, k)
           v(j)    == old.proxy[j].server
           on(j)   == old.proxy[j].on
           flag(j) == IF v(j) = None \/ old.proxy[j].auth THEN "keep" ELSE "off"
           Back(j) == Run(Set(j, v(j), flag(j))) \o Run(State(j, on(j)))
           url     == IF old.url = None THEN <<>> ELSE Run(AutoUrl(old.url))
           now     == old.auto /\ old.url # None
           auto    == Run(AutoState(now))
           list    == Run(BypassDomains(old.bypass))
<1>1. /\ \A j \in Kind : v(j) \in Server \cup {None} /\ on(j) \in BOOLEAN
      /\ old.url \in Pac \cup {None} /\ old.bypass \in Bypass \cup {None} /\ now \in BOOLEAN
    BY DEF ServiceState, ProxyState
<1>2. \A st : Goal(o, old, st, w, k) <=> RestoreGoal(st, old, w, k)
    BY DEF Goal
<1>3. ASSUME NEW j \in Kind
      PROVE  /\ Program(Back(j))
             /\ ~(w = "on" /\ k = j) => A(Back(j))
             /\ w \in {"proxy", "on"} /\ k = j => R(Back(j))
    <2> DEFINE s == Run(Set(j, v(j), flag(j)))
               n == Run(State(j, on(j)))
    <2>1. /\ Program(s)
          /\ ~(w = "on" /\ k = j) => A(s)
          /\ w = "proxy" /\ k = j => R(s)
        <3>1. /\ ~(w = "on" /\ k = j) =>
                    \A st, e : AfterSet(st, e, j, v(j), flag(j)) /\ RestoreGoal(st, old, w, k)
                        => RestoreGoal(e, old, w, k)
              /\ w = "proxy" /\ k = j =>
                    \A st, e : AfterSet(st, e, j, v(j), flag(j)) => RestoreGoal(e, old, w, k)
            <4>1. ASSUME NEW st, NEW e, AfterSet(st, e, j, v(j), flag(j)), w = "proxy", k = j
                  PROVE  RestoreGoal(e, old, w, k)
                <5>1. e.proxy[k].server = v(k)
                    BY <4>1 DEF AfterSet
                <5>2. ASSUME v(k) # None, ~old.proxy[k].auth PROVE ~e.proxy[k].auth
                    <6>1. flag(j) = "off"
                        BY <4>1, <5>2
                    <6> HIDE DEF flag
                    <6>2. e.proxy[k].auth = FALSE
                        BY <4>1, <6>1 DEF AfterSet
                    <6>q. QED
                        BY <6>2
                <5>q. QED
                    BY <4>1, <5>1, <5>2 DEF RestoreGoal
            <4>2. ASSUME NEW st, NEW e, AfterSet(st, e, j, v(j), flag(j)), RestoreGoal(st, old, w, k),
                         ~(w = "on" /\ k = j), ~(w = "proxy" /\ k = j)
                  PROVE  RestoreGoal(e, old, w, k)
                BY <4>2 DEF AfterSet, RestoreGoal
            <4>q. QED
                BY <4>1, <4>2
        <3>2. flag(j) \in {"on", "off", "keep"}
            OBVIOUS
        <3> HIDE DEF v, flag
        <3>q. QED
            BY <1>1, <1>2, <3>1, <3>2, RunSet
    <2>2. /\ Program(n) /\ A(n)
          /\ w = "on" /\ k = j => R(n)
        <3>1. /\ \A st, e : AfterState(st, e, j, on(j)) /\ RestoreGoal(st, old, w, k)
                    => RestoreGoal(e, old, w, k)
              /\ w = "on" /\ k = j =>
                    \A st, e : AfterState(st, e, j, on(j)) => RestoreGoal(e, old, w, k)
            BY DEF AfterState, RestoreGoal
        <3> HIDE DEF on
        <3>q. QED
            BY <1>1, <1>2, <3>1, RunState
    <2> HIDE DEF s, n
    <2>3. /\ Program(s \o n)
          /\ ~(w = "on" /\ k = j) => A(s \o n)
          /\ w \in {"proxy", "on"} /\ k = j => R(s \o n)
        BY <2>1, <2>2, Then
    <2>q. QED
        BY <2>3 DEF s, n
<1>4. /\ Program(url)
      /\ w # "auto" => A(url)
      /\ w = "url" => R(url) \/ old.url = None
    <2>1. CASE old.url = None
        BY <2>1, Nothing
    <2>2. CASE old.url # None
        <3>1. /\ w # "auto" => \A st, e : AfterAutoUrl(st, e, old.url) /\ RestoreGoal(st, old, w, k)
                    => RestoreGoal(e, old, w, k)
              /\ w = "url" => \A st, e : AfterAutoUrl(st, e, old.url) => RestoreGoal(e, old, w, k)
            BY DEF AfterAutoUrl, RestoreGoal
        <3>q. QED
            BY <1>1, <1>2, <2>2, <3>1, RunAutoUrl
    <2>q. QED
        BY <2>1, <2>2
<1>5. Program(auto) /\ A(auto) /\ (w = "auto" => R(auto))
    <2>1. /\ \A st, e : AfterAutoState(st, e, now) /\ RestoreGoal(st, old, w, k)
                => RestoreGoal(e, old, w, k)
          /\ w = "auto" => \A st, e : AfterAutoState(st, e, now) => RestoreGoal(e, old, w, k)
        BY DEF AfterAutoState, RestoreGoal, ServiceState
    <2> HIDE DEF now
    <2>q. QED
        BY <1>1, <1>2, <2>1, RunAutoState
<1>6. Program(list) /\ A(list) /\ (w = "bypass" => R(list))
    <2>1. /\ \A st, e : AfterBypass(st, e, old.bypass) /\ RestoreGoal(st, old, w, k)
                => RestoreGoal(e, old, w, k)
          /\ w = "bypass" => \A st, e : AfterBypass(st, e, old.bypass) => RestoreGoal(e, old, w, k)
        BY DEF AfterBypass, RestoreGoal
    <2>q. QED
        BY <1>1, <1>2, <2>1, RunBypass
<1> HIDE DEF Back, url, auto, list
<1> DEFINE h == Back("web") \o Back("secureWeb") \o Back("socks")
           q == h \o url \o auto \o list
<1>7. /\ Program(h)
      /\ w # "on" => A(h)
      /\ w \in {"proxy", "on"} => R(h)
    BY <1>3, Then DEF Kind
<1> HIDE DEF h
<1>8. /\ Program(q)
      /\ w \in {"proxy", "on", "auto", "bypass"} => R(q)
      /\ w = "url" => A(q) /\ (R(q) \/ old.url = None)
    BY <1>4, <1>5, <1>6, <1>7, Then
<1>9. q = RestoreServiceState(old)
    BY DEF RestoreServiceState, h, Back, url, auto, list
<1>q. QED
    BY <1>2, <1>8, <1>9 DEF OnTrack, RestoreGoal, Aspect

-----------------------------------------------------------------------------
(* The inductive invariant.                                                *)

\* The state a goal speaks of: what a restore puts back, or what was there.
Old(s) == IF op.name = "restore" THEN snap.of[s] ELSE pre[s]

\* The commands that service s still gets before its turn is over.
Left(s) == IF s = current THEN prog ELSE <<>>

OpInv ==
    /\ op \in Operations \cup {[name |-> "none"], [name |-> "snapshot"], [name |-> "restore"]}
    /\ running => op.name \notin {"none", "snapshot"}
    /\ op.name = "restore" => served = DOMAIN snap.of
    /\ \E S \in SUBSET Service : snap \in [open : BOOLEAN, of : [S -> ServiceState]]

\* Only services that had their turn have changed, and only those that the
\* operation has to change.
LeftInv ==
    /\ Program(prog)
    /\ prog # <<>> => running /\ current \in served \ todo
    /\ ~running => todo = {}
    /\ prog # <<>> /\ op.name = "restore" => pre[current] # snap.of[current] \/ current \in unread
    /\ running => \A s \in Service \ (served \ todo) : net[s] = pre[s]

\* Every goal of a service that had its turn is reached, or will be.
GoalInv ==
    /\ running /\ errs = Nil =>
          \A s \in served \ todo : \A w \in Aspect : \A k \in Kind :
              OnTrack(Left(s), op, Old(s), net[s], w, k)
    /\ ~running /\ result = Nil =>
          \A s \in served : \A w \in Aspect : \A k \in Kind : Goal(op, Old(s), net[s], w, k)

Inv == TypeOK /\ OpInv /\ LeftInv /\ GoalInv

LEMMA NothingLeft ==
    ASSUME NEW o, NEW old, NEW st, NEW w, NEW k
    PROVE  OnTrack(<<>>, o, old, st, w, k) <=> Goal(o, old, st, w, k)
BY Nothing DEF OnTrack

\* The commands for a service lead to the goals.
LEMMA CommandsReach ==
    ASSUME TypeOK, OpInv, running, NEW s \in served, net[s] = pre[s]
    PROVE  /\ Program(Commands(s))
           /\ \A w \in Aspect : \A k \in Kind : OnTrack(Commands(s), op, Old(s), net[s], w, k)
           /\ op.name = "restore" /\ Commands(s) # <<>> => pre[s] # snap.of[s]
<1>0. \/ op \in [name : {"set"}, arg : Proxies] /\ op.name = "set"
      \/ op \in [name : {"unset"}] /\ op.name = "unset"
      \/ op \in [name : {"pac"}, arg : Pac] /\ op.name = "pac"
      \/ op \in [name : {"multi"}, arg : Configs] /\ op.name = "multi"
      \/ op = [name |-> "restore"] /\ op.name = "restore"
    BY DEF OpInv, Operations
<1>x. (\E w \in Aspect : TRUE) /\ (\E k \in Kind : TRUE)
    BY DEF Aspect, Kind
<1>1. CASE op \in [name : {"set"}, arg : Proxies] /\ op.name = "set"
    BY <1>1, <1>x, SetReaches DEF Commands
<1>2. CASE op \in [name : {"unset"}] /\ op.name = "unset"
    BY <1>2, <1>x, UnsetReaches DEF Commands
<1>3. CASE op \in [name : {"pac"}, arg : Pac] /\ op.name = "pac"
    BY <1>3, <1>x, PacReaches DEF Commands
<1>4. CASE op \in [name : {"multi"}, arg : Configs] /\ op.name = "multi"
    BY <1>4, <1>x, MultiReaches DEF Commands, Old
<1>5. CASE op = [name |-> "restore"] /\ op.name = "restore"
    <2>1. Old(s) = snap.of[s] /\ snap.of[s] \in ServiceState
        BY <1>5 DEF Old, OpInv
    <2>2. CASE net[s] = snap.of[s]
        <3>1. Commands(s) = <<>>
            BY <1>5, <2>2 DEF Commands
        <3>2. \A w \in Aspect : \A k \in Kind : Goal(op, Old(s), net[s], w, k)
            BY <1>5, <2>1, <2>2 DEF Goal, RestoreGoal
        <3>q. QED
            BY <3>1, <3>2, Nothing, NothingLeft
    <2>3. CASE net[s] # snap.of[s]
        <3>1. Commands(s) = RestoreServiceState(snap.of[s])
            BY <1>5, <2>3 DEF Commands
        <3>q. QED
            BY <1>5, <1>x, <2>1, <2>3, <3>1, RestoreReaches
    <2>q. QED
        BY <2>2, <2>3
<1>q. QED
    BY <1>0, <1>1, <1>2, <1>3, <1>4, <1>5

LEMMA InitInv == Init => Inv
<1> SUFFICES ASSUME Init PROVE Inv
    OBVIOUS
<1>1. TypeOK
    <2>1. net \in [Service -> ServiceState] /\ pre \in [Service -> ServiceState]
        BY DarwinAssumption DEF Init
    <2>2. disabled \subseteq Service
        BY DarwinAssumption DEF Init
    <2>3. snap.open \in BOOLEAN /\ DOMAIN snap.of \subseteq Service
        BY DEF Init, NoSnap
    <2>4. ops \in 0..MaxOps /\ faults \in 0..MaxFaults /\ toggles \in 0..MaxToggles
        BY DarwinAssumption DEF Init
    <2>q. QED
        BY <2>1, <2>2, <2>3, <2>4 DEF Init, TypeOK
<1>2. OpInv
    <2>1. snap \in [open : BOOLEAN, of : [{} -> ServiceState]]
        BY DEF Init, NoSnap
    <2>q. QED
        BY <2>1 DEF Init, OpInv
<1>3. LeftInv
    BY Nothing DEF Init, LeftInv
<1>4. GoalInv
    BY DEF Init, GoalInv
<1>q. QED
    BY <1>1, <1>2, <1>3, <1>4 DEF Inv

\* Nil is no failure.
LEMMA HardIsNotNil == Hard # Nil
BY DEF Hard, Nil

LEMMA BeginningKeeps ==
    ASSUME Inv, NEW o \in Operations, Start(o) \/ StartFails(o) PROVE Inv'
<1> USE DEF system, bounds, Fault
<1>1. TypeOK'
    <2>1. snap'.open \in BOOLEAN /\ DOMAIN snap'.of \subseteq Service /\ unread' = {}
        <3>1. NoSnap.open = FALSE /\ DOMAIN NoSnap.of = {}
            BY DEF NoSnap
        <3>2. (snap' = snap \/ snap' = NoSnap) /\ unread' = {}
            BY DEF Start, StartFails, Forget
        <3>q. QED
            BY <3>1, <3>2 DEF Inv, TypeOK
    <2>2. ops' \in 0..MaxOps /\ faults' \in 0..MaxFaults
        BY DarwinAssumption DEF Inv, TypeOK, Start, StartFails
    <2>3. ~running /\ todo = {}
        BY DEF Inv, LeftInv, Start, StartFails
    <2>4. CASE Start(o)
        BY <2>1, <2>2, <2>4 DEF Inv, TypeOK, Start, Services
    <2>5. CASE StartFails(o)
        BY <2>1, <2>2, <2>3, <2>5 DEF Inv, TypeOK, StartFails
    <2>q. QED
        BY <2>4, <2>5
<1>2. o.name \notin {"none", "snapshot", "restore"}
    BY DEF Operations
<1>3. OpInv'
    <2>1. (\E S \in SUBSET Service : snap \in [open : BOOLEAN, of : [S -> ServiceState]])'
        <3>1. NoSnap \in [open : BOOLEAN, of : [{} -> ServiceState]]
            BY DEF NoSnap
        <3>q. QED
            BY <3>1 DEF Inv, OpInv, Start, StartFails, Forget
    <2>2. op' = o
        BY DEF Start, StartFails
    <2>3. running' => op' = o
        BY <2>2
    <2>q. QED
        BY <1>2, <2>1, <2>2 DEF OpInv
<1>4. ~running /\ prog = <<>>
    BY DEF Inv, LeftInv, Start, StartFails
<1>5. LeftInv'
    BY <1>4 DEF Inv, LeftInv, Start, StartFails
<1>6. GoalInv'
    BY <1>4, HardIsNotNil DEF GoalInv, Start, StartFails
<1>q. QED
    BY <1>1, <1>3, <1>5, <1>6 DEF Inv

LEMMA TurnKeeps ==
    ASSUME Inv, NEW s \in Service, NextService(s) \/ NowUnreadable(s) PROVE Inv'
<1> USE DEF system, bounds, Fault
<1>0. /\ running /\ prog = <<>> /\ s \in todo /\ s \in served /\ current' = s
      /\ todo' = todo \ {s} /\ UNCHANGED <<net, op, running, served, errs, result, pre, snap>>
    BY DEF NextService, NowUnreadable, IsNext, Inv, TypeOK
<1>1. TypeOK'
    BY DarwinAssumption DEF Inv, TypeOK, NextService, NowUnreadable, IsNext
<1>2. OpInv'
    BY <1>0 DEF Inv, OpInv
<1>3. net[s] = pre[s]
    BY <1>0 DEF Inv, LeftInv, TypeOK
<1>4. /\ Program(prog')
      /\ \A w \in Aspect : \A k \in Kind : OnTrack(prog', op, Old(s), net[s], w, k)
      /\ prog' # <<>> /\ op.name = "restore" => pre[s] # snap.of[s] \/ s \in unread'
    <2>1. CASE NextService(s)
        BY <1>0, <1>3, <2>1, CommandsReach DEF Inv, NextService
    <2>2. CASE NowUnreadable(s)
        <3>1. op.name = "restore" /\ Old(s) = snap.of[s] /\ snap.of[s] \in ServiceState
            BY <1>0, <2>2 DEF NowUnreadable, Old, Inv, OpInv
        <3>2. (\E w \in Aspect : TRUE) /\ (\E k \in Kind : TRUE)
            BY DEF Aspect, Kind
        <3>q. QED
            BY <2>2, <3>1, <3>2, RestoreReaches DEF NowUnreadable
    <2>q. QED
        BY <2>1, <2>2
<1>5. LeftInv'
    BY <1>0, <1>4 DEF Inv, LeftInv, TypeOK
<1>6. GoalInv'
    <2>1. ASSUME errs = Nil, NEW r \in served \ (todo \ {s}), NEW w \in Aspect, NEW k \in Kind
          PROVE  OnTrack(Left(r)', op, Old(r), net[r], w, k)
        <3>1. CASE r = s
            BY <1>0, <1>4, <3>1 DEF Left
        <3>2. CASE r # s
            <4>1. OnTrack(<<>>, op, Old(r), net[r], w, k)
                BY <1>0, <2>1, <3>2 DEF Inv, GoalInv, Left
            <4>2. Left(r)' = <<>>
                BY <1>0, <3>2 DEF Left
            <4>q. QED
                BY <4>1, <4>2
        <3>q. QED
            BY <3>1, <3>2
    <2>2. \A r : Old(r)' = Old(r)
        BY <1>0 DEF Old
    <2>q. QED
        BY <1>0, <2>1, <2>2 DEF GoalInv
<1>q. QED
    BY <1>1, <1>2, <1>5, <1>6 DEF Inv

LEMMA WorkingKeeps == ASSUME Inv, CommandWorks PROVE Inv'
<1> USE DEF system, bounds
<1>0. /\ running /\ prog # <<>> /\ current \in served \ todo /\ current \in Service
      /\ prog' = Tail(prog) /\ net' = [net EXCEPT ![current] = Effect(@, Head(prog))]
      /\ UNCHANGED <<op, running, served, todo, current, errs, result, pre, snap, unread>>
    BY DEF CommandWorks, Inv, LeftInv, TypeOK
<1>1. /\ net[current] \in ServiceState /\ Effect(net[current], Head(prog)) \in ServiceState
      /\ Program(prog')
    BY <1>0, Rest DEF Inv, TypeOK, LeftInv
<1>2. TypeOK'
    <2>1. net' \in [Service -> ServiceState]
        BY <1>0, <1>1 DEF Inv, TypeOK
    <2>q. QED
        BY <2>1 DEF Inv, TypeOK, CommandWorks
<1>3. OpInv'
    BY <1>0 DEF Inv, OpInv
<1>4. net'[current] = Effect(net[current], Head(prog)) /\ \A s \in Service \ {current} : net'[s] = net[s]
    BY <1>0 DEF Inv, TypeOK
<1>5. LeftInv'
    BY <1>0, <1>1, <1>4 DEF Inv, LeftInv
<1>6. GoalInv'
    <2>1. ASSUME errs = Nil, NEW r \in served \ todo, NEW w \in Aspect, NEW k \in Kind
          PROVE  OnTrack(Left(r)', op, Old(r), net'[r], w, k)
        <3>0. OnTrack(Left(r), op, Old(r), net[r], w, k) /\ r \in Service
            BY <1>0, <2>1 DEF Inv, GoalInv, TypeOK
        <3>1. CASE r = current
            <4>1. Left(r) = prog /\ Left(r)' = Tail(prog)
                BY <1>0, <3>1 DEF Left
            <4>2. CASE AllKeep(prog, op, Old(r), w, k) /\ Goal(op, Old(r), net[r], w, k)
                <5>1. Keeps(Head(prog), op, Old(r), w, k) /\ AllKeep(Tail(prog), op, Old(r), w, k)
                    BY <1>0, <4>2, Rest DEF Inv, LeftInv
                <5>2. Goal(op, Old(r), net'[r], w, k)
                    BY <1>1, <1>4, <3>1, <4>2, <5>1 DEF Keeps
                <5>q. QED
                    BY <4>1, <5>1, <5>2 DEF OnTrack
            <4>3. CASE Achieves(prog, op, Old(r), w, k)
                <5>1. \/ Achieves(Tail(prog), op, Old(r), w, k)
                      \/ Reaches(Head(prog), op, Old(r), w, k) /\ AllKeep(Tail(prog), op, Old(r), w, k)
                    BY <1>0, <4>3, Rest DEF Inv, LeftInv
                <5>2. Reaches(Head(prog), op, Old(r), w, k) => Goal(op, Old(r), net'[r], w, k)
                    BY <1>1, <1>4, <3>1 DEF Reaches
                <5>q. QED
                    BY <4>1, <5>1, <5>2 DEF OnTrack
            <4>q. QED
                BY <3>0, <4>1, <4>2, <4>3 DEF OnTrack
        <3>2. CASE r # current
            <4>1. Left(r) = <<>> /\ Left(r)' = <<>> /\ net'[r] = net[r]
                BY <1>0, <1>4, <3>0, <3>2 DEF Left
            <4>q. QED
                BY <3>0, <4>1
        <3>q. QED
            BY <3>1, <3>2
    <2>2. \A r : Old(r)' = Old(r)
        BY <1>0 DEF Old
    <2>q. QED
        BY <1>0, <2>1, <2>2 DEF GoalInv
<1>q. QED
    BY <1>2, <1>3, <1>5, <1>6 DEF Inv

LEMMA FailingKeeps == ASSUME Inv, CommandFails PROVE Inv'
<1> USE DEF system, bounds, Fault
<1>0. /\ running /\ prog # <<>> /\ prog' = Tail(prog) /\ (Head(prog).must => errs' = Hard)
      /\ (~Head(prog).must => errs' = errs)
      /\ UNCHANGED <<net, op, running, served, todo, current, result, pre, snap, unread>>
    BY DEF CommandFails
<1>1. TypeOK'
    BY DarwinAssumption DEF Inv, TypeOK, CommandFails
<1>2. OpInv'
    BY <1>0 DEF Inv, OpInv
<1>3. LeftInv'
    BY <1>0, Rest DEF Inv, LeftInv
<1>4. GoalInv'
    <2>1. ASSUME errs' = Nil, NEW r \in served \ todo, NEW w \in Aspect, NEW k \in Kind
          PROVE  OnTrack(Left(r)', op, Old(r), net[r], w, k)
        <3>0. ~Head(prog).must /\ errs = Nil
            BY <1>0, <2>1, HardIsNotNil
        <3>1. OnTrack(Left(r), op, Old(r), net[r], w, k)
            BY <1>0, <3>0 DEF Inv, GoalInv
        <3>2. CASE r = current
            <4>1. Left(r) = prog /\ Left(r)' = Tail(prog)
                BY <1>0, <3>2 DEF Left
            <4>2. ~Reaches(Head(prog), op, Old(r), w, k)
                BY <3>0 DEF Reaches
            <4>q. QED
                BY <1>0, <3>1, <4>1, <4>2, Rest DEF OnTrack, Inv, LeftInv
        <3>3. CASE r # current
            <4>1. Left(r)' = Left(r)
                BY <1>0, <3>3 DEF Left
            <4>q. QED
                BY <3>1, <4>1
        <3>q. QED
            BY <3>2, <3>3
    <2>2. \A r : Old(r)' = Old(r)
        BY <1>0 DEF Old
    <2>q. QED
        BY <1>0, <2>1, <2>2 DEF GoalInv
<1>q. QED
    BY <1>1, <1>2, <1>3, <1>4 DEF Inv

LEMMA EndingKeeps == ASSUME Inv, Cancel \/ Finish PROVE Inv'
<1> USE DEF system, bounds, Fault
<1>1. CASE Cancel
    <2>1. TypeOK'
        BY <1>1, DarwinAssumption DEF Inv, TypeOK, Cancel
    <2>2. OpInv' /\ LeftInv'
        BY <1>1, Nothing DEF Inv, OpInv, LeftInv, Cancel
    <2>3. GoalInv'
        BY <1>1, HardIsNotNil DEF GoalInv, Cancel
    <2>q. QED
        BY <2>1, <2>2, <2>3 DEF Inv
<1>2. CASE Finish
    <2>0. /\ running /\ prog = <<>> /\ todo = {} /\ ~running' /\ result' = errs
          /\ UNCHANGED <<net, op, served, todo, current, prog, errs, pre, unread>>
          /\ snap'.of = snap.of /\ snap'.open \in BOOLEAN
          /\ \E S \in SUBSET Service : snap' \in [open : BOOLEAN, of : [S -> ServiceState]]
        BY <1>2 DEF Finish, Inv, OpInv
    <2>1. TypeOK'
        BY <1>2, <2>0 DEF Inv, TypeOK, Finish
    <2>2. OpInv' /\ LeftInv'
        BY <1>2, <2>0 DEF Inv, OpInv, LeftInv
    <2>3. GoalInv'
        <3>1. ASSUME errs = Nil, NEW s \in served, NEW w \in Aspect, NEW k \in Kind
              PROVE  Goal(op, Old(s), net[s], w, k)
            <4>1. OnTrack(Left(s), op, Old(s), net[s], w, k) /\ Left(s) = <<>>
                BY <2>0, <3>1 DEF Inv, GoalInv, Left
            <4>q. QED
                BY <4>1, NothingLeft
        <3>2. \A s : Old(s)' = Old(s)
            BY <2>0 DEF Old
        <3>q. QED
            BY <2>0, <3>1, <3>2 DEF GoalInv
    <2>q. QED
        BY <2>1, <2>2, <2>3 DEF Inv
<1>q. QED
    BY <1>1, <1>2

LEMMA SnapshotKeeps == ASSUME Inv, Snapshot \/ SnapshotFails PROVE Inv'
<1> USE DEF system, bounds, Fault
<1>0. /\ ~running /\ ~running' /\ prog = <<>> /\ prog' = <<>> /\ served' = {}
      /\ op' = [name |-> "snapshot"] /\ UNCHANGED net
      /\ \E S \in SUBSET Service : snap' \in [open : BOOLEAN, of : [S -> ServiceState]]
    <2>1. CASE Snapshot
        <3>1. snap' \in [open : BOOLEAN, of : [Services -> ServiceState]]
            BY <2>1 DEF Snapshot, Inv, TypeOK, Services
        <3>q. QED
            BY <2>1, <3>1 DEF Snapshot, Inv, LeftInv, Services
    <2>2. CASE SnapshotFails
        BY <2>2 DEF SnapshotFails, Inv, OpInv, LeftInv
    <2>q. QED
        BY <2>1, <2>2
<1>1. snap'.open \in BOOLEAN /\ DOMAIN snap'.of \subseteq Service
    BY <1>0
<1>2. todo' = {}
    BY DEF Snapshot, SnapshotFails, Inv, LeftInv
<1>3. TypeOK'
    BY <1>0, <1>1, <1>2, DarwinAssumption DEF Inv, TypeOK, Snapshot, SnapshotFails
<1>4. OpInv' /\ LeftInv' /\ GoalInv'
    BY <1>0, <1>2, Nothing DEF OpInv, LeftInv, GoalInv
<1>q. QED
    BY <1>3, <1>4 DEF Inv

LEMMA RestoreKeeps == ASSUME Inv, Restore PROVE Inv'
<1> USE DEF system, bounds
<1>1. TypeOK'
    BY DEF Inv, TypeOK, Restore
<1>2. OpInv'
    BY DEF Inv, OpInv, Restore
<1>3. prog = <<>>
    BY DEF Inv, LeftInv, Restore
<1>4. LeftInv' /\ GoalInv'
    BY <1>3, Nothing DEF LeftInv, GoalInv, Restore
<1>q. QED
    BY <1>1, <1>2, <1>4 DEF Inv

LEMMA ToggleKeeps == ASSUME Inv, NEW s \in Service, Toggle(s) PROVE Inv'
<1> USE DEF system, bounds
<1>1. TypeOK'
    BY DarwinAssumption DEF Inv, TypeOK, Toggle
<1>2. OpInv' /\ LeftInv' /\ GoalInv'
    BY DEF Inv, OpInv, LeftInv, GoalInv, Old, Left, Toggle
<1>q. QED
    BY <1>1, <1>2 DEF Inv

LEMMA StepInv == Inv /\ [Next]_vars => Inv'
<1> SUFFICES ASSUME Inv, [Next]_vars PROVE Inv'
    OBVIOUS
<1>1. CASE UNCHANGED vars
    BY <1>1 DEF vars, bounds, Inv, TypeOK, OpInv, LeftInv, GoalInv, Old, Left
<1>q. QED
    BY <1>1, BeginningKeeps, TurnKeeps, WorkingKeeps, FailingKeeps, EndingKeeps, SnapshotKeeps,
       RestoreKeeps, ToggleKeeps DEF Next

LEMMA Invariance == Spec => []Inv
BY InitInv, StepInv, PTL DEF Spec

-----------------------------------------------------------------------------
(* What it is for.                                                         *)

\* Every variable keeps its type.
THEOREM TypesAreKept == Spec => []TypeOK
<1>1. Inv => TypeOK
    BY DEF Inv
<1>q. QED
    BY <1>1, Invariance, PTL

\* "a change that did not happen is an error, not a success": when an operation
\* ends without an error, every service that it worked on is as was asked,
\* whatever commands have failed and whatever networksetup does by itself.  Of
\* auto-proxy after a SetMulti with a bypass list alone it says nothing.
THEOREM Success_IsDone == Spec => []SuccessMeansDone
<1>1. ASSUME Inv, ~running, Success, NEW s \in served
      PROVE  /\ op.name = "set"   => SetDone(op.arg, net[s])
             /\ op.name = "unset" => AllIsOff(net[s])
             /\ op.name = "pac"   => PacDone(op.arg, net[s])
             /\ op.name = "multi" => MultiDone(op.arg, net[s], pre[s])
    <2>1. \A w \in Aspect : \A k \in Kind : Goal(op, Old(s), net[s], w, k)
        BY <1>1 DEF Inv, GoalInv, Success
    <2>2. {"proxy", "on", "auto", "url", "bypass"} = Aspect /\ "web" \in Kind
        BY DEF Aspect, Kind
    <2>3. op.name = "set" => SetDone(op.arg, net[s])
        BY <2>1, <2>2 DEF Goal, SetGoal, SetDone
    <2>4. op.name = "unset" => AllIsOff(net[s])
        BY <2>1, <2>2 DEF Goal, UnsetGoal, AllIsOff
    <2>5. op.name = "pac" => PacDone(op.arg, net[s])
        BY <2>1, <2>2 DEF Goal, PacGoal, PacDone
    <2>6. op.name = "multi" => MultiDone(op.arg, net[s], pre[s])
        BY <2>1, <2>2 DEF Goal, MultiGoal, MultiDone, Old
    <2>q. QED
        BY <2>3, <2>4, <2>5, <2>6
<1>2. Inv => SuccessMeansDone
    BY <1>1 DEF SuccessMeansDone
<1>q. QED
    BY <1>2, Invariance, PTL

\* "the previous state back exactly": a restore that ends without an error has
\* put back every service of the snapshot.
THEOREM Restore_IsExact == Spec => []RestoreIsExact
<1>1. ASSUME Inv, Ended("restore"), Success, NEW s \in DOMAIN snap.of
      PROVE  SameService(net[s], snap.of[s])
    <2>1. op.name = "restore" /\ s \in served /\ Old(s) = snap.of[s]
        BY <1>1 DEF Inv, OpInv, Ended, Old
    <2>2. \A w \in Aspect : \A k \in Kind : RestoreGoal(net[s], snap.of[s], w, k)
        BY <1>1, <2>1 DEF Inv, GoalInv, Success, Ended, Goal
    <2>3. {"proxy", "on", "auto", "url", "bypass"} = Aspect /\ "web" \in Kind
        BY DEF Aspect, Kind
    <2>4. \A k \in Kind : SameProxy(net[s].proxy[k], snap.of[s].proxy[k])
        BY <2>2, <2>3 DEF RestoreGoal, SameProxy
    <2>q. QED
        BY <2>2, <2>3, <2>4 DEF RestoreGoal, SameService
<1>2. Inv => RestoreIsExact
    BY <1>1 DEF RestoreIsExact
<1>q. QED
    BY <1>2, Invariance, PTL

\* "Only touch services that actually differ": no operation changes a service
\* that it did not list, and a restore none that is as it was found.
THEOREM Others_AreLeft == Spec => WritesOnlyWhereDue
<1>1. ASSUME Inv, [Next]_vars, NEW s \in Service, net'[s] # net[s]
      PROVE  /\ s \in served
             /\ op.name = "restore" => pre[s] # snap.of[s] \/ s \in unread
    <2>1. CommandWorks
        BY <1>1 DEF Next, Start, StartFails, NextService, NowUnreadable, Toggle, CommandFails,
                    Cancel, Finish, Snapshot, SnapshotFails, Restore, system, vars
    <2>2. s = current
        BY <1>1, <2>1 DEF CommandWorks, Inv, TypeOK
    <2>3. prog # <<>>
        BY <2>1 DEF CommandWorks
    <2>q. QED
        BY <1>1, <2>2, <2>3 DEF Inv, LeftInv
<1>2. Inv /\ [Next]_vars =>
        [\A s \in Service : net'[s] # net[s] =>
            /\ s \in served
            /\ op.name = "restore" => pre[s] # snap.of[s] \/ s \in unread]_vars
    BY <1>1
<1>q. QED
    BY <1>2, Invariance, PTL DEF Spec, WritesOnlyWhereDue

-----------------------------------------------------------------------------
(* The command line.                                                       *)

\* The least element of a set of positions.
LEMMA FirstOfThree ==
    ASSUME NEW T \in SUBSET (1..3), T # {}
    PROVE  LET first == CHOOSE i \in T : \A j \in T : i <= j
           IN  first \in T /\ \A j \in T : first <= j
<1>1. \E i \in T : \A j \in T : i <= j
    <2>1. CASE 1 \in T
        BY <2>1
    <2>2. CASE 1 \notin T /\ 2 \in T
        BY <2>2
    <2>3. CASE 1 \notin T /\ 2 \notin T
        <3>1. \A i \in T : i = 3
            BY <2>3
        <3>2. PICK t \in T : TRUE
            BY <2>3
        <3>3. t = 3 /\ 3 <= 3
            BY <3>1, <3>2
        <3>q. QED
            BY <3>1, <3>2, <3>3
    <2>q. QED
        BY <2>1, <2>2, <2>3
<1>q. QED
    BY <1>1

LEMMA KindsAreKind ==
    /\ DOMAIN Kinds = 1..3 /\ \A i \in 1..3 : Kinds[i] \in Kind
    /\ \A k \in Kind : \E i \in 1..3 : Kinds[i] = k
<1>1. DOMAIN Kinds = 1..3 /\ Kinds[1] = "web" /\ Kinds[2] = "secureWeb" /\ Kinds[3] = "socks"
    BY DEF Kinds
<1>2. \A i \in 1..3 : i = 1 \/ i = 2 \/ i = 3
    OBVIOUS
<1>3. 1 \in 1..3 /\ 2 \in 1..3 /\ 3 \in 1..3
    OBVIOUS
<1>q. QED
    BY <1>1, <1>2, <1>3, Zenon DEF Kind

LEMMA WhatIsRead ==
    ASSUME TypeOK, NEW s \in Service, NEW bad
    PROVE  /\ \A k \in Kind : InUse(s, k) \in Server \cup {None}
           /\ PacInUse(s, bad) \in Pac \cup {None}
           /\ PacInUse(s, bad) \in {None, PacInUse(s, {})}
<1>1. /\ net[s].url \in Pac \cup {None}
      /\ \A k \in Kind : net[s].proxy[k].server \in Server \cup {None}
    BY DEF TypeOK, ServiceState, ProxyState
<1>q. QED
    BY <1>1 DEF InUse, PacInUse

\* Whether getGlobal stops at a kind.
Stops(s, bad, i) == Kinds[i] \in bad \/ InUse(s, Kinds[i]) # None

LEMMA GetGlobalIs ==
    ASSUME NEW s, NEW bad
    PROVE  \/ /\ \A i \in 1..3 : ~Stops(s, bad, i)
              /\ GetGlobal(s, bad).url = PacInUse(s, bad)
           \/ \E i \in 1..3 :
                /\ Stops(s, bad, i) /\ \A j \in 1..3 : Stops(s, bad, j) => i <= j
                /\ GetGlobal(s, bad).url = IF Kinds[i] \in bad THEN Failed ELSE InUse(s, Kinds[i])
<1> DEFINE found == {i \in DOMAIN Kinds : Kinds[i] \in bad \/ InUse(s, Kinds[i]) # None}
           first == CHOOSE i \in found : \A j \in found : i <= j
<1>1. found \in SUBSET (1..3) /\ \A i \in 1..3 : i \in found <=> Stops(s, bad, i)
    BY KindsAreKind DEF Stops
<1>2. GetGlobal(s, bad) =
        IF found = {} THEN [url |-> PacInUse(s, bad), socks |-> FALSE]
        ELSE IF Kinds[first] \in bad THEN [url |-> Failed, socks |-> FALSE]
        ELSE [url |-> InUse(s, Kinds[first]), socks |-> Kinds[first] = "socks"]
    BY DEF GetGlobal
<1>3. CASE found = {}
    <2>1. GetGlobal(s, bad) = [url |-> PacInUse(s, bad), socks |-> FALSE]
        BY <1>2, <1>3
    <2>q. QED
        BY <1>1, <1>3, <2>1
<1>4. CASE found # {}
    <2>1. first \in found /\ \A j \in found : first <= j
        BY <1>1, <1>4, FirstOfThree
    <2> HIDE DEF found, first
    <2>2. first \in 1..3 /\ Stops(s, bad, first) /\ \A j \in 1..3 : Stops(s, bad, j) => first <= j
        BY <1>1, <2>1
    <2>3. GetGlobal(s, bad).url = IF Kinds[first] \in bad THEN Failed ELSE InUse(s, Kinds[first])
        <3>1. CASE Kinds[first] \in bad
            BY <1>2, <1>4, <3>1
        <3>2. CASE Kinds[first] \notin bad
            BY <1>2, <1>4, <3>2
        <3>q. QED
            BY <3>1, <3>2
    <2>q. QED
        BY <2>2, <2>3
<1>q. QED
    BY <1>3, <1>4

\* What get prints is true, whichever of its reads fails; whether plain get
\* counts a PAC URL as a proxy is left open.
THEOREM Get_IsTrue == Spec => []GetTellsTheTruth
<1>1. ASSUME TypeOK, NEW bad, NEW answer \in Answers(bad)
      PROVE  LET s     == answer.svc
                 used  == {i \in DOMAIN Kinds : InUse(s, Kinds[i]) # None}
                 none  == used = {}
                 first == CHOOSE i \in used : \A j \in used : i <= j
             IN  /\ answer.exit = 1 => answer.bad # {}
                 /\ answer.exit = 2 /\ answer.bad = {} =>
                      none /\ (answer.cmd = "json" => PacInUse(s, {}) = None)
                 /\ answer.exit = 0 /\ answer.cmd = "get" =>
                      answer.shown = IF none THEN PacInUse(s, {}) ELSE InUse(s, Kinds[first])
                 /\ answer.exit = 0 /\ answer.cmd = "json" => \A f \in DOMAIN answer.shown :
                      answer.shown[f] \in {None, GetGlobalConfig(s, {})[f]}
    <2> DEFINE s     == answer.svc
               used  == {i \in DOMAIN Kinds : InUse(s, Kinds[i]) # None}
               first == CHOOSE i \in used : \A j \in used : i <= j
    <2>0. used \in SUBSET (1..3) /\ \A i \in 1..3 : i \in used <=> InUse(s, Kinds[i]) # None
        BY KindsAreKind
    <2>1. CASE answer \in {GetFails("get"), GetFails("json")}
        BY <2>1 DEF GetFails
    <2>2. ASSUME NEW r \in Services, answer = GetPlain(r, bad)
          PROVE  /\ answer.exit = 1 => answer.bad # {}
                 /\ answer.exit = 2 /\ answer.bad = {} => used = {} /\ PacInUse(s, {}) = None
                 /\ answer.exit = 0 => answer.shown = IF used = {} THEN PacInUse(s, {})
                                                      ELSE InUse(s, Kinds[first])
                 /\ answer.cmd # "json"
        <3> DEFINE url == GetGlobal(r, bad).url
        <3>1. /\ s = r /\ r \in Service /\ answer.bad = bad /\ answer.cmd = "get"
              /\ answer.exit = IF url = Failed THEN 1 ELSE IF url = None THEN 2 ELSE 0
              /\ url # Failed => answer.shown = url
            BY <2>2 DEF GetPlain, Services
        <3>2. /\ \A k \in Kind : InUse(s, k) \in Server \cup {None}
              /\ PacInUse(s, bad) \in Pac \cup {None} /\ PacInUse(s, bad) \in {None, PacInUse(s, {})}
            BY <1>1, <3>1, WhatIsRead
        <3> HIDE DEF url, s, used
        <3>3. CASE (\A i \in 1..3 : ~Stops(r, bad, i)) /\ url = PacInUse(r, bad)
            <4>1. used = {}
                BY <2>0, <3>1, <3>3 DEF Stops
            <4>2. url # Failed
                BY <3>1, <3>2, <3>3, CommandLineAssumption
            <4>q. QED
                BY <3>1, <3>2, <3>3, <4>1, <4>2
        <3>4. ASSUME NEW i \in 1..3, Stops(r, bad, i), \A j \in 1..3 : Stops(r, bad, j) => i <= j,
                     url = IF Kinds[i] \in bad THEN Failed ELSE InUse(r, Kinds[i])
              PROVE  /\ answer.exit = 1 => answer.bad # {}
                     /\ answer.exit = 2 /\ answer.bad = {} => used = {} /\ PacInUse(s, {}) = None
                     /\ answer.exit = 0 => answer.shown = IF used = {} THEN PacInUse(s, {})
                                                          ELSE InUse(s, Kinds[first])
            <4>1. CASE Kinds[i] \in bad
                BY <3>1, <3>4, <4>1
            <4>2. CASE Kinds[i] \notin bad
                <5>1. /\ url = InUse(s, Kinds[i]) /\ InUse(s, Kinds[i]) # None
                      /\ url # Failed
                    BY <3>1, <3>2, <3>4, <4>2, KindsAreKind, CommandLineAssumption DEF Stops
                <5>2. i \in used /\ \A j \in used : i <= j
                    BY <2>0, <3>1, <3>4, <5>1 DEF Stops
                <5>3. first \in used /\ \A j \in used : first <= j
                    BY <2>0, <5>2, FirstOfThree
                <5>4. first = i
                    <6> HIDE DEF first
                    <6>1. first \in 1..3 /\ i \in 1..3 /\ first <= i /\ i <= first
                        BY <2>0, <5>2, <5>3
                    <6>q. QED
                        BY <6>1
                <5> HIDE DEF first
                <5>q. QED
                    BY <3>1, <5>1, <5>2, <5>4
            <4>q. QED
                BY <4>1, <4>2
        <3>q. QED
            BY <3>1, <3>3, <3>4, GetGlobalIs DEF url
    <2>3. ASSUME NEW r \in Services, answer = GetJSON(r, bad)
          PROVE  /\ answer.exit # 1
                 /\ answer.exit = 2 /\ answer.bad = {} => used = {} /\ PacInUse(s, {}) = None
                 /\ answer.exit = 0 => \A f \in DOMAIN answer.shown :
                      answer.shown[f] \in {None, GetGlobalConfig(s, {})[f]}
                 /\ answer.cmd # "get"
        <3> DEFINE cfg == GetGlobalConfig(r, bad)
        <3>1. /\ s = r /\ r \in Service /\ answer.bad = bad /\ answer.cmd = "json"
              /\ answer.exit = IF ~NothingSet(cfg) THEN 0 ELSE 2
              /\ ~NothingSet(cfg) => answer.shown = cfg
            BY <2>3 DEF GetJSON, Services
        <3>2. PacInUse(s, bad) \in {None, PacInUse(s, {})}
            BY <1>1, <3>1, WhatIsRead
        <3> HIDE DEF s, used
        <3>3. ASSUME NothingSet(cfg), bad = {} PROVE used = {} /\ PacInUse(s, {}) = None
            <4>1. \A f \in Kind \cup {"pac"} : cfg[f] = None
                BY <3>3 DEF NothingSet
            <4>2. cfg["pac"] = PacInUse(r, {}) /\ \A k \in Kind : cfg[k] = InUse(r, k)
                BY <3>3 DEF GetGlobalConfig, Kind
            <4>q. QED
                BY <2>0, <3>1, <4>1, <4>2, KindsAreKind
        <3>4. ASSUME NEW f \in DOMAIN cfg PROVE cfg[f] \in {None, GetGlobalConfig(s, {})[f]}
            BY <3>1, <3>2, <3>4 DEF GetGlobalConfig
        <3>q. QED
            BY <3>1, <3>3, <3>4
    <2>q. QED
        BY <2>1, <2>2, <2>3 DEF Answers, GetFails
<1>2. TypeOK => GetTellsTheTruth
    BY <1>1 DEF GetTellsTheTruth
<1>q. QED
    BY <1>2, TypesAreKept, PTL

\* A script that goes on when a command exits with 0 finds what it asked for
\* with the next one, on whatever service get looks; after pac, plain get may
\* also say that there is no proxy.
THEOREM Scripts_See == Spec => []ScriptsSeeTheirChange
<1>1. ASSUME TypeOK, SuccessMeansDone, OpInv, ~running, SameServices, ExitCode(result) = 0,
             NEW answer \in Answers({})
      PROVE  /\ op.name = "set" /\ answer.cmd = "get" =>
                    answer.exit = 0 /\ answer.shown = op.arg.server
             /\ op.name = "unset" => answer.exit = 2
             /\ op.name = "pac" /\ answer.cmd = "json" =>
                    answer.exit = 0 /\ answer.shown["pac"] = op.arg
             /\ op.name = "pac" /\ answer.cmd = "get" =>
                    answer.exit = 2 \/ (answer.exit = 0 /\ answer.shown = op.arg)
    <2>1. Success
        BY <1>1 DEF ExitCode, IsNonCritical, Nil, Hard, TypeOK, Success
    <2>2. PICK s \in Services : answer = GetPlain(s, {}) \/ answer = GetJSON(s, {})
        BY <1>1 DEF Answers, SameServices
    <2>3. s \in served /\ s \in Service
        BY <1>1, <2>2 DEF SameServices, Services
    <2>4. /\ op.name = "set"   => SetDone(op.arg, net[s])
          /\ op.name = "unset" => AllIsOff(net[s])
          /\ op.name = "pac"   => PacDone(op.arg, net[s])
        BY <1>1, <2>1, <2>3 DEF SuccessMeansDone
    <2> DEFINE url == GetGlobal(s, {}).url
               cfg == GetGlobalConfig(s, {})
    <2>5. \/ (\A i \in 1..3 : InUse(s, Kinds[i]) = None) /\ url = PacInUse(s, {})
          \/ \E i \in 1..3 : InUse(s, Kinds[i]) # None /\ url = InUse(s, Kinds[i])
        BY GetGlobalIs DEF Stops
    <2>6. /\ answer.cmd = "get" => /\ answer = GetPlain(s, {})
                                   /\ answer.exit = IF url = Failed THEN 1 ELSE IF url = None THEN 2 ELSE 0
                                   /\ url # Failed => answer.shown = url
          /\ answer.cmd # "get" => /\ answer.exit = IF ~NothingSet(cfg) THEN 0 ELSE 2
                                   /\ ~NothingSet(cfg) => answer.shown = cfg
        BY <2>2 DEF GetPlain, GetJSON
    <2>7. cfg["pac"] = PacInUse(s, {}) /\ \A k \in Kind : cfg[k] = InUse(s, k)
        BY DEF GetGlobalConfig, Kind
    <2> HIDE DEF url, cfg
    <2>8. ASSUME op.name = "set", answer.cmd = "get"
          PROVE  answer.exit = 0 /\ answer.shown = op.arg.server
        <3>1. op.arg.server \in Server /\ op.arg.socks \in BOOLEAN
            BY <1>1, <2>8, DarwinAssumption DEF OpInv, Operations, Proxy
        <3>2. \A k \in Kind : InUse(s, k) = IF (k = "socks") = op.arg.socks THEN op.arg.server ELSE None
            BY <2>4, <2>8 DEF SetDone, InUse
        <3>3. \E i \in 1..3 : InUse(s, Kinds[i]) = op.arg.server
            <4>1. \E k \in Kind : (k = "socks") = op.arg.socks
                BY <3>1 DEF Kind
            <4>q. QED
                BY <3>2, <4>1, KindsAreKind
        <3>4. op.arg.server # None /\ op.arg.server # Failed
            BY <3>1, DarwinAssumption, CommandLineAssumption
        <3>5. url = op.arg.server
            BY <2>5, <3>2, <3>3, <3>4, KindsAreKind
        <3>q. QED
            BY <2>6, <2>8, <3>4, <3>5
    <2>9. ASSUME op.name = "unset" PROVE answer.exit = 2
        <3>1. (\A k \in Kind : InUse(s, k) = None) /\ PacInUse(s, {}) = None
            BY <2>4, <2>9 DEF AllIsOff, InUse, PacInUse
        <3>2. url = None
            BY <2>5, <3>1, KindsAreKind
        <3>3. NothingSet(cfg)
            BY <2>7, <3>1 DEF NothingSet
        <3>4. None # Failed
            BY CommandLineAssumption
        <3>q. QED
            BY <2>6, <3>2, <3>3, <3>4
    <2>10. ASSUME op.name = "pac"
           PROVE  /\ answer.exit = 0
                  /\ answer.cmd = "json" => answer.shown["pac"] = op.arg
                  /\ answer.cmd = "get" => answer.shown = op.arg
        <3>1. op.arg \in Pac /\ op.arg # None /\ op.arg # Failed
            BY <1>1, <2>10, DarwinAssumption, CommandLineAssumption DEF OpInv, Operations
        <3>2. (\A k \in Kind : InUse(s, k) = None) /\ PacInUse(s, {}) = op.arg
            BY <2>4, <2>10 DEF PacDone, InUse, PacInUse
        <3>3. url = op.arg
            BY <2>5, <3>2, KindsAreKind
        <3>4. ~NothingSet(cfg)
            BY <2>7, <3>1, <3>2 DEF NothingSet
        <3>q. QED
            BY <2>6, <2>7, <3>1, <3>2, <3>3, <3>4
    <2>q. QED
        BY <2>8, <2>9, <2>10
<1>2. Inv /\ SuccessMeansDone => ScriptsSeeTheirChange
    BY <1>1 DEF ScriptsSeeTheirChange, Inv
<1>q. QED
    BY <1>2, Invariance, Success_IsDone, PTL

=============================================================================
