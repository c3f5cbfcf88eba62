--------------------------- MODULE DarwinBackend ---------------------------
(***************************************************************************)
(* The macOS backend (sysproxy_darwin.go).  Every operation asks for the   *)
(* enabled network services and gives each of them the same commands, one  *)
(* networksetup process per command; any of them may fail on its own.      *)
(*                                                                         *)
(* External: networksetup.  Its -set*proxy commands switch the proxy on,   *)
(* change the authentication flag only when they are told to, and          *)
(* -setautoproxyurl switches auto-proxy on (comments of setGlobal and      *)
(* unsetGlobal; the fake networksetup of the tests does the same).         *)
(* A proxy is its host:port, whether its scheme is SOCKS, and whether it   *)
(* has a login; passwords are left out, they cannot be read back.          *)
(***************************************************************************)
EXTENDS ProxyErrors, Sequences, Naturals

CONSTANTS
    None,           \* an empty value
    Order,          \* the network services, in the order of the list (a sequence)
    Server, Pac, Bypass,   \* host:port pairs, PAC URLs, bypass lists
    Proxies,        \* the URLs given to Set
    Configs,        \* the configurations given to SetMulti
    InitialStates,  \* what a service may hold at the beginning
    InitialDisabled,\* which services may be disabled then
    MaxOps, MaxToggles,
    MaxFaults       \* bound on failing commands and contexts that end

Service == {Order[i] : i \in DOMAIN Order}
Kinds   == <<"web", "secureWeb", "socks">>      \* nsProxyKinds
Kind    == {"web", "secureWeb", "socks"}

\* nsProxyState and nsServiceState.
ProxyState   == [server : Server \cup {None}, on : BOOLEAN, auth : BOOLEAN]
ServiceState == [proxy : [Kind -> ProxyState], url : Pac \cup {None}, auto : BOOLEAN,
                 bypass : Bypass \cup {None}]

Proxy  == [server : Server, socks : BOOLEAN, user : BOOLEAN]
Config == [Kind \cup {"bypass"} -> Server \cup Bypass \cup {None}]

ASSUME DarwinAssumption ==
    /\ Order # <<>> /\ \A i, j \in DOMAIN Order : Order[i] = Order[j] => i = j
    /\ None \notin Server \cup Pac \cup Bypass
    /\ Proxies \subseteq Proxy /\ InitialStates \subseteq ServiceState
    /\ InitialDisabled \subseteq SUBSET Service
    /\ {MaxOps, MaxToggles, MaxFaults} \subseteq Nat
    /\ Configs \subseteq {c \in Config : /\ \A k \in Kind : c[k] \in Server \cup {None}
                                        /\ c["bypass"] \in Bypass \cup {None}}

VARIABLES
    net,       \* [Service -> ServiceState]: what networksetup stores
    disabled,  \* the services that are disabled
    op,        \* the operation under way, or the last one
    running,   \* whether it is under way
    served,    \* the services it works on
    todo,      \* those it has not come to yet
    current,   \* the one it is at
    prog,      \* the commands left for that one
    errs,      \* the failures nsBatch has collected
    result,    \* the error of the last operation
    pre,       \* net when it began
    snap,      \* what the open WithProxy saved, or NoSnap
    unread,    \* the services whose state the restore could not read again
    ops, faults, toggles

system == <<net, disabled>>
bounds == <<ops, faults, toggles>>
vars == <<net, disabled, op, running, served, todo, current, prog, errs, result, pre, snap,
          unread, bounds>>

NoSnap == [open |-> FALSE, of |-> [s \in {} |-> None]]

Init ==
    /\ net \in [Service -> InitialStates]
    /\ disabled \in InitialDisabled
    /\ op = [name |-> "none"] /\ running = FALSE
    /\ served = {} /\ todo = {} /\ current = None /\ prog = <<>>
    /\ errs = Nil /\ result = Nil
    /\ pre = net /\ snap = NoSnap /\ unread = {}
    /\ ops = 0 /\ faults = 0 /\ toggles = 0

Fault == faults < MaxFaults /\ faults' = faults + 1

\* macOSNetworkServices: all but the disabled ones.
Services == Service \ disabled

\* The loops over them follow the order of the list.
IsNext(s) == \E i \in DOMAIN Order : /\ s = Order[i] /\ s \in todo
                                    /\ \A j \in 1..(i - 1) : Order[j] \notin todo

-----------------------------------------------------------------------------
(* The commands.  nsBatch.run records a failure, nsBatch.try ignores it.   *)

Run(c) == <<[c EXCEPT !.must = TRUE]>>
Try(c) == <<[c EXCEPT !.must = FALSE]>>

Command(do, kind, value, flag) ==
    [do |-> do, kind |-> kind, value |-> value, flag |-> flag, must |-> TRUE]

Set(kind, server, auth) == Command("proxy", kind, server, auth)    \* auth: on, off, keep
State(kind, on)         == Command("state", kind, None, on)
AutoState(on)           == Command("autoState", None, None, on)
AutoUrl(url)            == Command("autoUrl", None, url, None)
BypassDomains(list)     == Command("bypass", None, list, None)

\* What networksetup makes of a service.
Effect(st, c) ==
    IF c.do = "proxy"
    THEN [st EXCEPT !.proxy[c.kind] =
             [server |-> c.value, on |-> TRUE,
              auth |-> IF c.flag = "keep" THEN @.auth ELSE c.flag = "on"]]
    ELSE IF c.do = "state"     THEN [st EXCEPT !.proxy[c.kind].on = c.flag]
    ELSE IF c.do = "autoState" THEN [st EXCEPT !.auto = c.flag]
    ELSE IF c.do = "autoUrl"   THEN [st EXCEPT !.url = c.value, !.auto = TRUE]
    ELSE [st EXCEPT !.bypass = c.value]

AllOff == Run(State("web", FALSE)) \o Run(State("secureWeb", FALSE)) \o Run(State("socks", FALSE))

\* Mutant: the proxies of the other scheme stay on.
SetGlobalKeepsOthers(p) ==
    LET Use(k) == Run(Set(k, p.server, IF p.user THEN "on" ELSE "off")) \o Run(State(k, TRUE))
    IN  Run(AutoState(FALSE))
        \o (IF p.socks THEN Use("socks") ELSE Use("web") \o Use("secureWeb"))

\* setGlobal: the scheme decides which kinds are used, the others go off.
SetGlobal(p) ==
    LET Use(k) == Run(Set(k, p.server, IF p.user THEN "on" ELSE "off")) \o Run(State(k, TRUE))
        Drop(k) == Run(State(k, FALSE))
    IN  Run(AutoState(FALSE))
        \o (IF p.socks THEN Use("socks") \o Drop("web") \o Drop("secureWeb")
            ELSE Use("web") \o Use("secureWeb") \o Drop("socks"))

\* Mutant: the states go off before the commands that switch them on.
UnsetGlobalEarly ==
    Run(AutoState(FALSE)) \o AllOff
    \o Try(Set("web", None, "keep")) \o Try(Set("secureWeb", None, "keep"))
    \o Try(Set("socks", None, "keep"))

\* unsetGlobal: the servers are emptied first, which switches them on.
UnsetGlobal ==
    Try(Set("web", None, "keep")) \o Try(Set("secureWeb", None, "keep"))
    \o Try(Set("socks", None, "keep")) \o Run(AutoState(FALSE)) \o AllOff

SetGlobalPAC(url) == AllOff \o Run(AutoUrl(url)) \o Run(AutoState(TRUE))

\* setGlobalMulti: no authentication argument is given.
SetGlobalMulti(cfg) ==
    LET Use(k) == IF cfg[k] = None THEN <<>>
                  ELSE Run(Set(k, cfg[k], "keep")) \o Run(State(k, TRUE))
    IN  Run(AutoState(FALSE)) \o Use("web") \o Use("secureWeb") \o Use("socks")
        \o (IF cfg["bypass"] = None THEN <<>> ELSE Run(BypassDomains(cfg["bypass"])))

\* Mutant: a proxy that was off is put back and stays on.
RestoreServiceStateOn(st) ==
    LET Back(k) == LET ps == st.proxy[k] IN
            Run(Set(k, ps.server, IF ps.server = None \/ ps.auth THEN "keep" ELSE "off"))
            \o (IF ps.on \/ ps.server = None THEN Run(State(k, ps.on)) ELSE <<>>)
    IN  Back("web") \o Back("secureWeb") \o Back("socks")
        \o (IF st.url = None THEN <<>> ELSE Run(AutoUrl(st.url)))
        \o Run(AutoState(st.auto /\ st.url # None)) \o Run(BypassDomains(st.bypass))

\* restoreServiceState: an authentication flag that was on is left as it is,
\* the password is not known; "" and a PAC URL of "" have forms of their own.
RestoreServiceState(st) ==
    LET Back(k) == LET ps == st.proxy[k] IN
            Run(Set(k, ps.server, IF ps.server = None \/ ps.auth THEN "keep" ELSE "off"))
            \o Run(State(k, ps.on))
    IN  Back("web") \o Back("secureWeb") \o Back("socks")
        \o (IF st.url = None THEN <<>> ELSE Run(AutoUrl(st.url)))
        \o Run(AutoState(st.auto /\ st.url # None)) \o Run(BypassDomains(st.bypass))

-----------------------------------------------------------------------------
(* The steps of an operation.                                              *)

Operations == [name : {"set"}, arg : Proxies] \cup [name : {"unset"}]
              \cup [name : {"pac"}, arg : Pac] \cup [name : {"multi"}, arg : Configs]

\* A snapshot that was restored is of no use any more.
Forget == snap' = (IF snap.open THEN snap ELSE NoSnap) /\ unread' = {}

Start(o) ==
    /\ ~running /\ ops < MaxOps
    /\ op' = o /\ ops' = ops + 1 /\ errs' = Nil
    /\ pre' = net
    /\ served' = Services /\ todo' = Services
    /\ IF Services = {} THEN running' = FALSE /\ result' = Hard
                        ELSE running' = TRUE /\ result' = Nil
    /\ Forget
    /\ UNCHANGED <<system, current, prog, faults, toggles>>

\* The list of services cannot be read: nothing is changed.
StartFails(o) ==
    /\ ~running /\ ops < MaxOps /\ Fault
    /\ op' = o /\ ops' = ops + 1 /\ errs' = Nil /\ result' = Hard
    /\ pre' = net /\ served' = {}
    /\ Forget
    /\ UNCHANGED <<system, running, todo, current, prog, toggles>>

\* Mutant: every service of the snapshot is rewritten.
CommandsAlways(s) ==
    IF      op.name = "set"   THEN SetGlobal(op.arg)
    ELSE IF op.name = "unset" THEN UnsetGlobal
    ELSE IF op.name = "pac"   THEN SetGlobalPAC(op.arg)
    ELSE IF op.name = "multi" THEN SetGlobalMulti(op.arg)
    ELSE RestoreServiceState(snap.of[s])

\* What the loop over the services gives to service s; a restore only
\* touches a service that differs from the snapshot.
Commands(s) ==
    IF      op.name = "set"   THEN SetGlobal(op.arg)
    ELSE IF op.name = "unset" THEN UnsetGlobal
    ELSE IF op.name = "pac"   THEN SetGlobalPAC(op.arg)
    ELSE IF op.name = "multi" THEN SetGlobalMulti(op.arg)
    ELSE IF net[s] = snap.of[s] THEN <<>>
    ELSE RestoreServiceState(snap.of[s])

NextService(s) ==
    /\ running /\ prog = <<>> /\ IsNext(s)
    /\ prog' = Commands(s)
    /\ current' = s /\ todo' = todo \ {s}
    /\ UNCHANGED <<system, op, running, served, errs, result, pre, snap, unread, bounds>>

\* The restore cannot read the state of a service, and writes it anyway.
NowUnreadable(s) ==
    /\ running /\ op.name = "restore" /\ prog = <<>> /\ IsNext(s) /\ Fault
    /\ prog' = RestoreServiceState(snap.of[s])
    /\ unread' = unread \cup {s}
    /\ current' = s /\ todo' = todo \ {s}
    /\ UNCHANGED <<system, op, running, served, errs, result, pre, snap, ops, toggles>>

CommandWorks ==
    /\ running /\ prog # <<>>
    /\ net' = [net EXCEPT ![current] = Effect(@, Head(prog))]
    /\ prog' = Tail(prog)
    /\ UNCHANGED <<disabled, op, running, served, todo, current, errs, result, pre, snap, unread,
                   bounds>>

CommandFails ==
    /\ running /\ prog # <<>> /\ Fault
    /\ errs' = IF Head(prog).must THEN Hard ELSE errs
    /\ prog' = Tail(prog)
    /\ UNCHANGED <<system, op, running, served, todo, current, result, pre, snap, unread, ops,
                   toggles>>

\* The context ends (the caller's, or restoreTimeout): every command that is
\* left fails, and the last command for each service is one that counts.
Cancel ==
    /\ running /\ (prog # <<>> \/ todo # {}) /\ Fault
    /\ prog' = <<>> /\ todo' = {} /\ errs' = Hard
    /\ UNCHANGED <<system, op, running, served, current, result, pre, snap, unread, ops, toggles>>

Finish ==
    /\ running /\ prog = <<>> /\ todo = {}
    /\ running' = FALSE /\ result' = errs
    /\ snap' = IF op.name = "restore" THEN [snap EXCEPT !.open = FALSE] ELSE snap
    /\ UNCHANGED <<system, op, served, todo, current, prog, errs, pre, unread, bounds>>

-----------------------------------------------------------------------------
(* SnapshotGlobal and the restore it returns.                              *)

Snapshot ==
    /\ ~running /\ ~snap.open /\ ops < MaxOps /\ Services # {}
    /\ snap' = [open |-> TRUE, of |-> [s \in Services |-> net[s]]]
    /\ op' = [name |-> "snapshot"] /\ served' = {} /\ result' = Nil /\ pre' = net
    /\ UNCHANGED <<system, running, todo, current, prog, errs, unread, bounds>>

\* No enabled service, or a state that cannot be read: nothing is saved.
SnapshotFails ==
    /\ ~running /\ ~snap.open /\ ops < MaxOps
    /\ IF Services = {} THEN UNCHANGED faults ELSE Fault
    /\ op' = [name |-> "snapshot"] /\ served' = {} /\ result' = Hard /\ pre' = net
    /\ UNCHANGED <<system, running, todo, current, prog, errs, snap, unread, ops, toggles>>

\* Mutant: the restore lists the services again.
RestoreListsAgain ==
    /\ ~running /\ snap.open
    /\ op' = [name |-> "restore"] /\ running' = TRUE
    /\ served' = Services /\ todo' = DOMAIN snap.of
    /\ errs' = Nil /\ result' = Nil /\ pre' = net /\ unread' = {}
    /\ UNCHANGED <<system, current, prog, snap, bounds>>

Restore ==
    /\ ~running /\ snap.open
    /\ op' = [name |-> "restore"] /\ running' = TRUE
    /\ served' = DOMAIN snap.of /\ todo' = DOMAIN snap.of
    /\ errs' = Nil /\ result' = Nil /\ pre' = net /\ unread' = {}
    /\ UNCHANGED <<system, current, prog, snap, bounds>>

\* The user enables or disables a service between two operations.
Toggle(s) ==
    /\ ~running /\ toggles < MaxToggles /\ toggles' = toggles + 1
    /\ disabled' = IF s \in disabled THEN disabled \ {s} ELSE disabled \cup {s}
    /\ UNCHANGED <<net, op, running, served, todo, current, prog, errs, result, pre, snap,
                   unread, ops, faults>>

Next == \/ \E o \in Operations : Start(o) \/ StartFails(o)
        \/ \E s \in Service : NextService(s) \/ NowUnreadable(s) \/ Toggle(s)
        \/ CommandWorks \/ CommandFails \/ Cancel \/ Finish
        \/ Snapshot \/ SnapshotFails \/ Restore

Spec == Init /\ [][Next]_vars

-----------------------------------------------------------------------------
(* What Get and GetConfig read of one service; bad are the reads that fail.*)

Read == Kind \cup {"url", "bypass"}

\* A value that could not be read, as opposed to one that is not there.
Failed == [failed |-> TRUE]

\* parseNSProxyOutput: a proxy counts when it is on and has a server.
InUse(s, k) == LET ps == net[s].proxy[k] IN IF ps.on THEN ps.server ELSE None

\* readMacPAC: a read that fails counts as "no PAC".
PacInUse(s, bad) == IF net[s].auto /\ "url" \notin bad THEN net[s].url ELSE None

\* Mutant: a kind that cannot be read is passed over.
GetGlobalSkips(s, bad) ==
    LET found == {i \in DOMAIN Kinds : Kinds[i] \notin bad /\ InUse(s, Kinds[i]) # None}
        first == CHOOSE i \in found : \A j \in found : i <= j
    IN  IF found = {} THEN [url |-> PacInUse(s, bad), socks |-> FALSE]
        ELSE [url |-> InUse(s, Kinds[first]), socks |-> Kinds[first] = "socks"]

\* getGlobal: the first kind in use, then the PAC URL.  None stands for
\* ErrProxyNotSet, Failed for another error.
GetGlobal(s, bad) ==
    LET found == {i \in DOMAIN Kinds : Kinds[i] \in bad \/ InUse(s, Kinds[i]) # None}
        first == CHOOSE i \in found : \A j \in found : i <= j
    IN  IF found = {} THEN [url |-> PacInUse(s, bad), socks |-> FALSE]
        ELSE IF Kinds[first] \in bad THEN [url |-> Failed, socks |-> FALSE]
        ELSE [url |-> InUse(s, Kinds[first]), socks |-> Kinds[first] = "socks"]

\* getGlobalConfig: a field that cannot be read stays empty.
GetGlobalConfig(s, bad) ==
    [f \in Kind \cup {"pac", "bypass"} |->
        IF f = "pac" THEN PacInUse(s, bad)
        ELSE IF f \in bad THEN None
        ELSE IF f = "bypass" THEN net[s].bypass ELSE InUse(s, f)]

\* ErrProxyNotSet: a bypass list alone is no configuration.
NothingSet(cfg) == \A f \in Kind \cup {"pac"} : cfg[f] = None

-----------------------------------------------------------------------------
(* Properties.                                                             *)

Ended(name) == ~running /\ op.name = name
Success == result = Nil

\* Every variable keeps its type.
TypeOK ==
    /\ net \in [Service -> ServiceState] /\ pre \in [Service -> ServiceState]
    /\ UNION {disabled, served, todo, unread} \subseteq Service /\ todo \subseteq served
    /\ current \in Service \cup {None} /\ running \in BOOLEAN
    /\ {errs, result} \subseteq {Nil, Hard}
    /\ snap.open \in BOOLEAN /\ DOMAIN snap.of \subseteq Service
    /\ ops \in 0..MaxOps /\ faults \in 0..MaxFaults /\ toggles \in 0..MaxToggles

\* "a change that did not happen is an error, not a success" (THREAT_MODEL,
\* O4), for each of the services: after Set without an error exactly the
\* kinds of its scheme are on, with that server and that use of a login, and
\* auto-proxy is off; after Unset nothing is on, whatever the order in which
\* networksetup switches proxies on by itself; after SetPAC only the PAC is
\* used; after SetMulti the fields given are in use and the others are as
\* they were, but for auto-proxy, which gives way to a proxy that was named.
SetDone(p, st) ==
    /\ ~st.auto
    /\ \A k \in Kind : IF (k = "socks") = p.socks
                       THEN st.proxy[k] = [server |-> p.server, on |-> TRUE, auth |-> p.user]
                       ELSE ~st.proxy[k].on

AllIsOff(st) == ~st.auto /\ \A k \in Kind : ~st.proxy[k].on

PacDone(url, st) == st.auto /\ st.url = url /\ \A k \in Kind : ~st.proxy[k].on

MultiDone(cfg, st, old) ==
    /\ \A k \in Kind : IF cfg[k] = None THEN st.proxy[k] = old.proxy[k]
                       ELSE st.proxy[k].on /\ st.proxy[k].server = cfg[k]
    /\ st.bypass = IF cfg["bypass"] = None THEN old.bypass ELSE cfg["bypass"]
    /\ st.url = old.url
    /\ (\E k \in Kind : cfg[k] # None) => ~st.auto

SuccessMeansDone ==
    ~running /\ Success => \A s \in served :
        /\ op.name = "set"   => SetDone(op.arg, net[s])
        /\ op.name = "unset" => AllIsOff(net[s])
        /\ op.name = "pac"   => PacDone(op.arg, net[s])
        /\ op.name = "multi" => MultiDone(op.arg, net[s], pre[s])

\* "Fields left empty are not changed, on every OS: a NoProxy alone neither
\* switches the manual proxy on nor replaces a PAC URL" (README.md).  The code
\* does not keep to it: SetMulti switches auto-proxy off whatever it is given.
BypassAloneKeepsPac ==
    ~running /\ Success /\ op.name = "multi" /\ (\A k \in Kind : op.arg[k] = None) =>
        \A s \in served : net[s].url = pre[s].url /\ net[s].auto = pre[s].auto

\* "the previous state back exactly ... including fields that were empty"
\* (WithProxy): a restore without an error has put back every service of the
\* snapshot, also one that the user has disabled since.  Two things are left
\* out, as the code says: a PAC URL cannot be emptied, auto-proxy is only
\* switched off then, even if it was on without a URL, and an
\* authentication flag is not written unless it was off and had a server.
SameProxy(now, old) == /\ now.server = old.server /\ now.on = old.on
                       /\ old.server # None /\ ~old.auth => ~now.auth

SameService(now, old) == /\ \A k \in Kind : SameProxy(now.proxy[k], old.proxy[k])
                         /\ now.bypass = old.bypass
                         /\ now.auto => old.auto
                         /\ old.url # None => now.url = old.url /\ now.auto = old.auto

RestoreIsExact ==
    Ended("restore") /\ Success => \A s \in DOMAIN snap.of : SameService(net[s], snap.of[s])

\* "Only touch services that actually differ, so unrelated ones are never
\* rewritten" (snapshotGlobal): during a restore, in which a proxy that is
\* written back is on for a moment even when it ends up off, a service that
\* is as the snapshot found it does not change, unless it cannot be read;
\* and no operation changes a service that it did not list as enabled.
WritesOnlyWhereDue ==
    [][\A s \in Service : net'[s] # net[s] =>
          /\ s \in served
          /\ op.name = "restore" => pre[s] # snap.of[s] \/ s \in unread]_vars
=============================================================================
