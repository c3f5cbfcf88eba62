--------------------------- MODULE WindowsBackend ---------------------------
(***************************************************************************)
(* The Windows backend (sysproxy_windows.go, windows_parse.go and the      *)
(* Credential Manager of winapi_windows.go): four values of the Internet   *)
(* Settings key, one reg process per change; a login per proxy host; and   *)
(* a notification that makes running applications read the settings again. *)
(*                                                                         *)
(* External: reg, Credential Manager and WinINET.  WinINET, notified       *)
(* while ProxyEnable is missing, writes the proxy it has cached back       *)
(* (comment in snapshotGlobal).  A proxy is its host: ports, users and     *)
(* passwords are left out.  The kinds of a ProxyServer value are taken to  *)
(* be in the order in which mergeProxyServer writes them, and "h:p" to be  *)
(* the http and the https proxy, as parseWindowsProxyServer reads it.      *)
(***************************************************************************)
EXTENDS ProxyErrors, Sequences, Naturals

CONSTANTS
    None,            \* an absent value
    Host, Pac,       \* proxies and PAC URLs
    Bypass, Default, \* bypass lists; Default is the one Set writes
    Proxies,         \* the URLs given to Set
    Configs,         \* the configurations given to SetMulti
    InitialRegistry, \* what the key may hold at the beginning
    InitialLogins,   \* and Credential Manager
    MaxOps,
    MaxFaults        \* bound on failing calls and contexts that end

\* The kinds of proxy in a ProxyServer value; ftp stands for the ones the
\* package does not manage.
Kinds    == <<"http", "https", "socks", "ftp">>
Managed  == {"http", "https", "socks"}
Server   == [Managed \cup {"ftp"} -> Host \cup {None}]
NoServer == [k \in Managed \cup {"ftp"} |-> None]

Names == <<"ProxyEnable", "ProxyServer", "ProxyOverride", "AutoConfigURL">>   \* regValueNames
Registry == [ProxyEnable : {0, 1, None}, ProxyServer : (Server \ {NoServer}) \cup {None},
             ProxyOverride : Bypass \cup {None}, AutoConfigURL : Pac \cup {None}]

Login  == {"none", "ours", "foreign"}    \* credComment tells ours from foreign
Proxy  == [host : Host, socks : BOOLEAN, user : BOOLEAN]
Config == [Managed \cup {"bypass"} -> Host \cup Bypass \cup {None}]

ASSUME WindowsAssumption ==
    /\ Default \in Bypass
    /\ None \notin Host \cup Pac \cup Bypass \cup {0, 1} \cup Server \cup DOMAIN NoServer
    /\ Proxies \subseteq Proxy /\ InitialRegistry \subseteq Registry
    /\ InitialLogins \subseteq [Host -> Login]
    /\ Configs \subseteq {c \in Config : /\ \A k \in Managed : c[k] \in Host \cup {None}
                                        /\ c["bypass"] \in Bypass \cup {None}}
    /\ {MaxOps, MaxFaults} \subseteq Nat

VARIABLES
    reg,       \* the four values
    logins,    \* [Host -> Login]
    live,      \* what running applications use: reg when WinINET last read it
    op,        \* the operation under way, or the last one
    running,   \* whether it is under way
    prog,      \* the calls it has left
    ended,     \* its context has ended
    errs, warn, result,   \* regBatch.errs, the warning, the error returned
    skipped,   \* a failure was ignored in this operation
    pre,       \* reg when it began
    snap,      \* what the open WithProxy saved
    ops, faults

bounds == <<ops, faults>>
vars == <<reg, logins, live, op, running, prog, ended, errs, warn, result, skipped, pre, snap,
          bounds>>

NoSnap == [open |-> FALSE, reg |-> [n \in {} |-> None], logins |-> [h \in {} |-> "none"],
           inside |-> 0, calm |-> TRUE]

Init ==
    /\ reg \in InitialRegistry /\ logins \in InitialLogins
    /\ live = reg /\ pre = reg /\ snap = NoSnap
    /\ op = [name |-> "none"] /\ running = FALSE /\ prog = <<>> /\ ended = FALSE
    /\ errs = Nil /\ warn = Nil /\ result = Nil /\ skipped = FALSE
    /\ ops = 0 /\ faults = 0

Fault == faults < MaxFaults /\ faults' = faults + 1

-----------------------------------------------------------------------------
(* ProxyServer values.                                                     *)

\* The first kind of a set that a value has, or None.
FirstOf(server, kinds) ==
    LET has == {i \in DOMAIN Kinds : Kinds[i] \in kinds /\ server[Kinds[i]] # None}
    IN  IF has = {} THEN None ELSE Kinds[CHOOSE i \in has : \A j \in has : i <= j]

\* proxyServerHost: the first kind of any sort.
ProxyServerHost(server) ==
    IF server = None THEN None ELSE server[FirstOf(server, DOMAIN server)]

\* Mutant: the value of a SOCKS proxy names no kind.
ServerValueEmpty(p) ==
    [k \in DOMAIN NoServer |-> IF k \in {"http", "https"} /\ ~p.socks THEN p.host ELSE None]

\* proxyServerValue.
ServerValue(p) == [k \in DOMAIN NoServer |->
    IF k # "ftp" /\ (k = "socks") = p.socks THEN p.host ELSE None]

\* Mutant: only the kinds the package manages are kept.
MergeForgets(server, cfg) ==
    LET now == IF server = None THEN NoServer ELSE server
    IN  [k \in DOMAIN NoServer |-> IF k = "ftp" THEN None
                                   ELSE IF cfg[k] = None THEN now[k] ELSE cfg[k]]

\* mergeProxyServer: the kinds not named are kept, ftp too.
Merge(server, cfg) ==
    LET now == IF server = None THEN NoServer ELSE server
    IN  [k \in DOMAIN NoServer |-> IF k = "ftp" \/ cfg[k] = None THEN now[k] ELSE cfg[k]]

-----------------------------------------------------------------------------
(* The calls.  regBatch.run records a failure, regBatch.try ignores it.    *)

Call(do, name, value, must) == <<[do |-> do, name |-> name, value |-> value, must |-> must]>>

Run(name, value) == Call("add", name, value, TRUE)
TryDelete(name)  == Call("delete", name, None, FALSE)
Notify           == Call("notify", None, None, FALSE)     \* refreshWinINET
StoreLogin(h)    == Call("store", h, None, FALSE)
RemoveLogin(h)   == Call("remove", h, None, FALSE)

UsesContext(c) == c.do \in {"add", "delete"}

\* Mutant: the applications are told before the server is written.
SetGlobalNotifiesEarly(p) ==
    TryDelete("AutoConfigURL") \o Run("ProxyEnable", 1) \o Notify \o Run("ProxyServer", ServerValue(p))
    \o Run("ProxyOverride", Default) \o (IF p.user THEN StoreLogin(p.host) ELSE <<>>)

\* setGlobal.
SetGlobal(p) ==
    TryDelete("AutoConfigURL") \o Run("ProxyEnable", 1) \o Run("ProxyServer", ServerValue(p))
    \o Run("ProxyOverride", Default) \o (IF p.user THEN StoreLogin(p.host) ELSE <<>>) \o Notify

\* unsetGlobal; nothing tells the applications.
UnsetGlobal(host) ==
    Run("ProxyEnable", 0) \o TryDelete("ProxyServer") \o TryDelete("ProxyOverride")
    \o TryDelete("AutoConfigURL") \o (IF host = None THEN <<>> ELSE RemoveLogin(host))

SetGlobalPAC(url) == Run("AutoConfigURL", url) \o Run("ProxyEnable", 0) \o Notify

\* setGlobalMulti: the manual proxy is only touched when a kind is given.
NamesKind(cfg) == \E k \in Managed : cfg[k] # None

SetGlobalMulti(cfg) ==
    (IF NamesKind(cfg)
     THEN TryDelete("AutoConfigURL") \o Run("ProxyEnable", 1)
          \o Run("ProxyServer", Merge(reg["ProxyServer"], cfg))
     ELSE <<>>)
    \o (IF cfg["bypass"] = None THEN <<>> ELSE Run("ProxyOverride", cfg["bypass"])) \o Notify

PutBack(name) ==
    IF snap.reg[name] # None THEN Run(name, snap.reg[name])
    ELSE IF name = "ProxyEnable" THEN Run(name, 0) ELSE TryDelete(name)

PutAllBack == PutBack(Names[1]) \o PutBack(Names[2]) \o PutBack(Names[3]) \o PutBack(Names[4])

\* Mutant: the login of the temporary proxy is left.
LeavesAll(host) == <<>>

\* The login of the temporary proxy, unless it is the old one's host.
Leaves(host) == IF host \notin {None, ProxyServerHost(snap.reg["ProxyServer"])}
                THEN RemoveLogin(host) ELSE <<>>

\* Mutant: ProxyEnable is deleted before the applications are told.
RestoreGlobalEarly(host) ==
    PutAllBack \o Leaves(host)
    \o (IF snap.reg["ProxyEnable"] = None THEN TryDelete("ProxyEnable") ELSE <<>>) \o Notify

\* The function snapshotGlobal returns.
RestoreGlobal(host) ==
    PutAllBack \o Leaves(host) \o Notify
    \o (IF snap.reg["ProxyEnable"] = None THEN TryDelete("ProxyEnable") ELSE <<>>)

-----------------------------------------------------------------------------
(* The steps of an operation.                                              *)

Operations == [name : {"set"}, arg : Proxies] \cup [name : {"unset"}]
              \cup [name : {"pac"}, arg : Pac] \cup [name : {"multi"}, arg : Configs]

Program(o, host) ==
    IF      o.name = "set"   THEN SetGlobal(o.arg)
    ELSE IF o.name = "unset" THEN UnsetGlobal(host)
    ELSE IF o.name = "pac"   THEN SetGlobalPAC(o.arg)
    ELSE SetGlobalMulti(o.arg)

\* What every operation starts from; a snapshot that was restored is dropped.
Begins(o) ==
    /\ ~running /\ op' = o /\ pre' = reg
    /\ errs' = Nil /\ warn' = Nil
    /\ UNCHANGED <<reg, logins, live>>

Counted ==
    /\ ops < MaxOps /\ ops' = ops + 1
    /\ snap' = IF snap.open THEN [snap EXCEPT !.inside = @ + 1] ELSE NoSnap

Start(o) ==
    /\ Begins(o) /\ Counted
    /\ running' = TRUE /\ ended' = FALSE /\ result' = Nil /\ skipped' = FALSE
    /\ prog' = Program(o, ProxyServerHost(reg["ProxyServer"]))
    /\ UNCHANGED faults

\* Unset cannot read the host: it goes on without it.
StartBlind ==
    /\ Begins([name |-> "unset"]) /\ Counted /\ Fault
    /\ running' = TRUE /\ ended' = FALSE /\ result' = Nil /\ skipped' = TRUE
    /\ prog' = UnsetGlobal(None)

\* SetMulti cannot read what it would merge with: nothing is changed.
StartFails(o) ==
    /\ o.name = "multi" /\ NamesKind(o.arg)
    /\ Begins(o) /\ Counted /\ Fault
    /\ result' = Hard /\ skipped' = FALSE
    /\ UNCHANGED <<running, ended, prog>>

\* Mutant: a login that is not ours is overwritten.
StoreAnyway(h) == logins' = [logins EXCEPT ![h] = "ours"] /\ warn' = warn

\* storeProxyCredential.
Store(h) ==
    IF logins[h] = "foreign" THEN warn' = Warning /\ logins' = logins
    ELSE logins' = [logins EXCEPT ![h] = "ours"] /\ warn' = warn

\* removeProxyCredential.
Remove(h) == logins' = [logins EXCEPT ![h] = IF @ = "ours" THEN "none" ELSE @]

\* WinINET reads the settings, or writes the proxy it knows back first.
Refresh ==
    /\ reg' = IF reg["ProxyEnable"] # None \/ live["ProxyEnable"] = None THEN reg
              ELSE [reg EXCEPT !["ProxyEnable"] = live["ProxyEnable"],
                               !["ProxyServer"] = live["ProxyServer"]]
    /\ live' = reg'

CallWorks ==
    /\ running /\ prog # <<>>
    /\ LET c == Head(prog) IN
       \/ /\ UsesContext(c) /\ ~ended
          /\ reg' = [reg EXCEPT ![c.name] = c.value]
          /\ UNCHANGED <<logins, live, warn>>
       \/ c.do = "store" /\ Store(c.name) /\ UNCHANGED <<reg, live>>
       \/ c.do = "remove" /\ Remove(c.name) /\ UNCHANGED <<reg, live, warn>>
       \/ c.do = "notify" /\ Refresh /\ UNCHANGED <<logins, warn>>
    /\ prog' = Tail(prog)
    /\ UNCHANGED <<op, running, ended, errs, result, skipped, pre, snap, bounds>>

CallFails ==
    /\ running /\ prog # <<>>
    /\ LET c == Head(prog) IN
       /\ IF UsesContext(c) /\ ended THEN UNCHANGED faults ELSE Fault
       /\ errs' = IF c.must THEN Hard ELSE errs
       /\ warn' = IF c.do = "store" THEN Warning ELSE warn
       /\ skipped' = (skipped \/ (~c.must /\ c.do # "store"))
    /\ prog' = Tail(prog)
    /\ UNCHANGED <<reg, logins, live, op, running, ended, result, pre, snap, ops>>

\* The context ends: the reg calls that are left fail, the others do not.
Cancel ==
    /\ running /\ ~ended /\ \E i \in DOMAIN prog : UsesContext(prog[i])
    /\ Fault /\ ended' = TRUE
    /\ UNCHANGED <<reg, logins, live, op, running, prog, errs, warn, result, skipped, pre, snap,
                   ops>>

\* regBatch.finish.
Finish ==
    /\ running /\ prog = <<>>
    /\ running' = FALSE /\ result' = IF errs # Nil THEN errs ELSE warn
    /\ snap' = [snap EXCEPT !.calm = @ /\ errs = Nil /\ ~skipped,
                            !.open = @ /\ op.name # "restore"]
    /\ UNCHANGED <<reg, logins, live, op, prog, ended, errs, warn, skipped, pre, bounds>>

Snapshot ==
    /\ ~snap.open /\ ops < MaxOps /\ Begins([name |-> "snapshot"])
    /\ snap' = [open |-> TRUE, reg |-> reg, logins |-> logins, inside |-> 0, calm |-> TRUE]
    /\ result' = Nil
    /\ UNCHANGED <<running, prog, ended, skipped, bounds>>

\* readRegValue: a value that cannot be read is no absent one.
SnapshotFails ==
    /\ ~snap.open /\ ops < MaxOps /\ Begins([name |-> "snapshot"]) /\ Fault
    /\ result' = Hard
    /\ UNCHANGED <<running, prog, ended, skipped, snap, ops>>

Restore ==
    /\ snap.open /\ Begins([name |-> "restore"])
    /\ running' = TRUE /\ ended' = FALSE /\ result' = Nil
    /\ \/ prog' = RestoreGlobal(ProxyServerHost(reg["ProxyServer"]))
          /\ skipped' = FALSE /\ UNCHANGED faults
       \/ prog' = RestoreGlobal(None) /\ skipped' = TRUE /\ Fault   \* the host is unreadable
    /\ UNCHANGED <<snap, ops>>

Next == \/ \E o \in Operations : Start(o) \/ StartFails(o)
        \/ StartBlind \/ CallWorks \/ CallFails \/ Cancel \/ Finish
        \/ Snapshot \/ SnapshotFails \/ Restore

Spec == Init /\ [][Next]_vars

-----------------------------------------------------------------------------
(* What Get and GetConfig make of the values, and the applications too.    *)

\* readAutoConfigURL and ErrProxyNotEnabled: no manual proxy, maybe a PAC.
OnlyPac(r) == [kind |-> "pac", host |-> r["AutoConfigURL"]]

\* getGlobal: the first managed kind.
GetGlobal(r) ==
    IF r["ProxyEnable"] # 1 THEN OnlyPac(r)
    ELSE IF r["ProxyServer"] = None THEN [kind |-> None, host |-> None]
    ELSE LET k == FirstOf(r["ProxyServer"], Managed)
         IN  [kind |-> k, host |-> IF k = None THEN None ELSE r["ProxyServer"][k]]

\* getGlobalConfig: of a disabled proxy only the PAC is told.
GetGlobalConfig(r) ==
    LET on == r["ProxyEnable"] = 1 /\ r["ProxyServer"] # None
    IN  [f \in Managed \cup {"bypass", "pac"} |->
            IF f = "pac" THEN IF r["ProxyEnable"] = 1 /\ ~on THEN None ELSE r["AutoConfigURL"]
            ELSE IF ~on THEN None
            ELSE IF f = "bypass" THEN r["ProxyOverride"] ELSE r["ProxyServer"][f]]

-----------------------------------------------------------------------------
(* Properties.                                                             *)

Ended(name) == ~running /\ op.name = name
Success     == result = Nil \/ result = Warning

\* Every variable keeps its type.
TypeOK ==
    /\ {reg, live, pre} \subseteq Registry /\ logins \in [Host -> Login]
    /\ {running, ended, skipped, snap.open, snap.calm} \subseteq BOOLEAN
    /\ {errs, warn, result} \subseteq {Nil, Warning, Hard}
    /\ ops \in 0..MaxOps /\ faults \in 0..MaxFaults

\* "a change that did not happen is an error, not a success" (THREAT_MODEL,
\* O4), for what the code does not ignore: after Set the proxy is the only
\* one and on, and without a warning its login is stored; after SetPAC only
\* the PAC is used; after Unset the manual proxy is off; after SetMulti the
\* kinds given are in use and all others, also those the package does not
\* manage, are as they were, on or off ("fields left empty are not changed").
\* Get gives back what was set, SOCKS and PAC included.  A delete that fails
\* is ignored and may leave a PAC or an old server.  A SetMulti with a bypass
\* list alone is held to leaving the rest where ProxyEnable is there: where it
\* is missing, the notification at the end lets WinINET write its own back.
MultiDone(cfg) ==
    /\ reg["ProxyOverride"] = IF cfg["bypass"] = None THEN pre["ProxyOverride"] ELSE cfg["bypass"]
    /\ NamesKind(cfg) =>
          /\ reg["ProxyEnable"] = 1 /\ (skipped \/ reg["AutoConfigURL"] = None)
          /\ \A k \in DOMAIN NoServer : reg["ProxyServer"][k] =
                IF k \in Managed /\ cfg[k] # None THEN cfg[k]
                ELSE IF pre["ProxyServer"] = None THEN None ELSE pre["ProxyServer"][k]
    /\ ~NamesKind(cfg) /\ pre["ProxyEnable"] # None =>
          \A n \in {"ProxyEnable", "ProxyServer", "AutoConfigURL"} : reg[n] = pre[n]

SetDone(p) ==
    /\ reg["ProxyEnable"] = 1 /\ reg["ProxyOverride"] = Default
    /\ \A k \in DOMAIN NoServer :
          (reg["ProxyServer"][k] # None) <=> k \in (IF p.socks THEN {"socks"} ELSE {"http", "https"})
    /\ GetGlobal(reg) = [kind |-> IF p.socks THEN "socks" ELSE "http", host |-> p.host]
    /\ skipped \/ reg["AutoConfigURL"] = None
    /\ p.user => (logins[p.host] = "ours" \/ result = Warning)

SuccessMeansDone ==
    ~running /\ Success =>
        /\ op.name = "set"   => SetDone(op.arg)
        /\ op.name = "pac" =>
              /\ reg = [pre EXCEPT !["AutoConfigURL"] = op.arg, !["ProxyEnable"] = 0]
              /\ GetGlobal(reg) = [kind |-> "pac", host |-> op.arg]
        /\ op.name = "unset" =>
              /\ reg["ProxyEnable"] = 0
              /\ skipped \/ \A n \in DOMAIN reg \ {"ProxyEnable"} : reg[n] = None
        /\ op.name = "multi" => MultiDone(op.arg)

\* "the previous state back exactly": a restore without an error has put
\* back every value that was there, and, unless a failure was ignored,
\* removed every one that was not, the notification notwithstanding.
RestoreIsExact ==
    Ended("restore") /\ Success =>
        /\ \A n \in DOMAIN reg : snap.reg[n] # None => reg[n] = snap.reg[n]
        /\ skipped \/ reg = snap.reg

\* "which is what running applications need to notice the change"
\* (notifyWinINET): when Set, SetPAC, SetMulti or a restore has succeeded and
\* nothing was ignored, running applications use the proxy that Get tells.
\* Unset is not among them: it does not notify.
Acts(r) == [get |-> GetGlobal(r), config |-> GetGlobalConfig(r)]

ApplicationsFollow ==
    ~running /\ Success /\ ~skipped /\ op.name \in {"set", "pac", "multi", "restore"} =>
        Acts(live) = Acts(reg)

\* "Set does not overwrite, and Unset does not delete, an entry that belongs
\* to someone else" (winapi_windows.go); an entry of ours for another host
\* than the one set stays as it is, and a restore does not delete the login
\* for the proxy it puts back.
LoginsAreKept ==
    [][\A h \in Host : logins'[h] # logins[h] =>
          /\ logins[h] # "foreign"
          /\ op.name = "set" => h = op.arg.host
          /\ op.name = "restore" => h # ProxyServerHost(snap.reg["ProxyServer"])]_vars

\* "Credentials stored for a temporary proxy must not outlive it"
\* (snapshotGlobal): when WithProxy has made one change and taken it back,
\* and no call has failed, no login of ours is left that was not there,
\* except for the host of the proxy that was put back.
LoginsGo ==
    \A h \in Host \ {ProxyServerHost(snap.reg["ProxyServer"])} :
        logins[h] = "ours" => snap.logins[h] = "ours"

TemporaryLoginsGo ==
    Ended("restore") /\ Success /\ snap.inside <= 1 /\ snap.calm => LoginsGo

\* The same sentence, whatever became of the change.  A Set that fails before
\* ProxyServer is written, or whose context ends, still stores the login, and
\* the restore then finds the host of the old proxy there.
TemporaryLoginsAlwaysGo ==
    Ended("restore") /\ result = Nil /\ snap.inside <= 1 /\ ~skipped => LoginsGo
=============================================================================
