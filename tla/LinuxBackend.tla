---------------------------- MODULE LinuxBackend ----------------------------
(***************************************************************************)
(* The Linux backend (sysproxy_linux.go, kde_linux.go, etcenv.go): GNOME   *)
(* through gsettings, KDE through kwriteconfig, and /etc/environment.      *)
(*                                                                         *)
(* One process calls one operation after the other.  An operation is a     *)
(* program: the commands it gives to the desktop tools, in order, each of  *)
(* which may fail on its own; then the write of /etc/environment; then     *)
(* steps.finish makes one error of what went wrong.  A proxy URL is a      *)
(* value; its host and its port, written by separate commands, both stand  *)
(* for it.  External: gsettings without a session bus accepts a write and  *)
(* loses it (comment of steps.verify).                                     *)
(***************************************************************************)
EXTENDS ProxyErrors, Sequences, Naturals

CONSTANTS
    None,          \* an empty value
    HttpProxy, SocksProxy,   \* the proxy URLs, by scheme
    WithUser,      \* those that carry credentials
    Pac, Bypass,   \* PAC URLs and bypass lists
    Configs,       \* the configurations given to SetMulti
    Systems,       \* the systems to run on, see System
    MaxOps, MaxFaults

\* The tools that are installed, whether /etc/environment may be written,
\* whether the process runs through sudo, whether the session bus may go away
\* and whether the probe for GNOME may fail although it is there: gsettings
\* runs under the caller's context, which may have ended.
System == [gnome : BOOLEAN, kde : BOOLEAN, root : BOOLEAN, sudo : BOOLEAN,
           busMayDrop : BOOLEAN, probeMayFail : BOOLEAN]

Proxy == HttpProxy \cup SocksProxy
Field == {"http", "https", "socks"}

Config == [Field \cup {"bypass"} -> Proxy \cup Bypass \cup {None}]

ASSUME LinuxAssumption ==
    /\ Configs \subseteq {cfg \in Config : /\ {cfg["http"], cfg["https"]} \subseteq HttpProxy \cup {None}
                                          /\ cfg["socks"] \in SocksProxy \cup {None}
                                          /\ cfg["bypass"] \in Bypass \cup {None}}
    /\ HttpProxy \cap SocksProxy = {} /\ WithUser \subseteq Proxy
    /\ None \notin Proxy \cup Pac \cup Bypass
    /\ Systems \subseteq System
    /\ {MaxOps, MaxFaults} \subseteq Nat

\* gnomeKeys and kdeKeys.
Mode == <<"gnome", "mode">>
GnomeKey == {Mode, <<"gnome", "autoconfig-url">>, <<"gnome", "ignore-hosts">>}
            \cup (Field \X {"host", "port"})
KdeField == {"http", "https", "ftp", "socks"}
KdeKey == {<<"kde", k>> : k \in {"ProxyType", "NoProxyFor", "Script"} \cup KdeField}

Key == GnomeKey \cup KdeKey

Default == [k \in Key |-> IF k = Mode THEN "none" ELSE IF k = <<"kde", "ProxyType">> THEN "0" ELSE None]

VARIABLES
    sys,      \* the system, never changed
    desk,     \* the stored value of every GNOME and KDE key
    etc,      \* /etc/environment: our block, and an unmarked proxy line
    bus,      \* the session bus is reachable
    op,       \* the operation under way, or the last one
    running,  \* whether it is under way
    gnome,    \* what its probe (gnomeUsable) said
    prog,     \* the commands it has left
    errs,     \* the failures collected by steps
    result,   \* the error of the last operation
    pre,      \* desk and etc when the operation began
    snap,     \* what the open WithProxy saved, or NoSnap
    origin,   \* desk and etc when it was saved
    ops, faults

machine == <<sys, desk, etc, bus>>
vars == <<sys, desk, etc, bus, op, running, prog, gnome, errs, result, pre,
          snap, origin, ops, faults>>

NoSnap == [open |-> FALSE, gnome |-> FALSE, desk |-> Default, etc |-> [block |-> None, own |-> FALSE]]

Init ==
    /\ sys \in Systems
    /\ desk = Default
    /\ etc \in [block : {None}, own : BOOLEAN]
    /\ bus = TRUE
    /\ op = [name |-> "none"] /\ running = FALSE /\ prog = <<>> /\ gnome = FALSE
    /\ errs = Nil /\ result = Nil
    /\ pre = [desk |-> desk, etc |-> etc]
    /\ snap = NoSnap /\ origin = [desk |-> desk, etc |-> etc]
    /\ ops = 0 /\ faults = 0

Gnome == sys.gnome
Kde   == sys.kde

\* What gnomeUsable may answer.
Probes == IF sys.probeMayFail THEN {Gnome, FALSE} ELSE {Gnome}

Fault == faults < MaxFaults /\ faults' = faults + 1

-----------------------------------------------------------------------------
(* The programs.                                                           *)

gs(key, value)     == <<[do |-> "set", key |-> key, value |-> value]>>
kde(key, value)    == <<[do |-> "set", key |-> <<"kde", key>>, value |-> value]>>
verify(key, value) == <<[do |-> "verify", key |-> key, value |-> value]>>

When(cond, commands) == IF cond THEN commands ELSE <<>>

\* Mutant: the host is cleared before it is written.
EndpointClearsFirst(f, p) == gs(<<f, "host">>, None) \o gs(<<f, "host">>, p) \o gs(<<f, "port">>, p)

Endpoint(f, p) == gs(<<f, "host">>, p) \o gs(<<f, "port">>, p)

\* Mutant: no read-back.
SetProgramUnverified(g, p) ==
    LET For(socks) == IF socks = (p \in SocksProxy) THEN p ELSE None IN
    When(g, gs(Mode, "manual") \o Endpoint("http", For(FALSE))
            \o Endpoint("https", For(FALSE)) \o Endpoint("socks", For(TRUE)))

\* setGlobal: the scheme decides the field, the other fields are cleared.
SetProgram(g, p) ==
    LET For(socks) == IF socks = (p \in SocksProxy) THEN p ELSE None IN
    When(g, gs(Mode, "manual") \o Endpoint("http", For(FALSE))
            \o Endpoint("https", For(FALSE)) \o Endpoint("socks", For(TRUE))
            \o verify(Mode, "manual"))
    \o When(Kde, kde("ProxyType", "1") \o kde("http", For(FALSE)) \o kde("https", For(FALSE))
                 \o kde("ftp", For(FALSE)) \o kde("socks", For(TRUE)))

\* unsetGlobal: GNOME keeps the hosts, KDE loses the URLs.
UnsetProgram(g) ==
    When(g, gs(Mode, "none") \o verify(Mode, "none"))
    \o When(Kde, kde("ProxyType", "0") \o kde("http", None) \o kde("https", None)
                 \o kde("ftp", None) \o kde("socks", None) \o kde("Script", None))

PacProgram(g, u) ==
    When(g, gs(Mode, "auto") \o gs(<<"gnome", "autoconfig-url">>, u) \o verify(Mode, "auto"))
    \o When(Kde, kde("ProxyType", "2") \o kde("Script", u))

\* setGlobalMulti: a field left empty is not written.
MultiProgram(g, cfg) ==
    LET any == \E f \in Field : cfg[f] # None
        Field1(f) == When(cfg[f] # None, Endpoint(f, cfg[f]))
        Kde1(f) == When(cfg[f] # None, kde(f, cfg[f]))
    IN
    When(g, When(any, gs(Mode, "manual")) \o Field1("http") \o Field1("https") \o Field1("socks")
            \o When(cfg["bypass"] # None, gs(<<"gnome", "ignore-hosts">>, cfg["bypass"]))
            \o When(any, verify(Mode, "manual")))
    \o When(Kde, When(any, kde("ProxyType", "1")) \o Kde1("http") \o Kde1("https") \o Kde1("socks")
                 \o When(cfg["bypass"] # None, kde("NoProxyFor", cfg["bypass"])))

\* Mutant: the bypass list is not put back.
RestoreProgramNoBypass(g) ==
    LET Back(k) == gs(k, snap.desk[k])
        Both(f) == Back(<<f, "host">>) \o Back(<<f, "port">>)
        KdeBack(k) == kde(k, snap.desk[<<"kde", k>>])
    IN
    When(g, Back(Mode) \o verify(Mode, snap.desk[Mode])
         \o Back(<<"gnome", "autoconfig-url">>)
         \o Both("http") \o Both("https") \o Both("socks"))
    \o When(Kde, KdeBack("ProxyType") \o KdeBack("http") \o KdeBack("https") \o KdeBack("ftp")
                 \o KdeBack("socks") \o KdeBack("Script"))

\* The restore of snapshotGlobal, in the order of gnomeKeys and kdeKeys.
RestoreProgram(g) ==
    LET Back(k) == gs(k, snap.desk[k])
        Both(f) == Back(<<f, "host">>) \o Back(<<f, "port">>)
        KdeBack(k) == kde(k, snap.desk[<<"kde", k>>])
    IN
    When(g, Back(Mode) \o verify(Mode, snap.desk[Mode])
         \o Back(<<"gnome", "autoconfig-url">>) \o Back(<<"gnome", "ignore-hosts">>)
         \o Both("http") \o Both("https") \o Both("socks"))
    \o When(Kde, KdeBack("ProxyType") \o KdeBack("http") \o KdeBack("https") \o KdeBack("ftp")
                 \o KdeBack("socks") \o KdeBack("NoProxyFor") \o KdeBack("Script"))

Program(g, o) == IF      o.name = "set"   THEN SetProgram(g, o.arg)
                 ELSE IF o.name = "unset" THEN UnsetProgram(g)
                 ELSE IF o.name = "pac"   THEN PacProgram(g, o.arg)
                 ELSE MultiProgram(g, o.arg)

-----------------------------------------------------------------------------
(* The steps of an operation.                                              *)

Operations == [name : {"set"}, arg : Proxy] \cup [name : {"unset"}]
              \cup [name : {"pac"}, arg : Pac] \cup [name : {"multi"}, arg : Configs]

Start(o, g) ==
    /\ ~running /\ ops < MaxOps /\ g \in Probes
    /\ op' = o /\ gnome' = g /\ ops' = ops + 1
    /\ pre' = [desk |-> desk, etc |-> etc]
    /\ errs' = Nil
    /\ IF o.name \in {"pac", "multi"} /\ ~g /\ ~Kde
       THEN running' = FALSE /\ prog' = <<>> /\ result' = Hard      \* noDesktopTool
       ELSE running' = TRUE /\ prog' = Program(g, o) /\ result' = Nil
    /\ UNCHANGED <<machine, snap, origin, faults>>

\* The context of the operation ends, the caller's or, in a restore, the one
\* with restoreTimeout: every command after that fails.
Cancel ==
    /\ running /\ prog # <<>>
    /\ prog' = <<>> /\ errs' = Hard
    /\ UNCHANGED <<machine, op, running, gnome, result, pre, snap, origin, ops, faults>>

BusDrops ==
    /\ sys.busMayDrop /\ bus /\ ~running
    /\ bus' = FALSE
    /\ UNCHANGED <<sys, desk, etc, op, running, prog, gnome, errs, result, pre, snap,
                   origin, ops, faults>>

CommandWorks ==
    /\ running /\ prog # <<>>
    /\ LET c == Head(prog) IN
       /\ desk' = IF c.do = "set" /\ (bus \/ c.key \in KdeKey)
                  THEN [desk EXCEPT ![c.key] = c.value] ELSE desk
       /\ errs' = IF c.do = "verify" /\ desk[c.key] # c.value THEN Hard ELSE errs
    /\ prog' = Tail(prog)
    /\ UNCHANGED <<sys, etc, bus, op, running, gnome, result, pre, snap, origin, ops, faults>>

CommandFails ==
    /\ running /\ prog # <<>> /\ Fault
    /\ errs' = Hard
    /\ prog' = Tail(prog)
    /\ UNCHANGED <<machine, op, running, gnome, result, pre, snap, origin, ops>>

-----------------------------------------------------------------------------
(* /etc/environment and the end of an operation.                           *)

\* What writeEtcEnvironment, clearEtcEnvironment and restoreEtcState leave.
EtcWanted == IF      op.name = "set"     THEN [block |-> op.arg, own |-> FALSE]
             ELSE IF op.name = "unset"   THEN [block |-> None, own |-> FALSE]
             ELSE IF op.name = "restore" THEN snap.etc
             ELSE etc

\* A write that would change nothing is skipped, but by Set.
EtcWrites == op.name = "set" \/ EtcWanted # etc

FinishWith(etcErr) ==
    /\ result' = IF op.name \in {"set", "unset"}
                 THEN StepsFinish(errs, gnome \/ Kde, FALSE, etcErr, sys.sudo)
                 ELSE IF op.name = "restore" THEN StepsFinish(errs, TRUE, TRUE, etcErr, sys.sudo)
                 ELSE StepsFinish(errs, TRUE, FALSE, Nil, sys.sudo)
    /\ running' = FALSE
    /\ snap' = IF op.name = "restore" THEN NoSnap ELSE snap
    /\ UNCHANGED <<sys, desk, bus, op, prog, gnome, errs, pre, origin, ops>>

Finish ==
    /\ running /\ prog = <<>>
    /\ EtcWrites => sys.root
    /\ etc' = EtcWanted
    /\ FinishWith(IF op.name = "set" /\ op.arg \in WithUser THEN Warning ELSE Nil)
    /\ UNCHANGED faults

\* A write without permission fails; so may any read or write of the file,
\* and a clear or a restore reads it even when there is nothing to write.
FinishEtcFails(permission) ==
    /\ running /\ prog = <<>> /\ op.name \in {"set", "unset", "restore"}
    /\ permission => ~sys.root
    /\ IF permission /\ EtcWrites THEN UNCHANGED faults ELSE Fault
    /\ UNCHANGED etc
    /\ FinishWith(EtcEnvironmentResult(Hard, permission))

-----------------------------------------------------------------------------
(* SnapshotGlobal, and the restore it returns.                             *)

Snapshot(g) ==
    /\ ~running /\ ~snap.open /\ ops < MaxOps /\ g \in Probes
    /\ snap' = [open |-> TRUE, gnome |-> g, etc |-> etc, desk |-> desk]
    /\ origin' = [desk |-> desk, etc |-> etc]
    /\ op' = [name |-> "snapshot"] /\ result' = Nil
    /\ UNCHANGED <<machine, running, prog, gnome, errs, pre, ops, faults>>

\* A key that cannot be read: nothing is saved.
SnapshotFails(g) ==
    /\ ~running /\ ~snap.open /\ ops < MaxOps /\ g \in Probes /\ Fault
    /\ op' = [name |-> "snapshot"] /\ result' = Hard
    /\ UNCHANGED <<machine, running, prog, gnome, errs, pre, snap, origin, ops>>

Restore ==
    /\ ~running /\ snap.open
    /\ op' = [name |-> "restore"] /\ running' = TRUE /\ prog' = RestoreProgram(snap.gnome)
    /\ gnome' = snap.gnome /\ errs' = Nil /\ result' = Nil
    /\ pre' = [desk |-> desk, etc |-> etc]
    /\ UNCHANGED <<machine, snap, origin, ops, faults>>

Next == \/ \E o \in Operations, g \in BOOLEAN : Start(o, g)
        \/ Cancel \/ BusDrops \/ CommandWorks \/ CommandFails \/ Finish
        \/ \E permission \in BOOLEAN : FinishEtcFails(permission)
        \/ \E g \in BOOLEAN : Snapshot(g) \/ SnapshotFails(g)
        \/ Restore

Spec == Init /\ [][Next]_vars

-----------------------------------------------------------------------------
(* What Get and GetConfig read.                                            *)

Shown == Field \cup {"pac"}
NotSet == [f \in Shown |-> None]

Endpoints(d, f) == LET host == d[<<f, "host">>]
                       port == d[<<f, "port">>]
                   IN  IF None \in {host, port} THEN None
                       ELSE IF host = port THEN host ELSE <<host, port>>

GnomeConfig(d) ==
    IF d[Mode] = "auto" THEN [NotSet EXCEPT !["pac"] = d[<<"gnome", "autoconfig-url">>]]
    ELSE IF d[Mode] = "manual" THEN [f \in Shown |-> IF f \in Field THEN Endpoints(d, f) ELSE None]
    ELSE NotSet

KdeConfig(d) ==
    IF d[<<"kde", "ProxyType">>] = "2" THEN [NotSet EXCEPT !["pac"] = d[<<"kde", "Script">>]]
    ELSE IF d[<<"kde", "ProxyType">>] = "1"
    THEN [f \in Shown |-> IF f \in Field THEN d[<<"kde", f>>] ELSE None]
    ELSE NotSet

\* GNOME is asked first, KDE when GNOME has nothing.
GetGlobalConfig(d) == IF Gnome /\ GnomeConfig(d) # NotSet THEN GnomeConfig(d)
                      ELSE IF Kde THEN KdeConfig(d) ELSE NotSet

\* Get: the first kind that is set; only KDE reports a PAC URL.
First(cfg, kinds) == LET set == {i \in DOMAIN kinds : cfg[kinds[i]] # None} IN
                     IF set = {} THEN None
                     ELSE cfg[kinds[CHOOSE i \in set : \A j \in set : i <= j]]

GetGlobal(d) ==
    LET fromGnome == IF Gnome THEN First(GnomeConfig(d), <<"http", "https", "socks">>) ELSE None
    IN  IF fromGnome # None THEN fromGnome
        ELSE IF Kde THEN First(KdeConfig(d), <<"pac", "http", "https", "socks">>) ELSE None

-----------------------------------------------------------------------------
(* Properties.                                                             *)

Ended(name) == ~running /\ op.name = name
Success == result = Nil \/ IsNonCritical(result)

\* Every variable keeps its type.
TypeOK ==
    /\ sys \in Systems
    /\ DOMAIN desk = Key
    /\ etc \in [block : Proxy \cup {None}, own : BOOLEAN]
    /\ {bus, running} \subseteq BOOLEAN
    /\ errs \in Error /\ result \in Error
    /\ ops \in 0..MaxOps /\ faults \in 0..MaxFaults

\* "The library reports the truth: a change that did not happen is an error"
\* (THREAT_MODEL, O4), and a warning means the rest was done (errors.go).
\* So after Set, Unset or SetPAC without a hard error every desktop shows
\* exactly what was asked, whatever the operations before it and whichever
\* of its commands failed, and Get gives it back; after SetMulti the fields
\* given are shown and no key of a field left empty has changed.  While the
\* session bus is gone the mode at least is what was asked: steps.verify is
\* for that.
Only(p) == [f \in Shown |-> IF (f \in {"http", "https"} /\ p \in HttpProxy)
                              \/ (f = "socks" /\ p \in SocksProxy) THEN p ELSE None]

Shows(cfg) == /\ Gnome => GnomeConfig(desk) = cfg
              /\ Kde => KdeConfig(desk) = cfg

MultiDone(cfg) ==
    /\ \A f \in Field : cfg[f] # None =>
          /\ Gnome => GnomeConfig(desk)[f] = cfg[f]
          /\ Kde => KdeConfig(desk)[f] = cfg[f]
    /\ \A f \in Field : cfg[f] = None =>
          \A k \in {<<f, "host">>, <<f, "port">>, <<"kde", f>>} : desk[k] = pre.desk[k]
    /\ LET wanted(k) == IF cfg["bypass"] = None THEN pre.desk[k] ELSE cfg["bypass"] IN
       /\ Gnome => desk[<<"gnome", "ignore-hosts">>] = wanted(<<"gnome", "ignore-hosts">>)
       /\ Kde => desk[<<"kde", "NoProxyFor">>] = wanted(<<"kde", "NoProxyFor">>)
    /\ (\A f \in Field : cfg[f] = None) => GetGlobalConfig(desk) = GetGlobalConfig(pre.desk)

ModeIsStored ==
    /\ op.name = "set"     => desk[Mode] = "manual"
    /\ op.name = "unset"   => desk[Mode] = "none"
    /\ op.name = "pac"     => desk[Mode] = "auto"
    /\ op.name = "restore" => desk[Mode] = origin.desk[Mode]
    /\ op.name = "multi"   => \/ desk[Mode] = "manual"
                              \/ desk[Mode] = pre.desk[Mode] /\ \A f \in Field : op.arg[f] = None

SuccessMeansDone ==
    ~running /\ Success =>
    /\ Gnome => ModeIsStored
    /\ bus =>
       /\ op.name = "set"   => Shows(Only(op.arg)) /\ (Gnome \/ Kde => GetGlobal(desk) = op.arg)
       /\ op.name = "unset" => Shows(NotSet) /\ GetGlobal(desk) = None
       /\ op.name = "pac"   => Shows([NotSet EXCEPT !["pac"] = op.arg])
       /\ op.name = "multi" => MultiDone(op.arg)

\* "The restore is exact, not a re-Set" (README): when the restore reports
\* no failure every desktop key and /etc/environment are as the snapshot
\* found them, whatever ran in between.  And one in which nothing failed
\* reports nothing: a WithProxy of an unprivileged user does not end in an
\* error about /etc/environment, which it could not change in the first
\* place (restoreEtcState writes only if the file changed), nor in the sudo
\* warning.
RestoreIsExact ==
    Ended("restore") =>
       /\ Success => (bus => desk = origin.desk) /\ (result = Nil => etc = origin.etc)
       /\ errs = Nil /\ faults = 0 => result = Nil

\* "Fields left empty are not changed, on every OS" (README): SetMulti does
\* not make a kind of proxy appear that it was not given.
StaleProxyStaysOff ==
    Ended("multi") /\ Success =>
       \A f \in Field : op.arg[f] = None =>
          GetGlobalConfig(desk)[f] \in {None, GetGlobalConfig(pre.desk)[f]}

\* Credentials that are left out of /etc/environment are only a warning:
\* "the returned error is non-critical and the rest of the file has been
\* written" (writeEtcEnvironment).
OmittedCredentialsAreAWarning ==
    Ended("set") /\ errs = Nil /\ etc.block = op.arg => "hard" \notin result
=============================================================================
