--------------------------- MODULE LinuxContract ---------------------------
(***************************************************************************)
(* LinuxBackend as an implementation of BackendContract: what each         *)
(* operation asks of the desktops and of /etc/environment, and what of the *)
(* state a caller relies on.                                               *)
(***************************************************************************)
EXTENDS LinuxBackend

-----------------------------------------------------------------------------
(* What the operations ask for.  `old` is the desktop before.              *)

HttpKeys  == ({"http", "https"} \X {"host", "port"})
             \cup {<<"kde", f>> : f \in {"http", "https", "ftp"}}
SocksKeys == ({"socks"} \X {"host", "port"}) \cup {<<"kde", "socks">>}

SetWant(p, old) ==
    [k \in Key |-> IF k = Mode THEN "manual"
                   ELSE IF k = <<"kde", "ProxyType">> THEN "1"
                   ELSE IF k \in HttpKeys THEN (IF p \in SocksProxy THEN None ELSE p)
                   ELSE IF k \in SocksKeys THEN (IF p \in SocksProxy THEN p ELSE None)
                   ELSE old[k]]

UnsetWant(old) ==
    [k \in Key |-> IF k = Mode THEN "none"
                   ELSE IF k = <<"kde", "ProxyType">> THEN "0"
                   ELSE IF k \in {<<"kde", f>> : f \in KdeField \cup {"Script"}} THEN None
                   ELSE old[k]]

PacWant(u, old) ==
    [k \in Key |-> IF k = Mode THEN "auto"
                   ELSE IF k = <<"kde", "ProxyType">> THEN "2"
                   ELSE IF k \in {<<"gnome", "autoconfig-url">>, <<"kde", "Script">>} THEN u
                   ELSE old[k]]

AnyOf(cfg) == \E f \in Field : cfg[f] # None

KeysOf(f) == {<<f, "host">>, <<f, "port">>, <<"kde", f>>}

MultiWant(cfg, old) ==
    [k \in Key |-> IF k = Mode /\ AnyOf(cfg) THEN "manual"
                   ELSE IF k = <<"kde", "ProxyType">> /\ AnyOf(cfg) THEN "1"
                   ELSE IF k \in KeysOf("http") /\ cfg["http"] # None THEN cfg["http"]
                   ELSE IF k \in KeysOf("https") /\ cfg["https"] # None THEN cfg["https"]
                   ELSE IF k \in KeysOf("socks") /\ cfg["socks"] # None THEN cfg["socks"]
                   ELSE IF k \in {<<"gnome", "ignore-hosts">>, <<"kde", "NoProxyFor">>}
                           /\ cfg["bypass"] # None THEN cfg["bypass"]
                   ELSE old[k]]

\* What operation o asks of a desktop that was `old` when it began; `back` is
\* what a restore puts back.
Want(o, old, back) ==
    IF      o.name = "set"   THEN SetWant(o.arg, old)
    ELSE IF o.name = "unset" THEN UnsetWant(old)
    ELSE IF o.name = "pac"   THEN PacWant(o.arg, old)
    ELSE IF o.name = "multi" THEN MultiWant(o.arg, old)
    ELSE back

\* The same of /etc/environment, which SetPAC and SetMulti leave alone.
EtcWant(o, old, back) ==
    IF      o.name = "set"     THEN [block |-> o.arg, own |-> FALSE]
    ELSE IF o.name = "unset"   THEN [block |-> None, own |-> FALSE]
    ELSE IF o.name = "restore" THEN back
    ELSE old

-----------------------------------------------------------------------------
(* The implementation.                                                     *)

EtcKey == <<"etc", "environment">>

\* A desktop and /etc/environment as one set of settings.
Settings(d, e) == [k \in Key \cup {EtcKey} |-> IF k = EtcKey THEN e ELSE d[k]]

\* The keys of the desktops that system m has.
Here(m) == {k \in Key : (k \in GnomeKey => m.gnome) /\ (k \in KdeKey => m.kde)}

\* A desktop that is not installed stays as it is.
Wanted == LET want == Want(op, pre.desk, origin.desk)
          IN  [k \in Key |-> IF k \in Here(sys) THEN want[k] ELSE pre.desk[k]]

Goal == Settings(Wanted, EtcWant(op, pre.etc, origin.etc))

Task == IF ~running THEN "idle" ELSE IF op.name = "restore" THEN "restore" ELSE "change"

Verdict == IF running \/ op.name = "none" THEN "none"
           ELSE IF result = Nil THEN "ok"
           ELSE IF IsNonCritical(result) THEN "warning" ELSE "failure"

Contract == INSTANCE BackendContract WITH
               Key     <- Key \cup {EtcKey},
               Aside   <- {EtcKey},
               store   <- Settings(desk, etc),
               task    <- Task,
               goal    <- IF running THEN Goal ELSE Settings(desk, etc),
               lossy   <- IF bus THEN {} ELSE GnomeKey \ {Mode},
               open    <- snap.open,
               saved   <- Settings(origin.desk, origin.etc),
               verdict <- Verdict

\* What the Set calls and WithProxy rely on: an operation that is cut off or
\* fails anywhere has left every setting as it was or as asked, none that it
\* was not to change has changed at any moment, an end without an error
\* means that every setting asked for is there (without a session bus, that the
\* mode is), and a restore asks for exactly what the snapshot saw.
KeepsContract == Contract!Spec
=============================================================================
