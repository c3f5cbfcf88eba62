-------------------------- MODULE MCWindowsBackend --------------------------
(***************************************************************************)
(* A small instance of WindowsBackend for TLC: two proxy hosts; a key that *)
(* is empty, one with a proxy for some kinds that is on or off, one with a *)
(* PAC; logins of ours and of somebody else for the same hosts.            *)
(***************************************************************************)
EXTENDS WindowsBackend, TLC

CONSTANTS a, b, p1, p2, d1, d2

MCProxies == {[host |-> a, socks |-> FALSE, user |-> TRUE],
              [host |-> b, socks |-> TRUE, user |-> TRUE]}

Cfg(http, socks, bypass) == [k \in Managed \cup {"bypass"} |->
    CASE k = "http" -> http [] k = "socks" -> socks [] k = "bypass" -> bypass [] OTHER -> None]

MCConfigs == {Cfg(a, None, None), Cfg(None, a, d1), Cfg(None, None, d1)}

Empty == [ProxyEnable |-> None, ProxyServer |-> None, ProxyOverride |-> None,
          AutoConfigURL |-> None]

UserServer(on) == [Empty EXCEPT !["ProxyEnable"] = on, !["ProxyOverride"] = d2,
    !["ProxyServer"] = [NoServer EXCEPT !["https"] = b, !["ftp"] = a]]

MCRegistry == {Empty, UserServer(1), [UserServer(0) EXCEPT !["AutoConfigURL"] = p2]}

MCLogins == {[h \in Host |-> "none"], [h \in Host |-> IF h = a THEN "foreign" ELSE "ours"],
             [h \in Host |-> IF h = b THEN "foreign" ELSE "none"]}
=============================================================================
