--------------------------- MODULE MCCommandLine ---------------------------
(***************************************************************************)
(* A small instance of CommandLine and DarwinBackend for TLC: two network  *)
(* services; each starts clean, or with a proxy of the user's that is off, *)
(* one that asks for a login, a PAC URL and a bypass list.                 *)
(***************************************************************************)
EXTENDS CommandLine, TLC

CONSTANTS a, b, p1, p2, d1, d2

P(server, socks, user) == [server |-> server, socks |-> socks, user |-> user]

MCProxies == {P(a, FALSE, TRUE), P(a, TRUE, FALSE)}

Cfg(web, socks, bypass) == [k \in Kind \cup {"bypass"} |->
    CASE k = "web" -> web [] k = "socks" -> socks [] k = "bypass" -> bypass [] OTHER -> None]

MCConfigs == {Cfg(a, None, None), Cfg(None, a, d1), Cfg(None, None, d1)}

Off   == [server |-> None, on |-> FALSE, auth |-> FALSE]
Clean == [proxy |-> [k \in Kind |-> Off], url |-> None, auto |-> FALSE, bypass |-> None]

MCInitialStates ==
    {Clean,
     [Clean EXCEPT !.proxy["web"] = [server |-> b, on |-> FALSE, auth |-> FALSE],
                   !.proxy["socks"] = [server |-> b, on |-> TRUE, auth |-> TRUE],
                   !.url = p2, !.auto = TRUE, !.bypass = d2]}

MCDisabled == {{}, {"wifi", "usb"}}

MCOrder == <<"wifi", "usb">>
=============================================================================
