-------------------------- MODULE MCLinuxBackend ---------------------------
(***************************************************************************)
(* Small instances of LinuxBackend for TLC: one proxy of each scheme, and  *)
(* the configurations of SetMulti that give one kind, two kinds, only a    *)
(* bypass list, and nothing.                                               *)
(***************************************************************************)
EXTENDS LinuxContract, TLC

CONSTANTS h1, s1, b1

Cfg(http, https, socks, bypass) ==
    [f \in Field \cup {"bypass"} |-> CASE f = "http" -> http [] f = "https" -> https
                                       [] f = "socks" -> socks [] f = "bypass" -> bypass]

MCConfigs == {Cfg(h1, None, None, None), Cfg(None, h1, s1, b1),
              Cfg(None, None, None, b1), Cfg(None, None, None, None)}

Machine(g, k, r, s, drops, fails) ==
    [gnome |-> g, kde |-> k, root |-> r, sudo |-> s, busMayDrop |-> drops, probeMayFail |-> fails]

\* GNOME through sudo, whose session bus may go away, KDE for a user, who may
\* not write /etc/environment, and no desktop at all.
MCSystems == {Machine(TRUE, FALSE, TRUE, TRUE, TRUE, FALSE),
              Machine(FALSE, TRUE, FALSE, FALSE, FALSE, FALSE),
              Machine(FALSE, FALSE, TRUE, FALSE, FALSE, FALSE)}

Together   == {Machine(TRUE, TRUE, TRUE, TRUE, FALSE, FALSE)}
Headless   == {Machine(FALSE, FALSE, TRUE, FALSE, FALSE, FALSE)}
GnomeOnly  == {Machine(TRUE, FALSE, TRUE, FALSE, FALSE, FALSE)}
Unreliable == {Machine(TRUE, FALSE, TRUE, FALSE, FALSE, TRUE)}
=============================================================================
