----------------------------- MODULE MCRcFiles -----------------------------
(***************************************************************************)
(* Small instances of RcFiles for TLC.  The files to start with: none, an  *)
(* empty one without a block, the lines of an old version, the user's own  *)
(* bypass list, our block followed by a line of the user's, a second block *)
(* behind the first, and a begin marker without an end.                    *)
(***************************************************************************)
EXTENDS RcFiles, TLC

CONSTANTS p1, p2, d

MCPaths == <<".profile", ".zshrc">>

MCUserLine == Plain("text")

Block(body) == <<Plain("begin")>> \o body \o <<Plain("end")>>

Old    == Joined(<<Plain("blank"), Export("http_proxy", p2)>>)
Mixed  == Joined(<<[Plain("assign") EXCEPT !.var = "no_proxy", !.val = p2]>>
                 \o Block(<<Export("http_proxy", p2), Export("AUTOPROXY", p2)>>)
                 \o <<Plain("text")>>)
OnlyOurs == Joined(Block(<<Export("http_proxy", p2)>>))
Twice  == Joined(Block(<<Export("no_proxy", p2)>>) \o <<Plain("text")>>
                 \o Block(<<Export("http_proxy", p2)>>))
Broken == [lines |-> <<Plain("begin"), Plain("text")>>, nl |-> FALSE]

MCFiles   == {Missing, Empty, Old, Mixed, OnlyOurs, Twice, Broken}

\* One file of any kind, a second one, and the ~/.zshrc of the time before
\* ZDOTDIR was set.
MCHomes == {home \in [Path -> MCFiles] : /\ home[".zshrc"] \in {Missing, Mixed}
                                        /\ home["home"] \in {Missing, Old}}

\* For two goroutines: files with our block or without one.
FewHomes == [Path -> {Missing, Mixed, OnlyOurs}]

Cfg(http, socks) == [n \in Vars \ {"AUTOPROXY"} |->
                       CASE n = "http_proxy" -> http [] n = "all_proxy" -> socks [] OTHER -> ""]

MCConfigs == {Cfg(p1, ""), Cfg("", p1)}

\* None of these files has markers that are not paired, but for one that only
\* begins.
ASSUME MCTidy == TidyHomes
=============================================================================
