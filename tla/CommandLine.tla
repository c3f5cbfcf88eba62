---------------------------- MODULE CommandLine ----------------------------
(***************************************************************************)
(* The command line (cmd/sysproxy/main.go) on macOS: what the commands     *)
(* print and the exit code a script sees.  set, unset and pac are the      *)
(* operations of DarwinBackend, each in a process of its own with a        *)
(* deadline of ten seconds, and end in an exit code.  get changes nothing: *)
(* it is not an action, and the properties speak of every answer it may    *)
(* give in a state, for every read that may fail and every route.  Only    *)
(* the global scope reaches the system: with the other two a command       *)
(* changes its own environment, or the files of RcFiles.                   *)
(*                                                                         *)
(* Wording, redaction and the parsing of flags are left out, and so is     *)
(* check, which touches nothing.                                           *)
(***************************************************************************)
EXTENDS DarwinBackend

ASSUME CommandLineAssumption == Failed \notin Server \cup Pac \cup {None}

\* finish: a warning still is a success.
ExitCode(err) == IF err = Nil \/ IsNonCritical(err) THEN 0 ELSE 1

\* cmdGet for a list of services that could not be read or is empty.
GetFails(cmd) == [cmd |-> cmd, svc |-> None, bad |-> {"list"}, exit |-> 1, shown |-> None]

\* cmdGet with --json: the whole configuration; a PAC URL alone counts.
GetJSON(s, bad) ==
    LET cfg == GetGlobalConfig(s, bad)
        set == ~NothingSet(cfg)
    IN  [cmd |-> "json", svc |-> s, bad |-> bad, exit |-> IF set THEN 0 ELSE 2,
         shown |-> IF set THEN cfg ELSE None]

\* cmdGet: 0 with a URL, 1 with an error, 2 when no proxy is set.
GetPlain(s, bad) ==
    LET url == GetGlobal(s, bad).url IN
    [cmd |-> "get", svc |-> s, bad |-> bad,
     exit |-> IF url = Failed THEN 1 ELSE IF url = None THEN 2 ELSE 0,
     shown |-> IF url = Failed THEN None ELSE url]

\* What the reads of a get may come to: none or one of them fails.
Trouble == {{}} \cup {{r} : r \in Read}

\* primaryNetworkService: the one with the default route if it is enabled,
\* else the first; the route is not part of the state, so any enabled one.
Answers(bad) ==
    {GetPlain(s, bad) : s \in Services} \cup {GetJSON(s, bad) : s \in Services}
    \cup (IF Services = {} THEN {GetFails("get"), GetFails("json")} ELSE {})

-----------------------------------------------------------------------------
(* Properties.                                                             *)

\* What get prints is true even when a command it runs fails: exit code 0
\* only with what is in use on the service it asked, for plain get the first
\* kind, and every field of the configuration is that or empty; exit code 1
\* only when something could not be read; exit code 2 with everything read
\* only when no proxy is in use, and for get --json no PAC URL either.
GetTellsTheTruth ==
    ~running => \A bad \in Trouble : \A answer \in Answers(bad) :
    LET s == answer.svc
        used == {i \in DOMAIN Kinds : InUse(s, Kinds[i]) # None}
        none == used = {}
        first == CHOOSE i \in used : \A j \in used : i <= j
    IN  /\ answer.exit = 1 => answer.bad # {}
        /\ answer.exit = 2 /\ answer.bad = {} =>
              none /\ (answer.cmd = "json" => PacInUse(s, {}) = None)
        /\ answer.exit = 0 /\ answer.cmd = "get" =>
              answer.shown = IF none THEN PacInUse(s, {}) ELSE InUse(s, Kinds[first])
        /\ answer.exit = 0 /\ answer.cmd = "json" => \A f \in DOMAIN answer.shown :
              answer.shown[f] \in {None, GetGlobalConfig(s, {})[f]}

\* "plain get also exits 2 when only a PAC URL is active" (usage text of
\* main.go; also README.md, and a test that stubs GetGlobal).  GetGlobal of
\* macOS falls back to the PAC URL, so plain get prints it and exits with 0.
PlainGetIsForManual ==
    ~running => \A answer \in Answers({}) :
        answer.cmd = "get" /\ answer.svc # None
           /\ (\A i \in DOMAIN Kinds : InUse(answer.svc, Kinds[i]) = None)
        => answer.exit = 2

\* A script that goes on when a command exits with 0 finds what it asked for
\* with the next one: set, then get prints that proxy; unset, then get exits
\* with 2; pac, then get --json prints the URL, and plain get does not fail
\* and prints no proxy that is not in use - whichever service carries the
\* default route by then, as long as no other was enabled in between.
SameServices == Services # {} /\ Services \subseteq served

ScriptsSeeTheirChange ==
    ~running /\ SameServices /\ ExitCode(result) = 0 => \A answer \in Answers({}) :
        /\ op.name = "set" /\ answer.cmd = "get" => answer.exit = 0 /\ answer.shown = op.arg.server
        /\ op.name = "unset" => answer.exit = 2
        /\ op.name = "pac" /\ answer.cmd = "json" =>
              answer.exit = 0 /\ answer.shown["pac"] = op.arg
        /\ op.name = "pac" /\ answer.cmd = "get" =>
              answer.exit = 2 \/ (answer.exit = 0 /\ answer.shown = op.arg)
=============================================================================
