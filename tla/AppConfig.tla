----------------------------- MODULE AppConfig -----------------------------
(***************************************************************************)
(* WriteAppConfig and ClearAppConfig (appconfig.go): the proxy settings of *)
(* curl, git, npm, pip and wget.  git and npm are told by two commands,    *)
(* the files of the others are edited line by line, each edit under fileMu *)
(* and by writeFileAtomic, so that it happens at once or not at all        *)
(* (AtomicFile); wget's two keys take two edits.  Goroutines call the two  *)
(* functions for the same tool.  No two tools share a file, so one tool is *)
(* chosen in the initial state.                                            *)
(*                                                                         *)
(* External: how a tool reads its file.  Of lines with the same key curl   *)
(* and wget take the last, in any spelling; pip refuses a file with the    *)
(* same key twice in a section.                                            *)
(* A line is a section header, an entry, or something else; an entry is    *)
(* spelled "key = value" as the package does (exact), with blanks in front *)
(* (indented), or as "key=value" (tight).                                  *)
(***************************************************************************)
EXTENDS Lines, Naturals, Sequences, FiniteSetsExt

CONSTANTS
    Proc,
    Url,             \* the proxies given to WriteAppConfig
    None,            \* no value, or no file
    Name,            \* names of keys and of sections
    Longer,          \* the names of options that begin with "proxy" and go on
    Error,           \* what pip says of a file it cannot read
    Initial,         \* pairs of a tool and its settings at the beginning
    MaxOps, MaxFaults

Commands == {"git", "npm"}
App      == Commands \cup {"curl", "wget", "pip"}

\* The keys of each tool, in the order in which they are written.
Keys(app) == CASE app = "curl" -> <<"proxy">>
               [] app = "pip"  -> <<"proxy">>
               [] app = "wget" -> <<"http_proxy", "https_proxy">>
               [] app = "git"  -> <<"http.proxy", "https.proxy">>
               [] app = "npm"  -> <<"proxy", "https-proxy">>

KeySet(app) == {Keys(app)[i] : i \in DOMAIN Keys(app)}

\* The lines of a file, and the section headers among them.
FileLine == [kind : {"header", "entry", "other"}, name : Name,
             spelling : {"exact", "indented", "tight"}, value : Url \cup {"user", None}]

Header(section) == [kind |-> "header", name |-> section, spelling |-> "exact", value |-> None]

\* What a tool can have for settings: a value for each key, or a file or none.
SettingsOf(tool) ==
    IF tool \in Commands THEN [KeySet(tool) -> Url \cup {"user", None}]
    ELSE {None} \cup {file \in Seq(FileLine) : \A i \in DOMAIN file :
                        file[i].kind = "header" => file[i] = Header(file[i].name)}

ASSUME AppAssumption ==
    /\ "global" \in Name /\ \A tool \in App : KeySet(tool) \subseteq Name \ Longer
    /\ Longer \subseteq Name
    /\ \A pair \in Initial : pair.app \in App /\ pair.conf \in SettingsOf(pair.app)
    /\ None \notin Seq(FileLine)
    /\ {MaxOps, MaxFaults} \subseteq Nat

VARIABLES
    app,       \* the tool
    conf,      \* its settings: a function of its keys, or the lines of its file
    doing,     \* [Proc -> what each call has left to do]
    outcome,   \* [Proc -> of its last call]
    start,     \* conf when each call began
    alone,     \* [Proc -> no other call on the tool since its own began]
    clean,     \* no step has failed and no two calls have overlapped so far
    ops, faults

vars == <<app, conf, doing, outcome, start, alone, clean, ops, faults>>

Idle == [call |-> "none", url |-> None, todo |-> <<>>, ended |-> FALSE]

Init ==
    /\ \E pair \in Initial : app = pair.app /\ conf = pair.conf
    /\ doing = [p \in Proc |-> Idle] /\ outcome = [p \in Proc |-> "none"]
    /\ start = [p \in Proc |-> conf] /\ alone = [p \in Proc |-> TRUE] /\ clean = TRUE
    /\ ops = 0 /\ faults = 0

-----------------------------------------------------------------------------
(* The edits of a file; None is a file that does not exist.                *)

Entry(key, value) == [kind |-> "entry", name |-> key, spelling |-> "exact", value |-> value]

Lines(file) == IF file = None THEN <<>> ELSE file

Is(line, key) == line.kind = "entry" /\ line.name = key

\* editKeyValueFile: only the exact spelling is recognised.
EditKeyValue(file, key, value) ==
    LET lines == Lines(file)
        mine  == {i \in DOMAIN lines : Is(lines[i], key) /\ lines[i].spelling = "exact"}
    IN  IF mine = {} THEN Append(lines, Entry(key, value))
        ELSE [i \in DOMAIN lines |-> IF i \in mine THEN Entry(key, value) ELSE lines[i]]

\* removeKeysFromFile: blanks in front of the key do not matter.
RemoveKeys(file, keys) ==
    IF file = None THEN None
    ELSE Without(file, {i \in DOMAIN file : file[i].spelling # "tight"
                                            /\ \E k \in keys : Is(file[i], k)})

\* The lines that are in a section of this name.
InSection(lines, section) ==
    {i \in DOMAIN lines :
        LET above == {j \in 1..i : lines[j].kind = "header"}
        IN  above # {} /\ lines[Max(above)].name = section}

\* editINIFile: a key that is not found goes to the end of the file.
EditINI(file, section, key, value) ==
    LET lines  == Lines(file)
        inside == InSection(lines, section)
        mine   == {i \in inside : Is(lines[i], key) /\ lines[i].spelling # "tight"}
        header == {i \in DOMAIN lines : lines[i] = Header(section)}
    IN  IF mine # {}
        THEN [i \in DOMAIN lines |-> IF i \in mine THEN Entry(key, value) ELSE lines[i]]
        ELSE lines \o (IF header = {} THEN <<Header(section)>> ELSE <<>>) \o <<Entry(key, value)>>

\* Mutant: the key is removed from every section.
RemoveINIEverywhere(file, section, key) ==
    IF file = None THEN None
    ELSE Without(file, {i \in DOMAIN file : Is(file[i], key)})

\* removeINIKey: the lines of the section that begin with the key, which is
\* "proxy".
RemoveINI(file, section, key) ==
    IF file = None THEN None
    ELSE Without(file, {i \in InSection(file, section) :
                           \E name \in {key} \cup Longer : Is(file[i], name)})

-----------------------------------------------------------------------------
(* The calls.                                                              *)

\* Mutant: only the first key is written.
WriteStepsHttp == <<Head(Keys(app))>>

\* The steps of a call: one for each command or edit.
WriteSteps == Keys(app)

\* clearWgetRC removes both keys in one edit.
ClearSteps == IF app \in Commands THEN Keys(app) ELSE <<"all">>

Busy == {p \in Proc : doing[p] # Idle}

Start(p, call, url) ==
    /\ doing[p] = Idle /\ ops < MaxOps /\ ops' = ops + 1
    /\ doing' = [doing EXCEPT ![p] = [call |-> call, url |-> url, ended |-> FALSE,
                 todo |-> IF call = "write" THEN WriteSteps ELSE ClearSteps]]
    /\ start' = [start EXCEPT ![p] = conf]
    /\ alone' = [q \in Proc |-> IF q = p THEN Busy = {} ELSE FALSE]
    /\ clean' = (clean /\ Busy = {})
    /\ UNCHANGED <<app, conf, outcome, faults>>

\* An invalid URL, a missing tool, a context that has ended, no home
\* directory: the call returns before it does anything.
Refuse(p) ==
    /\ doing[p] = Idle /\ ops < MaxOps /\ ops' = ops + 1
    /\ outcome' = [outcome EXCEPT ![p] = "error"]
    /\ UNCHANGED <<app, conf, doing, start, alone, clean, faults>>

\* What one command or edit makes of the settings.
Applied(p, step) ==
    LET url == doing[p].url
        writing == doing[p].call = "write"
    IN  IF app \in Commands THEN [conf EXCEPT ![step] = url]       \* None unsets
        ELSE IF app = "pip"
        THEN IF writing THEN EditINI(conf, "global", step, url)
             ELSE RemoveINI(conf, "global", "proxy")
        ELSE IF writing THEN EditKeyValue(conf, step, url) ELSE RemoveKeys(conf, KeySet(app))

\* Mutant: the end of the steps is looked for before the step is taken off.
AfterStepLate(p, ok) ==
    IF doing[p].todo = <<>>
    THEN doing' = [doing EXCEPT ![p] = Idle] /\ outcome' = [outcome EXCEPT ![p] = doing[p].call]
    ELSE doing' = [doing EXCEPT ![p].todo = Tail(@)] /\ UNCHANGED outcome

\* After a step: the first error ends a write, a clear goes on when a command
\* fails and returns nil in the end, but not when its edit fails.
AfterStep(p, ok) ==
    LET left == Tail(doing[p].todo)
        counts == doing[p].call = "write" \/ app \notin Commands
    IN  IF left = <<>> \/ (~ok /\ counts)
        THEN /\ doing' = [doing EXCEPT ![p] = Idle]
             /\ outcome' = [outcome EXCEPT ![p] = IF ok \/ ~counts THEN doing[p].call ELSE "error"]
        ELSE doing' = [doing EXCEPT ![p].todo = left] /\ UNCHANGED outcome

StepWorks(p) ==
    /\ doing[p] # Idle /\ ~doing[p].ended
    /\ conf' = Applied(p, Head(doing[p].todo))
    /\ AfterStep(p, TRUE)
    /\ UNCHANGED <<app, start, alone, clean, ops, faults>>

\* A command that is killed, or reports an error, may have made its change.
StepFails(p) ==
    /\ doing[p] # Idle
    /\ IF doing[p].ended THEN UNCHANGED faults ELSE faults < MaxFaults /\ faults' = faults + 1
    /\ \/ UNCHANGED conf
       \/ app \in Commands /\ ~doing[p].ended /\ conf' = Applied(p, Head(doing[p].todo))
    /\ AfterStep(p, FALSE)
    /\ clean' = FALSE
    /\ UNCHANGED <<app, start, alone, ops>>

\* The context of a call for git or npm ends: its other commands fail.
Cancel(p) ==
    /\ doing[p] # Idle /\ app \in Commands /\ ~doing[p].ended
    /\ faults < MaxFaults /\ faults' = faults + 1
    /\ doing' = [doing EXCEPT ![p].ended = TRUE]
    /\ UNCHANGED <<app, conf, outcome, start, alone, clean, ops>>

Next == \E p \in Proc :
    \/ \E url \in Url : Start(p, "write", url)
    \/ Start(p, "clear", None)
    \/ Refuse(p) \/ StepWorks(p) \/ StepFails(p) \/ Cancel(p)

Spec == Init /\ [][Next]_vars

-----------------------------------------------------------------------------
(* What the tool makes of its settings.                                    *)

Reads(settings, key) ==
    IF app \in Commands THEN settings[key]
    ELSE LET lines  == Lines(settings)
             places == {i \in DOMAIN lines : Is(lines[i], key)}
                       \cap (IF app = "pip" THEN InSection(lines, "global") ELSE DOMAIN lines)
         IN  IF places = {} THEN None
             ELSE IF app = "pip" /\ Cardinality(places) > 1 THEN Error
             ELSE lines[Max(places)].value

\* The keys are spelled as the package spells them, and pip can read the file.
WellSpelled(settings) ==
    /\ app \in Commands \/ \A i \in DOMAIN Lines(settings) : Lines(settings)[i].spelling = "exact"
    /\ \A key \in KeySet(app) : Reads(settings, key) # Error

\* The section the package writes to is the last one, or missing, or pip
\* reads the key there already.
WellPlaced(settings) ==
    app = "pip" =>
        LET lines == Lines(settings)
            heads == {i \in DOMAIN lines : lines[i].kind = "header"}
        IN  Header("global") \in {lines[i] : i \in heads} =>
                lines[Max(heads)] = Header("global") \/ Reads(settings, "proxy") # None

-----------------------------------------------------------------------------
(* Properties.                                                             *)

\* Every variable keeps its type, and a call that is not over has steps left.
TypeOK ==
    /\ app \in App /\ conf \in SettingsOf(app) /\ start \in [Proc -> SettingsOf(app)]
    /\ \A p \in Proc : doing[p] = Idle \/ doing[p].todo # <<>>
    /\ outcome \in [Proc -> {"none", "write", "clear", "error"}]
    /\ alone \in [Proc -> BOOLEAN] /\ clean \in BOOLEAN
    /\ ops \in 0..MaxOps /\ faults \in 0..MaxFaults

JustDone(p, call) == doing[p] = Idle /\ outcome[p] = call /\ alone[p]

\* "sets key=value ..., replacing any existing line with the same key and
\* appending if absent": when WriteAppConfig returns nil and no other call
\* touched the tool, the tool reads the proxy from each of its keys, whatever
\* was in the file - as long as the keys were spelled the package's way and
\* the section it writes to is the last one.
WriteTakesEffect ==
    \A p \in Proc : JustDone(p, "write") /\ WellSpelled(start[p]) /\ WellPlaced(start[p]) =>
        \E url \in Url : \A key \in KeySet(app) : Reads(conf, key) = url

\* "sets [section] key = value in an INI-style file" (editINIFile), for every
\* file.  A missing key is put at the end of the file, which is in another
\* section when [global] is not the last one.
WriteAlwaysTakesEffect ==
    \A p \in Proc : JustDone(p, "write") /\ WellSpelled(start[p]) =>
        \E url \in Url : \A key \in KeySet(app) : Reads(conf, key) = url

\* "ClearAppConfig removes proxy settings": when it returns nil after no
\* command has failed, the tool has no proxy any more, from the package or
\* from the user; tight spellings of curl and wget are not seen.
ClearTakesEffect ==
    \A p \in Proc : JustDone(p, "clear") /\ clean /\ WellSpelled(start[p]) =>
        \A key \in KeySet(app) : Reads(conf, key) = None

\* Both promises: a call that returns nil has done what its name says.
CallsTakeEffect == WriteTakesEffect /\ ClearTakesEffect

\* The lines of the file but for the options of these names.
Foreign(lines, names) ==
    LET own == {i \in DOMAIN lines : lines[i].kind = "entry" /\ lines[i].name \in names}
               \cap (IF app = "pip" THEN InSection(lines, "global") ELSE DOMAIN lines)
    IN  Without(lines, own)

\* A step keeps them, in their order, and adds at the end what it adds.
Kept(names) == LET old == Foreign(Lines(conf), names)
                   new == Foreign(Lines(conf'), names)
               IN  Len(old) <= Len(new) /\ SubSeq(new, 1, Len(old)) = old

\* Lines that are not for the proxy - other keys, comments, headers, and the
\* same key in other sections - survive every write and every clear, of any
\* goroutines, in their order.  A clear for pip takes more than its own, the
\* options of [global] whose names begin with "proxy"; other sections are safe.
Clears == \E p \in Proc : doing[p].call = "clear" /\ doing'[p] # doing[p]

OthersKept ==
    [][app \notin Commands =>
          Kept(IF app = "pip" /\ Clears THEN KeySet(app) \cup Longer ELSE KeySet(app))]_vars

\* "removes key from [section]" (removeINIKey), and no other option: not so
\* when the name of that option begins with the key.
OtherOptionsKept == [][app \notin Commands => Kept(KeySet(app))]_vars
=============================================================================
