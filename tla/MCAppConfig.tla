---------------------------- MODULE MCAppConfig ----------------------------
(***************************************************************************)
(* Small instances of AppConfig for TLC: every file of up to three lines,  *)
(* and every setting of git and npm in which http and https agree.         *)
(***************************************************************************)
EXTENDS AppConfig, TLC

CONSTANT MaxLines

MCLonger == {"proxy-login"}

MCName == UNION {KeySet(tool) : tool \in App} \cup {"global", "install", "other"} \cup MCLonger

Line(kind, name, spelling, value) ==
    [kind |-> kind, name |-> name, spelling |-> spelling, value |-> value]

UserEntries(keys, spellings) ==
    {Line("entry", k, s, "user") : k \in keys, s \in spellings}

Comment == Line("other", "other", "exact", None)

Files(lines) == {None} \cup UNION {[1..n -> lines] : n \in 0..MaxLines}

Settings(tool, spellings) ==
    CASE tool = "curl" -> Files({Comment} \cup UserEntries({"proxy"}, spellings))
      [] tool = "wget" -> Files({Comment} \cup UserEntries({"http_proxy", "https_proxy"}, spellings))
      [] tool = "pip"  -> Files({Comment, Header("global"), Header("install")}
                                \cup UserEntries({"proxy"}, spellings \ {"indented"})
                                \cup UserEntries(MCLonger, {"exact"}))
      [] OTHER -> {[k \in KeySet(tool) |-> v] : v \in {None, "user"}}

\* Without a proxy, or with one that all keys of the tool agree on.
Agree(tool, file) ==
    tool # "wget" \/ LET last(k) == LET at == {i \in DOMAIN Lines(file) : Is(file[i], k)}
                                    IN  at = {} IN last("http_proxy") = last("https_proxy")

MCInitial == {pair \in UNION {{[app |-> t, conf |-> c] :
                 c \in Settings(t, {"exact", "indented", "tight"})} : t \in App} :
                     Agree(pair.app, pair.conf)}

PipOnly == {[app |-> "pip", conf |-> c] : c \in Settings("pip", {"exact"})}
=============================================================================
