------------------------- MODULE LinuxBackendProofs -------------------------
(***************************************************************************)
(* That the operations of the Linux backend and the restore do what they   *)
(* report, for any proxies, PAC URLs, bypass lists and configurations, any *)
(* sequence of operations and any number of commands that fail, with or    *)
(* without a session bus.                                                  *)
(*                                                                         *)
(* What an operation asks of the desktop is a value for every key, `want`. *)
(* Each command of its program writes the wanted value of a key, or reads  *)
(* one back.  So the commands that are left are taken as a set, and the    *)
(* heart of the argument is that, as long as no failure was recorded, a    *)
(* key that does not have its wanted value has a command that writes it,   *)
(* and the mode, which may be lost when the session bus is gone, one that  *)
(* reads it back.                                                          *)
(*                                                                         *)
(* The last section shows that LinuxContract is right: every step of the   *)
(* backend is one of BackendContract or leaves what it sees alone.         *)
(***************************************************************************)
EXTENDS LinuxContract, TLAPS

-----------------------------------------------------------------------------
(* Sequences of commands.                                                  *)

Write(k, v) == [do |-> "set", key |-> k, value |-> v]
Check(k, v) == [do |-> "verify", key |-> k, value |-> v]

Sequence(p) == \E S : p \in Seq(S)
Commands(p) == {p[i] : i \in 1..Len(p)}

\* A program that writes the wanted values of the keys K and reads those of V
\* back.
Carries(p, want, K, V) ==
    /\ Sequence(p)
    /\ Commands(p) = {Write(k, want[k]) : k \in K} \cup {Check(k, want[k]) : k \in V}

LEMMA NoCommands == Sequence(<<>>) /\ Commands(<<>>) = {}
<1>1. <<>> \in Seq({}) /\ Len(<<>>) = 0
    OBVIOUS
<1>2. \A i \in 1..0 : FALSE
    OBVIOUS
<1>q. QED
    BY <1>1, <1>2 DEF Sequence, Commands

LEMMA OneCommand == ASSUME NEW c PROVE Sequence(<<c>>) /\ Commands(<<c>>) = {c}
<1>1. <<c>> \in Seq({c}) /\ Len(<<c>>) = 1 /\ <<c>>[1] = c
    OBVIOUS
<1>2. (\A i \in 1..1 : i = 1) /\ 1 \in 1..1
    OBVIOUS
<1>q. QED
    BY <1>1, <1>2 DEF Sequence, Commands

LEMMA BothCommands ==
    ASSUME NEW p, NEW q, Sequence(p), Sequence(q)
    PROVE  Sequence(p \o q) /\ Commands(p \o q) = Commands(p) \cup Commands(q)
<1>1. PICK S : p \in Seq(S)
    BY DEF Sequence
<1>2. PICK T : q \in Seq(T)
    BY DEF Sequence
<1>3. p \in Seq(S \cup T) /\ q \in Seq(S \cup T)
    BY <1>1, <1>2
<1> DEFINE r == p \o q
<1>4. r \in Seq(S \cup T) /\ Len(r) = Len(p) + Len(q) /\ Len(p) \in Nat /\ Len(q) \in Nat
    BY <1>3
<1>5. \A i \in 1..Len(p) : i \in 1..Len(r) /\ r[i] = p[i]
    BY <1>3, <1>4
<1>6. \A i \in 1..Len(q) : Len(p) + i \in 1..Len(r) /\ r[Len(p) + i] = q[i]
    BY <1>3, <1>4
<1>7. \A i \in 1..Len(r) : \/ i \in 1..Len(p) /\ r[i] = p[i]
                           \/ i - Len(p) \in 1..Len(q) /\ r[i] = q[i - Len(p)]
    BY <1>3, <1>4
<1> HIDE DEF r
<1>8. Sequence(r)
    BY <1>4 DEF Sequence
<1>9. ASSUME NEW c PROVE c \in Commands(r) <=> c \in Commands(p) \/ c \in Commands(q)
    <2>1. c \in Commands(r) => c \in Commands(p) \/ c \in Commands(q)
        BY <1>7 DEF Commands
    <2>2. c \in Commands(p) => c \in Commands(r)
        BY <1>5 DEF Commands
    <2>3. c \in Commands(q) => c \in Commands(r)
        BY <1>6 DEF Commands
    <2>q. QED
        BY <2>1, <2>2, <2>3
<1>q. QED
    BY <1>8, <1>9 DEF r

\* The first command, and the rest.
LEMMA FirstAndRest ==
    ASSUME NEW p, Sequence(p), p # <<>>
    PROVE  Sequence(Tail(p)) /\ Commands(p) = {Head(p)} \cup Commands(Tail(p))
<1>1. PICK S : p \in Seq(S)
    BY DEF Sequence
<1> DEFINE t == Tail(p)
<1>2. /\ t \in Seq(S) /\ Len(p) \in Nat \ {0} /\ Len(t) = Len(p) - 1 /\ Head(p) = p[1]
      /\ 1 \in 1..Len(p)
    BY <1>1
<1>3. \A i \in 1..Len(t) : i + 1 \in 1..Len(p) /\ t[i] = p[i + 1]
    BY <1>1, <1>2
<1>4. \A i \in 1..Len(p) : i = 1 \/ (i - 1 \in 1..Len(t) /\ t[i - 1] = p[i])
    BY <1>1, <1>2
<1> HIDE DEF t
<1>5. Sequence(t)
    BY <1>2 DEF Sequence
<1>6. Commands(p) = {Head(p)} \cup Commands(t)
    BY <1>2, <1>3, <1>4 DEF Commands
<1>q. QED
    BY <1>5, <1>6 DEF t

\* The building blocks of the programs.
LEMMA CarriesNothing == ASSUME NEW want PROVE Carries(<<>>, want, {}, {})
    BY NoCommands DEF Carries

LEMMA CarriesOne ==
    ASSUME NEW want, NEW k, NEW v, v = want[k]
    PROVE  Carries(gs(k, v), want, {k}, {}) /\ Carries(verify(k, v), want, {}, {k})
    BY OneCommand DEF Carries, gs, verify, Write, Check

LEMMA CarriesKde ==
    ASSUME NEW want, NEW k, NEW v, v = want[<<"kde", k>>]
    PROVE  Carries(kde(k, v), want, {<<"kde", k>>}, {})
    BY OneCommand DEF Carries, kde, Write

LEMMA CarriesMore ==
    ASSUME NEW want, NEW p, NEW q, NEW K, NEW L, NEW V,
           Carries(p, want, K, V), Carries(q, want, L, {})
    PROVE  Carries(p \o q, want, K \cup L, V)
    BY BothCommands DEF Carries

LEMMA CarriesCheck ==
    ASSUME NEW want, NEW p, NEW q, NEW K, NEW V,
           Carries(p, want, K, {}), Carries(q, want, {}, V)
    PROVE  Carries(p \o q, want, K, V)
    BY BothCommands DEF Carries

Opt(cond, S) == IF cond THEN S ELSE {}

LEMMA CarriesWhen ==
    ASSUME NEW want, NEW p, NEW K, NEW V, NEW cond \in BOOLEAN, Carries(p, want, K, V)
    PROVE  Carries(When(cond, p), want, Opt(cond, K), Opt(cond, V))
    BY CarriesNothing DEF When, Opt

LEMMA OptNothing == ASSUME NEW cond PROVE Opt(cond, {}) = {}
    BY DEF Opt

-----------------------------------------------------------------------------
(* The way to it.                                                          *)

\* The keys of the desktops that are there, but for those that lose what is
\* written.
Kept(m, b) == {k \in Here(m) : b \/ k \in KdeKey}

\* The commands C are about desktops that are there.
Proper(C, m) == \A c \in C : c.do \in {"set", "verify"} /\ c.key \in Here(m)

\* With the commands C the desktop d comes to what is wanted, or a failure is
\* recorded.
OnTrack(want, C, d, m, b) ==
    /\ \A c \in C : c.value = want[c.key]
    /\ \A k \in Kept(m, b) : d[k] # want[k] => \E c \in C : c.do = "set" /\ c.key = k
    /\ m.gnome /\ d[Mode] # want[Mode] => \E c \in C : c.do = "verify" /\ c.key = Mode

\* A desktop has every key, and the keys of one that is not there keep the
\* values they had in the beginning.
Desktop(d, m) ==
    /\ d = [k \in Key |-> d[k]]
    /\ \A k \in Key \ Here(m) : d[k] = Default[k]

LEMMA Keys ==
    /\ Mode \in GnomeKey /\ <<"gnome", "autoconfig-url">> \in GnomeKey
    /\ <<"gnome", "ignore-hosts">> \in GnomeKey
    /\ \A f \in Field : <<f, "host">> \in GnomeKey /\ <<f, "port">> \in GnomeKey
    /\ \A f \in {"ProxyType", "NoProxyFor", "Script", "http", "https", "ftp", "socks"} :
          <<"kde", f>> \in KdeKey
    /\ GnomeKey \subseteq Key /\ KdeKey \subseteq Key /\ GnomeKey \cap KdeKey = {}
    BY DEF Mode, GnomeKey, KdeKey, KdeField, Key, Field

\* A program whose commands are there for all that is to be changed.
LEMMA ProgramIsOnTrack ==
    ASSUME NEW p, NEW want, NEW K, NEW V, Carries(p, want, K, V), NEW m, NEW b, NEW d,
           K \subseteq Here(m), V \subseteq Here(m),
           \A k \in Here(m) \ K : d[k] = want[k],
           m.gnome /\ d[Mode] # want[Mode] => Mode \in V
    PROVE  /\ Sequence(p) /\ Proper(Commands(p), m)
           /\ OnTrack(want, Commands(p), d, m, b)
<1>1. /\ \A c \in Commands(p) : \/ \E k \in K : c = Write(k, want[k])
                                \/ \E k \in V : c = Check(k, want[k])
      /\ \A k \in K : Write(k, want[k]) \in Commands(p)
      /\ \A k \in V : Check(k, want[k]) \in Commands(p)
    <2>1. Commands(p) = {Write(k, want[k]) : k \in K} \cup {Check(k, want[k]) : k \in V}
        BY DEF Carries
    <2>2. \A c : c \in Commands(p) <=> \/ \E k \in K : c = Write(k, want[k])
                                       \/ \E k \in V : c = Check(k, want[k])
        BY <2>1
    <2>q. QED
        BY <2>2
<1>2. \A k, v : /\ Write(k, v).do = "set" /\ Write(k, v).key = k /\ Write(k, v).value = v
                /\ Check(k, v).do = "verify" /\ Check(k, v).key = k /\ Check(k, v).value = v
    BY DEF Write, Check
<1>3. Proper(Commands(p), m)
    BY <1>1, <1>2 DEF Proper
<1>4. \A c \in Commands(p) : c.value = want[c.key]
    BY <1>1, <1>2
<1>5. \A k \in Kept(m, b) : d[k] # want[k] => \E c \in Commands(p) : c.do = "set" /\ c.key = k
    BY <1>1, <1>2 DEF Kept
<1>6. m.gnome /\ d[Mode] # want[Mode] => \E c \in Commands(p) : c.do = "verify" /\ c.key = Mode
    BY <1>1, <1>2
<1>q. QED
    BY <1>3, <1>4, <1>5, <1>6 DEF OnTrack, Carries

\* What a command makes of a desktop, and that it does not leave the track
\* but with a failure.
After(d, c, b) == IF c.do = "set" /\ (b \/ c.key \in KdeKey) THEN [d EXCEPT ![c.key] = c.value] ELSE d

LEMMA CommandStaysOnTrack ==
    ASSUME NEW want, NEW C, NEW c, NEW d, NEW m, NEW b \in BOOLEAN,
           Proper({c} \cup C, m), Desktop(d, m)
    PROVE  /\ Desktop(After(d, c, b), m)
           /\ /\ OnTrack(want, {c} \cup C, d, m, b)
              /\ c.do = "verify" => d[c.key] = c.value
              => OnTrack(want, C, After(d, c, b), m, b)
<1> DEFINE e == After(d, c, b)
<1>1. c.do \in {"set", "verify"} /\ c.key \in Here(m) /\ c.key \in Key
    BY DEF Proper, Here
<1>2. DOMAIN d = Key
    BY DEF Desktop
<1>3. /\ \A k \in Key : e[k] # d[k] => c.do = "set" /\ (b \/ c.key \in KdeKey) /\ k = c.key /\ e[k] = c.value
      /\ c.do = "set" /\ (b \/ c.key \in KdeKey) => e[c.key] = c.value
      /\ e = [k \in Key |-> e[k]]
    <2>1. CASE c.do = "set" /\ (b \/ c.key \in KdeKey)
        <3>1. e = [d EXCEPT ![c.key] = c.value]
            BY <2>1 DEF After
        <3>2. e = [k \in Key |-> IF k = c.key THEN c.value ELSE d[k]]
            BY <1>1, <1>2, <3>1 DEF Desktop
        <3> HIDE DEF e
        <3>q. QED
            BY <1>1, <2>1, <3>2
    <2>2. CASE ~(c.do = "set" /\ (b \/ c.key \in KdeKey))
        <3>1. e = d
            BY <2>2 DEF After
        <3> HIDE DEF e
        <3>q. QED
            BY <2>2, <3>1 DEF Desktop
    <2>q. QED
        BY <2>1, <2>2
<1> HIDE DEF e
<1>4. Desktop(e, m)
    BY <1>1, <1>3 DEF Desktop
<1>5. ASSUME OnTrack(want, {c} \cup C, d, m, b), c.do = "verify" => d[c.key] = c.value
      PROVE  OnTrack(want, C, e, m, b)
    <2>1. \A x \in {c} \cup C : x.value = want[x.key]
        BY <1>5 DEF OnTrack
    <2>2. ASSUME NEW k \in Kept(m, b), e[k] # want[k] PROVE \E x \in C : x.do = "set" /\ x.key = k
        <3>1. k \in Key /\ (b \/ k \in KdeKey)
            BY DEF Kept, Here
        <3>2. e[k] = d[k]
            BY <1>3, <2>1, <2>2, <3>1
        <3>3. PICK x \in {c} \cup C : x.do = "set" /\ x.key = k
            BY <1>5, <2>2, <3>2 DEF OnTrack
        <3>4. x # c
            BY <1>3, <2>1, <2>2, <3>1, <3>3
        <3>q. QED
            BY <3>3, <3>4
    <2>3. ASSUME m.gnome, e[Mode] # want[Mode] PROVE \E x \in C : x.do = "verify" /\ x.key = Mode
        <3>1. e[Mode] = d[Mode]
            BY <1>3, <2>1, <2>3, Keys
        <3>2. PICK x \in {c} \cup C : x.do = "verify" /\ x.key = Mode
            BY <1>5, <2>3, <3>1 DEF OnTrack
        <3>3. x # c
            BY <1>5, <2>1, <2>3, <3>1, <3>2
        <3>q. QED
            BY <3>2, <3>3
    <2>q. QED
        BY <2>1, <2>2, <2>3 DEF OnTrack
<1>q. QED
    BY <1>4, <1>5 DEF e

-----------------------------------------------------------------------------
(* The programs.                                                           *)

\* A program that has a part for each desktop.
LEMMA BothDesktops ==
    ASSUME NEW want, NEW p, NEW q, NEW K, NEW L, NEW V, NEW d, NEW b,
           {Gnome, Kde} \subseteq BOOLEAN,
           Carries(p, want, K, V), K \subseteq GnomeKey, V \subseteq {Mode},
           Carries(q, want, L, {}), L \subseteq KdeKey,
           \A k \in GnomeKey \ K : d[k] = want[k],
           \A k \in KdeKey \ L : d[k] = want[k],
           Mode \notin V => d[Mode] = want[Mode]
    PROVE  LET r == When(Gnome, p) \o When(Kde, q)
           IN  Sequence(r) /\ Proper(Commands(r), sys) /\ OnTrack(want, Commands(r), d, sys, b)
<1> DEFINE r == When(Gnome, p) \o When(Kde, q)
           M == Opt(Gnome, K) \cup Opt(Kde, L)
<1>1. Gnome \in BOOLEAN /\ Kde \in BOOLEAN
    OBVIOUS
<1>2. Carries(When(Gnome, p), want, Opt(Gnome, K), Opt(Gnome, V))
    BY <1>1, CarriesWhen
<1>3. Carries(When(Kde, q), want, Opt(Kde, L), {})
    BY <1>1, CarriesWhen, OptNothing
<1>4. Carries(r, want, M, Opt(Gnome, V))
    BY <1>2, <1>3, CarriesMore
<1>5. /\ M \subseteq Here(sys) /\ Opt(Gnome, V) \subseteq Here(sys)
      /\ \A k \in Here(sys) \ M : d[k] = want[k]
      /\ sys.gnome /\ d[Mode] # want[Mode] => Mode \in Opt(Gnome, V)
    <2>1. M \subseteq Here(sys)
        BY Keys DEF Opt, Here, Gnome, Kde
    <2>2. Opt(Gnome, V) \subseteq Here(sys)
        BY Keys DEF Opt, Here, Gnome, Kde
    <2>3. ASSUME NEW k \in Here(sys) \ M PROVE d[k] = want[k]
        <3>1. CASE k \in GnomeKey
            BY <2>3, <3>1 DEF Opt, Here, Gnome, Kde
        <3>2. CASE k \in KdeKey
            BY <2>3, <3>2 DEF Opt, Here, Gnome, Kde
        <3>q. QED
            BY <2>3, <3>1, <3>2 DEF Here, Key
    <2>4. sys.gnome /\ d[Mode] # want[Mode] => Mode \in Opt(Gnome, V)
        BY DEF Opt, Gnome
    <2>q. QED
        BY <2>1, <2>2, <2>3, <2>4
<1> HIDE DEF r, M
<1>6. Sequence(r) /\ Proper(Commands(r), sys) /\ OnTrack(want, Commands(r), d, sys, b)
    BY <1>4, <1>5, ProgramIsOnTrack
<1>q. QED
    BY <1>6 DEF r

Ends(f) == {<<f, "host">>, <<f, "port">>}

LEMMA CarriesEndpoint ==
    ASSUME NEW want, NEW f, NEW v, v = want[<<f, "host">>], v = want[<<f, "port">>]
    PROVE  Carries(Endpoint(f, v), want, Ends(f), {})
<1>1. /\ Carries(gs(<<f, "host">>, v), want, {<<f, "host">>}, {})
      /\ Carries(gs(<<f, "port">>, v), want, {<<f, "port">>}, {})
    BY CarriesOne
<1>2. Ends(f) = {<<f, "host">>} \cup {<<f, "port">>}
    BY DEF Ends
<1>q. QED
    BY <1>1, <1>2, CarriesMore DEF Endpoint

\* The keys one by one.
LEMMA GnomeKeys ==
    \A k \in GnomeKey : \/ k = Mode \/ k = <<"gnome", "autoconfig-url">>
                        \/ k = <<"gnome", "ignore-hosts">>
                        \/ k \in Ends("http") \/ k \in Ends("https") \/ k \in Ends("socks")
    BY DEF GnomeKey, Field, Ends

LEMMA KdeKeys ==
    \A k \in KdeKey : \/ k = <<"kde", "ProxyType">> \/ k = <<"kde", "NoProxyFor">>
                      \/ k = <<"kde", "Script">> \/ k = <<"kde", "http">>
                      \/ k = <<"kde", "https">> \/ k = <<"kde", "ftp">> \/ k = <<"kde", "socks">>
    BY DEF KdeKey, KdeField

LEMMA EndsAreKeys ==
    \A f \in Field : Ends(f) \subseteq GnomeKey /\ Mode \notin Ends(f)
    BY DEF Ends, GnomeKey, Field, Mode

LEMMA SetOnTrack ==
    ASSUME {Gnome, Kde} \subseteq BOOLEAN, NEW p, NEW d, NEW b
    PROVE  LET r == SetProgram(Gnome, p)
           IN  Sequence(r) /\ Proper(Commands(r), sys) /\ OnTrack(SetWant(p, d), Commands(r), d, sys, b)
<1> DEFINE w      == SetWant(p, d)
           web    == IF p \in SocksProxy THEN None ELSE p
           socks  == IF p \in SocksProxy THEN p ELSE None
           K == {Mode} \cup Ends("http") \cup Ends("https") \cup Ends("socks")
           L == {<<"kde", "ProxyType">>} \cup {<<"kde", "http">>} \cup {<<"kde", "https">>}
                \cup {<<"kde", "ftp">>} \cup {<<"kde", "socks">>}
           g == gs(Mode, "manual") \o Endpoint("http", web) \o Endpoint("https", web)
                \o Endpoint("socks", socks) \o verify(Mode, "manual")
           q == kde("ProxyType", "1") \o kde("http", web) \o kde("https", web) \o kde("ftp", web)
                \o kde("socks", socks)
<1>1. /\ w[Mode] = "manual" /\ w[<<"kde", "ProxyType">>] = "1"
      /\ \A f \in {"http", "https"} : w[<<f, "host">>] = web /\ w[<<f, "port">>] = web
      /\ w[<<"socks", "host">>] = socks /\ w[<<"socks", "port">>] = socks
      /\ \A f \in {"http", "https", "ftp"} : w[<<"kde", f>>] = web
      /\ w[<<"kde", "socks">>] = socks
    BY Keys DEF SetWant, HttpKeys, SocksKeys, Mode, Field
<1>2. /\ \A k \in GnomeKey \ K : d[k] = w[k]
      /\ \A k \in KdeKey \ L : d[k] = w[k]
    <2>1. \A k \in {<<"gnome", "autoconfig-url">>, <<"gnome", "ignore-hosts">>,
                    <<"kde", "NoProxyFor">>, <<"kde", "Script">>} : w[k] = d[k]
        BY Keys DEF SetWant, HttpKeys, SocksKeys, Mode
    <2>q. QED
        BY <2>1, GnomeKeys, KdeKeys
<1>3. SetProgram(Gnome, p) = When(Gnome, g) \o When(Kde, q)
    BY DEF SetProgram
<1> HIDE DEF w, web, socks
<1>4. Carries(g, w, K, {Mode})
    BY <1>1, CarriesOne, CarriesEndpoint, CarriesMore, CarriesCheck
<1>5. Carries(q, w, L, {})
    BY <1>1, CarriesKde, CarriesMore
<1>6. K \subseteq GnomeKey /\ L \subseteq KdeKey
    BY Keys, EndsAreKeys DEF Field
<1> HIDE DEF g, q, K, L
<1> DEFINE r == When(Gnome, g) \o When(Kde, q)
<1>7. Sequence(r) /\ Proper(Commands(r), sys) /\ OnTrack(w, Commands(r), d, sys, b)
    BY <1>2, <1>4, <1>5, <1>6, BothDesktops
<1>q. QED
    BY <1>3, <1>7 DEF w

LEMMA UnsetOnTrack ==
    ASSUME {Gnome, Kde} \subseteq BOOLEAN, NEW d, NEW b
    PROVE  LET r == UnsetProgram(Gnome)
           IN  Sequence(r) /\ Proper(Commands(r), sys) /\ OnTrack(UnsetWant(d), Commands(r), d, sys, b)
<1> DEFINE w == UnsetWant(d)
           L == {<<"kde", "ProxyType">>} \cup {<<"kde", "http">>} \cup {<<"kde", "https">>}
                \cup {<<"kde", "ftp">>} \cup {<<"kde", "socks">>} \cup {<<"kde", "Script">>}
           g == gs(Mode, "none") \o verify(Mode, "none")
           q == kde("ProxyType", "0") \o kde("http", None) \o kde("https", None)
                \o kde("ftp", None) \o kde("socks", None) \o kde("Script", None)
<1>1. /\ w[Mode] = "none" /\ w[<<"kde", "ProxyType">>] = "0"
      /\ \A f \in {"http", "https", "ftp", "socks", "Script"} : w[<<"kde", f>>] = None
    BY Keys DEF UnsetWant, Mode, KdeField
<1>2. /\ \A k \in GnomeKey \ {Mode} : d[k] = w[k]
      /\ \A k \in KdeKey \ L : d[k] = w[k]
    <2>1. w[<<"kde", "NoProxyFor">>] = d[<<"kde", "NoProxyFor">>]
        BY Keys DEF UnsetWant, Mode, KdeField
    <2>2. ASSUME NEW k \in GnomeKey \ {Mode} PROVE d[k] = w[k]
        <3>1. k \notin KdeKey /\ k \in Key /\ <<"kde", "ProxyType">> \in KdeKey
              /\ {<<"kde", f>> : f \in KdeField \cup {"Script"}} \subseteq KdeKey
            BY Keys DEF KdeKey
        <3>q. QED
            BY <3>1, <2>2 DEF UnsetWant
    <2>q. QED
        BY <2>1, <2>2, KdeKeys
<1>3. UnsetProgram(Gnome) = When(Gnome, g) \o When(Kde, q)
    BY DEF UnsetProgram
<1> HIDE DEF w
<1>4. Carries(g, w, {Mode}, {Mode})
    BY <1>1, CarriesOne, CarriesCheck
<1>5. Carries(q, w, L, {})
    BY <1>1, CarriesKde, CarriesMore
<1>6. {Mode} \subseteq GnomeKey /\ L \subseteq KdeKey
    BY Keys
<1> HIDE DEF g, q, L
<1> DEFINE r == When(Gnome, g) \o When(Kde, q)
<1>7. Sequence(r) /\ Proper(Commands(r), sys) /\ OnTrack(w, Commands(r), d, sys, b)
    BY <1>2, <1>4, <1>5, <1>6, BothDesktops
<1>q. QED
    BY <1>3, <1>7 DEF w

LEMMA PacOnTrack ==
    ASSUME {Gnome, Kde} \subseteq BOOLEAN, NEW u, NEW d, NEW b
    PROVE  LET r == PacProgram(Gnome, u)
           IN  Sequence(r) /\ Proper(Commands(r), sys) /\ OnTrack(PacWant(u, d), Commands(r), d, sys, b)
<1> DEFINE w == PacWant(u, d)
           K == {Mode} \cup {<<"gnome", "autoconfig-url">>}
           L == {<<"kde", "ProxyType">>} \cup {<<"kde", "Script">>}
           g == gs(Mode, "auto") \o gs(<<"gnome", "autoconfig-url">>, u) \o verify(Mode, "auto")
           q == kde("ProxyType", "2") \o kde("Script", u)
<1>1. /\ w[Mode] = "auto" /\ w[<<"kde", "ProxyType">>] = "2"
      /\ w[<<"gnome", "autoconfig-url">>] = u /\ w[<<"kde", "Script">>] = u
    BY Keys DEF PacWant, Mode
<1>2. \A k \in Key \ (K \cup L) : d[k] = w[k]
    BY DEF PacWant
<1>3. PacProgram(Gnome, u) = When(Gnome, g) \o When(Kde, q)
    BY DEF PacProgram
<1> HIDE DEF w
<1>4. Carries(g, w, K, {Mode})
    BY <1>1, CarriesOne, CarriesMore, CarriesCheck
<1>5. Carries(q, w, L, {})
    BY <1>1, CarriesKde, CarriesMore
<1>6. K \subseteq GnomeKey /\ L \subseteq KdeKey
    BY Keys
<1> HIDE DEF g, q, K, L
<1> DEFINE r == When(Gnome, g) \o When(Kde, q)
<1>7. Sequence(r) /\ Proper(Commands(r), sys) /\ OnTrack(w, Commands(r), d, sys, b)
    BY <1>2, <1>4, <1>5, <1>6, Keys, BothDesktops
<1>q. QED
    BY <1>3, <1>7 DEF w

\* What a configuration names is written, and nothing else.
LEMMA MultiWantIs ==
    ASSUME NEW cfg, NEW d
    PROVE  LET w == MultiWant(cfg, d)
           IN  /\ \A k \in {Mode, <<"kde", "ProxyType">>} : ~AnyOf(cfg) => w[k] = d[k]
               /\ AnyOf(cfg) => w[Mode] = "manual" /\ w[<<"kde", "ProxyType">>] = "1"
               /\ \A f \in Field : \A k \in KeysOf(f) : w[k] = IF cfg[f] = None THEN d[k] ELSE cfg[f]
               /\ \A k \in {<<"gnome", "ignore-hosts">>, <<"kde", "NoProxyFor">>} :
                     w[k] = IF cfg["bypass"] = None THEN d[k] ELSE cfg["bypass"]
               /\ \A k \in {<<"gnome", "autoconfig-url">>, <<"kde", "ftp">>, <<"kde", "Script">>} :
                     w[k] = d[k]
<1> DEFINE w == MultiWant(cfg, d)
<1>0. \A k \in Key : w[k] =
         IF k = Mode /\ AnyOf(cfg) THEN "manual"
         ELSE IF k = <<"kde", "ProxyType">> /\ AnyOf(cfg) THEN "1"
         ELSE IF k \in KeysOf("http") /\ cfg["http"] # None THEN cfg["http"]
         ELSE IF k \in KeysOf("https") /\ cfg["https"] # None THEN cfg["https"]
         ELSE IF k \in KeysOf("socks") /\ cfg["socks"] # None THEN cfg["socks"]
         ELSE IF k \in {<<"gnome", "ignore-hosts">>, <<"kde", "NoProxyFor">>}
                 /\ cfg["bypass"] # None THEN cfg["bypass"]
         ELSE d[k]
    BY DEF MultiWant
<1> HIDE DEF w
<1>1. \A k \in {Mode, <<"kde", "ProxyType">>} : ~AnyOf(cfg) => w[k] = d[k]
    BY <1>0, Keys DEF Mode, KeysOf
<1>2. AnyOf(cfg) => w[Mode] = "manual" /\ w[<<"kde", "ProxyType">>] = "1"
    BY <1>0, Keys DEF Mode
<1>3. ASSUME NEW f \in Field, NEW k \in KeysOf(f) PROVE w[k] = IF cfg[f] = None THEN d[k] ELSE cfg[f]
    <2>1. k \in Key /\ k # Mode /\ k # <<"kde", "ProxyType">>
          /\ k \notin {<<"gnome", "ignore-hosts">>, <<"kde", "NoProxyFor">>}
        BY <1>3, Keys DEF KeysOf, Mode, Field
    <2>2. \A g \in Field : k \in KeysOf(g) <=> g = f
        BY <1>3 DEF KeysOf, Field
    <2>3. f = "http" \/ f = "https" \/ f = "socks"
        BY DEF Field
    <2>q. QED
        BY <1>0, <2>1, <2>2, <2>3 DEF Field
<1>4. \A k \in {<<"gnome", "ignore-hosts">>, <<"kde", "NoProxyFor">>} :
         w[k] = IF cfg["bypass"] = None THEN d[k] ELSE cfg["bypass"]
    BY <1>0, Keys DEF Mode, KeysOf
<1>5. \A k \in {<<"gnome", "autoconfig-url">>, <<"kde", "ftp">>, <<"kde", "Script">>} : w[k] = d[k]
    BY <1>0, Keys DEF Mode, KeysOf
<1>q. QED
    BY <1>1, <1>2, <1>3, <1>4, <1>5 DEF w

LEMMA MultiOnTrack ==
    ASSUME {Gnome, Kde} \subseteq BOOLEAN, NEW cfg, NEW d, NEW b
    PROVE  LET r == MultiProgram(Gnome, cfg)
           IN  Sequence(r) /\ Proper(Commands(r), sys) /\ OnTrack(MultiWant(cfg, d), Commands(r), d, sys, b)
<1> DEFINE w == MultiWant(cfg, d)
           any == AnyOf(cfg)
           has(f) == cfg[f] # None
           G1(f) == When(has(f), Endpoint(f, cfg[f]))
           K1(f) == When(has(f), kde(f, cfg[f]))
           K == Opt(any, {Mode}) \cup Opt(has("http"), Ends("http")) \cup Opt(has("https"), Ends("https"))
                \cup Opt(has("socks"), Ends("socks")) \cup Opt(has("bypass"), {<<"gnome", "ignore-hosts">>})
           L == Opt(any, {<<"kde", "ProxyType">>}) \cup Opt(has("http"), {<<"kde", "http">>})
                \cup Opt(has("https"), {<<"kde", "https">>}) \cup Opt(has("socks"), {<<"kde", "socks">>})
                \cup Opt(has("bypass"), {<<"kde", "NoProxyFor">>})
           g == When(any, gs(Mode, "manual")) \o G1("http") \o G1("https") \o G1("socks")
                \o When(has("bypass"), gs(<<"gnome", "ignore-hosts">>, cfg["bypass"]))
                \o When(any, verify(Mode, "manual"))
           q == When(any, kde("ProxyType", "1")) \o K1("http") \o K1("https") \o K1("socks")
                \o When(has("bypass"), kde("NoProxyFor", cfg["bypass"]))
<1>1. /\ any \in BOOLEAN /\ \A f : has(f) \in BOOLEAN
    BY DEF AnyOf
<1>2. MultiProgram(Gnome, cfg) = When(Gnome, g) \o When(Kde, q)
    BY DEF MultiProgram, AnyOf
<1>3. /\ ~any => w[Mode] = d[Mode] /\ w[<<"kde", "ProxyType">>] = d[<<"kde", "ProxyType">>]
      /\ any => w[Mode] = "manual" /\ w[<<"kde", "ProxyType">>] = "1"
      /\ \A f \in Field : \A k \in KeysOf(f) : w[k] = IF cfg[f] = None THEN d[k] ELSE cfg[f]
      /\ \A k \in {<<"gnome", "ignore-hosts">>, <<"kde", "NoProxyFor">>} :
            w[k] = IF cfg["bypass"] = None THEN d[k] ELSE cfg["bypass"]
      /\ \A k \in {<<"gnome", "autoconfig-url">>, <<"kde", "ftp">>, <<"kde", "Script">>} : w[k] = d[k]
    BY MultiWantIs
<1>4. \A f \in Field : Ends(f) \subseteq KeysOf(f) /\ <<"kde", f>> \in KeysOf(f)
    BY DEF Ends, KeysOf
<1> HIDE DEF w, any
<1>5. ASSUME NEW f \in Field
      PROVE  /\ Carries(G1(f), w, Opt(has(f), Ends(f)), {})
             /\ Carries(K1(f), w, Opt(has(f), {<<"kde", f>>}), {})
    <2>1. CASE cfg[f] = None
        BY <2>1, CarriesNothing DEF When, Opt
    <2>2. CASE cfg[f] # None
        <3>1. w[<<f, "host">>] = cfg[f] /\ w[<<f, "port">>] = cfg[f] /\ w[<<"kde", f>>] = cfg[f]
            BY <1>3, <2>2 DEF KeysOf
        <3>2. Carries(Endpoint(f, cfg[f]), w, Ends(f), {}) /\ Carries(kde(f, cfg[f]), w, {<<"kde", f>>}, {})
            BY <3>1, CarriesEndpoint, CarriesKde
        <3>q. QED
            BY <2>2, <3>2 DEF When, Opt
    <2>q. QED
        BY <2>1, <2>2
<1>6. /\ Carries(When(any, gs(Mode, "manual")), w, Opt(any, {Mode}), {})
      /\ Carries(When(any, verify(Mode, "manual")), w, {}, Opt(any, {Mode}))
      /\ Carries(When(any, kde("ProxyType", "1")), w, Opt(any, {<<"kde", "ProxyType">>}), {})
    <2>1. CASE ~any
        BY <2>1, CarriesNothing DEF When, Opt
    <2>2. CASE any
        <3>1. /\ Carries(gs(Mode, "manual"), w, {Mode}, {}) /\ Carries(verify(Mode, "manual"), w, {}, {Mode})
              /\ Carries(kde("ProxyType", "1"), w, {<<"kde", "ProxyType">>}, {})
            BY <1>3, <2>2, CarriesOne, CarriesKde
        <3>q. QED
            BY <2>2, <3>1 DEF When, Opt
    <2>q. QED
        BY <2>1, <2>2
<1>7. /\ Carries(When(has("bypass"), gs(<<"gnome", "ignore-hosts">>, cfg["bypass"])), w,
                 Opt(has("bypass"), {<<"gnome", "ignore-hosts">>}), {})
      /\ Carries(When(has("bypass"), kde("NoProxyFor", cfg["bypass"])), w,
                 Opt(has("bypass"), {<<"kde", "NoProxyFor">>}), {})
    <2>1. CASE cfg["bypass"] = None
        BY <2>1, CarriesNothing DEF When, Opt
    <2>2. CASE cfg["bypass"] # None
        <3>1. /\ Carries(gs(<<"gnome", "ignore-hosts">>, cfg["bypass"]), w, {<<"gnome", "ignore-hosts">>}, {})
              /\ Carries(kde("NoProxyFor", cfg["bypass"]), w, {<<"kde", "NoProxyFor">>}, {})
            BY <1>3, <2>2, CarriesOne, CarriesKde
        <3>q. QED
            BY <2>2, <3>1 DEF When, Opt
    <2>q. QED
        BY <2>1, <2>2
<1>8. /\ \A k \in GnomeKey \ K : d[k] = w[k]
      /\ \A k \in KdeKey \ L : d[k] = w[k]
      /\ K \subseteq GnomeKey /\ L \subseteq KdeKey
      /\ Mode \notin Opt(any, {Mode}) => d[Mode] = w[Mode]
    <2>1. \A f \in Field : ~has(f) => (\A k \in Ends(f) : w[k] = d[k]) /\ w[<<"kde", f>>] = d[<<"kde", f>>]
        BY <1>3, <1>4
    <2>2. ASSUME NEW k \in GnomeKey \ K PROVE d[k] = w[k]
        BY <1>3, <2>1, <2>2, GnomeKeys DEF Opt, Field
    <2>3. ASSUME NEW k \in KdeKey \ L PROVE d[k] = w[k]
        BY <1>3, <2>1, <2>3, KdeKeys DEF Opt, Field
    <2>4. K \subseteq GnomeKey /\ L \subseteq KdeKey
        BY Keys, EndsAreKeys DEF Opt, Field
    <2>5. Mode \notin Opt(any, {Mode}) => d[Mode] = w[Mode]
        BY <1>3 DEF Opt
    <2>q. QED
        BY <2>2, <2>3, <2>4, <2>5
<1> DEFINE U == Opt(any, {Mode})
<1>9. Carries(g, w, K, U) /\ U \subseteq {Mode}
    <2>1. {"http", "https", "socks"} = Field
        BY DEF Field
    <2> HIDE DEF G1, K1, has
    <2>2. Carries(g, w, K, U)
        BY <1>5, <1>6, <1>7, <2>1, CarriesMore, CarriesCheck
    <2>q. QED
        BY <2>2 DEF Opt
<1>10. Carries(q, w, L, {})
    <2>1. {"http", "https", "socks"} = Field
        BY DEF Field
    <2> HIDE DEF G1, K1, has
    <2>q. QED
        BY <1>5, <1>6, <1>7, <2>1, CarriesMore
<1> HIDE DEF g, q, K, L, U
<1> DEFINE r == When(Gnome, g) \o When(Kde, q)
<1>11. Sequence(r) /\ Proper(Commands(r), sys) /\ OnTrack(w, Commands(r), d, sys, b)
    BY <1>8, <1>9, <1>10, BothDesktops DEF U
<1>q. QED
    BY <1>2, <1>11 DEF w

LEMMA RestoreOnTrack ==
    ASSUME {Gnome, Kde} \subseteq BOOLEAN, NEW d, NEW b
    PROVE  LET r == RestoreProgram(Gnome)
           IN  Sequence(r) /\ Proper(Commands(r), sys) /\ OnTrack(snap.desk, Commands(r), d, sys, b)
<1> DEFINE w == snap.desk
           Back(k) == gs(k, w[k])
           Both(f) == Back(<<f, "host">>) \o Back(<<f, "port">>)
           KdeBack(k) == kde(k, w[<<"kde", k>>])
           K == {Mode} \cup {<<"gnome", "autoconfig-url">>} \cup {<<"gnome", "ignore-hosts">>}
                \cup Ends("http") \cup Ends("https") \cup Ends("socks")
           L == {<<"kde", "ProxyType">>} \cup {<<"kde", "http">>} \cup {<<"kde", "https">>}
                \cup {<<"kde", "ftp">>} \cup {<<"kde", "socks">>} \cup {<<"kde", "NoProxyFor">>}
                \cup {<<"kde", "Script">>}
           g == Back(Mode) \o verify(Mode, w[Mode])
                \o Back(<<"gnome", "autoconfig-url">>) \o Back(<<"gnome", "ignore-hosts">>)
                \o Both("http") \o Both("https") \o Both("socks")
           q == KdeBack("ProxyType") \o KdeBack("http") \o KdeBack("https") \o KdeBack("ftp")
                \o KdeBack("socks") \o KdeBack("NoProxyFor") \o KdeBack("Script")
<1>1. RestoreProgram(Gnome) = When(Gnome, g) \o When(Kde, q)
    BY DEF RestoreProgram
<1> HIDE DEF w
<1>2. ASSUME NEW f PROVE Carries(Both(f), w, Ends(f), {})
    <2>1. /\ Carries(Back(<<f, "host">>), w, {<<f, "host">>}, {})
          /\ Carries(Back(<<f, "port">>), w, {<<f, "port">>}, {})
        BY CarriesOne
    <2>2. Ends(f) = {<<f, "host">>} \cup {<<f, "port">>}
        BY DEF Ends
    <2>q. QED
        BY <2>1, <2>2, CarriesMore
<1>3. /\ Carries(Back(Mode), w, {Mode}, {}) /\ Carries(verify(Mode, w[Mode]), w, {}, {Mode})
      /\ Carries(Back(<<"gnome", "autoconfig-url">>), w, {<<"gnome", "autoconfig-url">>}, {})
      /\ Carries(Back(<<"gnome", "ignore-hosts">>), w, {<<"gnome", "ignore-hosts">>}, {})
      /\ \A k : Carries(KdeBack(k), w, {<<"kde", k>>}, {})
    BY CarriesOne, CarriesKde
<1> HIDE DEF Back, Both, KdeBack
<1>4. Carries(g, w, K, {Mode})
    BY <1>2, <1>3, CarriesMore, CarriesCheck
<1>5. Carries(q, w, L, {})
    BY <1>3, CarriesMore
<1>6. K \subseteq GnomeKey /\ L \subseteq KdeKey
    BY Keys, EndsAreKeys DEF Field
<1>7. (\A k \in GnomeKey \ K : d[k] = w[k]) /\ (\A k \in KdeKey \ L : d[k] = w[k])
    BY GnomeKeys, KdeKeys
<1> HIDE DEF g, q, K, L
<1> DEFINE r == When(Gnome, g) \o When(Kde, q)
<1>8. Sequence(r) /\ Proper(Commands(r), sys) /\ OnTrack(w, Commands(r), d, sys, b)
    BY <1>4, <1>5, <1>6, <1>7, BothDesktops
<1>q. QED
    BY <1>1, <1>8 DEF w

-----------------------------------------------------------------------------
(* Types.                                                                  *)

EtcState == [block : Proxy \cup {None}, own : BOOLEAN]

Names == {"set", "unset", "pac", "multi", "restore"}

TypeInv ==
    /\ TypeOK
    /\ errs \in {Nil, Hard} /\ snap.etc \in EtcState
    /\ op.name \in Names \cup {"none", "snapshot"} /\ (running => op.name \in Names)
    /\ op.name = "set" => op.arg \in Proxy
    /\ op.name = "multi" => op.arg \in Configs

Types ==
    /\ sys \in Systems /\ DOMAIN desk = Key /\ etc \in EtcState
    /\ bus \in BOOLEAN /\ running \in BOOLEAN
    /\ errs \in Error /\ result \in Error /\ ops \in 0..MaxOps /\ faults \in 0..MaxFaults

LEMMA TypeParts == (TypeOK <=> Types) /\ (TypeOK' <=> Types')
<1>1. \A x, y : {x, y} \subseteq BOOLEAN <=> x \in BOOLEAN /\ y \in BOOLEAN
    OBVIOUS
<1>q. QED
    BY <1>1, Zenon DEF TypeOK, Types, EtcState

LEMMA Classes ==
    /\ {Nil, Hard, Warning, Elevation} \subseteq Error /\ Nil # Hard
    /\ ~IsNonCritical(Hard) /\ Hard # Nil /\ Warning # Nil /\ Elevation # Nil
    BY DEF Nil, Hard, Warning, Elevation, Error, ErrClass, IsNonCritical

\* A recorded failure is a hard error, and a restore says no more than what
\* became of /etc/environment.
LEMMA FinishSays ==
    ASSUME NEW e \in {Nil, Hard}, NEW desktop, NEW restoring, NEW x \in Error, NEW sudo
    PROVE  LET r == StepsFinish(e, desktop, restoring, x, sudo)
           IN  /\ r \in Error
               /\ r = Nil \/ IsNonCritical(r) => e = Nil
               /\ desktop /\ restoring /\ e = Nil => r = x
<1> DEFINE r == StepsFinish(e, desktop, restoring, x, sudo)
<1>1. CASE e = Hard
    <2>1. r = Hard \cup Flatten(x)
        BY <1>1, Classes DEF StepsFinish, Join
    <2>2. Flatten(x) \in {Nil, Hard}
        BY DEF Flatten
    <2>3. r = Hard
        BY <2>1, <2>2 DEF Nil, Hard
    <2>q. QED
        BY <1>1, <2>3, Classes
<1>2. CASE e = Nil
    <2>1. r \in {Nil, Hard, x, Join(x, Warning), Join(x, Nil)}
        BY <1>2 DEF StepsFinish
    <2>2. Join(x, Warning) \in Error /\ Join(x, Nil) \in Error
        BY Classes DEF Join, Error
    <2>3. desktop /\ restoring => r = x
        BY <1>2 DEF StepsFinish
    <2>q. QED
        BY <1>2, <2>1, <2>2, <2>3, Classes
<1>q. QED
    BY <1>1, <1>2

\* The read or write of /etc/environment fails.
EtcFailed == \E permission \in BOOLEAN : FinishEtcFails(permission)

LEMMA EtcResult ==
    ASSUME NEW permission
    PROVE  EtcEnvironmentResult(Hard, permission) \in {Warning, Elevation}
    BY Classes DEF EtcEnvironmentResult

LEMMA Counting == ASSUME TypeOK PROVE Fault => faults' \in 0..MaxFaults /\ faults' # 0
<1>1. faults \in 0..MaxFaults /\ MaxFaults \in Nat
    BY LinuxAssumption DEF TypeOK
<1>q. QED
    BY <1>1 DEF Fault

\* What the end of an operation leaves.
LEMMA EndResult ==
    ASSUME TypeInv, NEW x \in Error, FinishWith(x)
    PROVE  /\ result' \in Error /\ running' = FALSE
           /\ result' = Nil \/ IsNonCritical(result') => errs = Nil
           /\ op.name = "restore" /\ errs = Nil => result' = x
<1>1. errs \in {Nil, Hard} /\ Nil \in Error
    BY Classes DEF TypeInv
<1>2. \/ result' = StepsFinish(errs, gnome \/ Kde, FALSE, x, sys.sudo) /\ op.name # "restore"
      \/ result' = StepsFinish(errs, TRUE, TRUE, x, sys.sudo)
      \/ result' = StepsFinish(errs, TRUE, FALSE, Nil, sys.sudo) /\ op.name # "restore"
    BY DEF FinishWith
<1>3. running' = FALSE
    BY DEF FinishWith
<1>4. ASSUME NEW desktop, NEW restoring, NEW y \in Error,
             result' = StepsFinish(errs, desktop, restoring, y, sys.sudo)
      PROVE  /\ result' \in Error
             /\ result' = Nil \/ IsNonCritical(result') => errs = Nil
             /\ desktop /\ restoring /\ errs = Nil => result' = y
    BY <1>1, <1>4, FinishSays, SMTT(20)
<1>5. CASE result' = StepsFinish(errs, TRUE, TRUE, x, sys.sudo)
    BY <1>3, <1>4, <1>5
<1>6. CASE result' = StepsFinish(errs, gnome \/ Kde, FALSE, x, sys.sudo) /\ op.name # "restore"
    BY <1>3, <1>4, <1>6
<1>7. CASE result' = StepsFinish(errs, TRUE, FALSE, Nil, sys.sudo) /\ op.name # "restore"
    BY <1>1, <1>3, <1>4, <1>7
<1>q. QED
    BY <1>2, <1>5, <1>6, <1>7

LEMMA TypeInit == Init => TypeInv
<1> SUFFICES ASSUME Init PROVE TypeInv
    OBVIOUS
<1>1. ops \in 0..MaxOps /\ faults \in 0..MaxFaults
    BY LinuxAssumption DEF Init
<1>2. Types
    BY <1>1, Classes DEF Init, Types, EtcState, Default
<1>3. snap.etc \in EtcState /\ op.name = "none" /\ running = FALSE /\ errs = Nil
    BY DEF Init, NoSnap, EtcState
<1>q. QED
    BY <1>2, <1>3, TypeParts DEF TypeInv, Names

LEMMA TypeStep == TypeInv /\ [Next]_vars => TypeInv'
<1> SUFFICES ASSUME TypeInv, [Next]_vars PROVE TypeInv'
    OBVIOUS
<1>0. /\ Types /\ errs \in {Nil, Hard} /\ snap.etc \in EtcState
      /\ op.name \in Names \cup {"none", "snapshot"} /\ (running => op.name \in Names)
      /\ op.name = "set" => op.arg \in Proxy
      /\ op.name = "multi" => op.arg \in Configs
    BY TypeParts DEF TypeInv
<1>t. Types' /\ errs' \in {Nil, Hard} /\ snap'.etc \in EtcState
      /\ op'.name \in Names \cup {"none", "snapshot"} /\ (running' => op'.name \in Names)
      /\ (op'.name = "set" => op'.arg \in Proxy)
      /\ (op'.name = "multi" => op'.arg \in Configs)
      => TypeInv'
    BY TypeParts DEF TypeInv
<1>f. Fault => faults' \in 0..MaxFaults
    BY Counting DEF TypeInv
<1>o. ops < MaxOps => ops + 1 \in 0..MaxOps
    BY <1>0, LinuxAssumption DEF Types
<1>1. ASSUME NEW o \in Operations, NEW g, Start(o, g) PROVE TypeInv'
    <2>1. /\ o.name \in Names /\ (o.name = "set" => o.arg \in Proxy)
          /\ (o.name = "multi" => o.arg \in Configs)
        BY DEF Operations, Names
    <2>2. ops' \in 0..MaxOps
        BY <1>1, <1>o DEF Start
    <2>3. op' = o /\ errs' = Nil /\ running' \in BOOLEAN /\ result' \in Error
          /\ UNCHANGED <<sys, desk, etc, bus, snap, faults>>
        BY <1>1, Classes DEF Start, machine
    <2>4. Types'
        BY <1>0, <2>2, <2>3, Classes DEF Types
    <2>q. QED
        BY <1>0, <1>t, <2>1, <2>3, <2>4
<1>2. CASE Cancel
    <2>1. Types'
        BY <1>0, <1>2, Classes DEF Cancel, machine, Types
    <2>q. QED
        BY <1>0, <1>2, <1>t, <2>1 DEF Cancel
<1>3. CASE BusDrops
    <2>1. Types'
        BY <1>0, <1>3 DEF BusDrops, Types
    <2>q. QED
        BY <1>0, <1>3, <1>t, <2>1 DEF BusDrops
<1>4. CASE CommandWorks
    <2>1. DOMAIN desk' = Key /\ errs' \in {Nil, Hard}
        BY <1>0, <1>4 DEF CommandWorks, Types
    <2>2. Types'
        BY <1>0, <1>4, <2>1, Classes DEF CommandWorks, Types
    <2>q. QED
        BY <1>0, <1>4, <1>t, <2>1, <2>2 DEF CommandWorks
<1>5. CASE CommandFails
    <2>1. Types'
        BY <1>0, <1>5, <1>f, Classes DEF CommandFails, machine, Types
    <2>q. QED
        BY <1>0, <1>5, <1>t, <2>1 DEF CommandFails
<1>6. CASE Finish \/ EtcFailed
    <2>1. PICK x \in Error : FinishWith(x) /\ etc' \in {etc, EtcWanted} /\ faults' \in 0..MaxFaults
        <3>1. CASE Finish
            <4>1. faults' \in 0..MaxFaults
                BY <1>0, <3>1 DEF Finish, Types
            <4>q. QED
                BY <3>1, <4>1, Classes DEF Finish
        <3>2. CASE EtcFailed
            <4>1. faults' \in 0..MaxFaults
                BY <1>0, <1>f, <3>2 DEF EtcFailed, FinishEtcFails, Types
            <4>q. QED
                BY <3>2, <4>1, EtcResult, Classes DEF EtcFailed, FinishEtcFails
        <3>q. QED
            BY <1>6, <3>1, <3>2
    <2>2. EtcWanted \in EtcState
        BY <1>0 DEF EtcWanted, EtcState, Types
    <2>3. result' \in Error /\ running' = FALSE
        BY <2>1, EndResult
    <2>4. UNCHANGED <<sys, desk, bus, op, errs, ops>>
        BY <2>1 DEF FinishWith
    <2>5. snap'.etc \in EtcState
        BY <1>0, <2>1 DEF FinishWith, NoSnap, EtcState
    <2>6. Types'
        BY <1>0, <2>1, <2>2, <2>3, <2>4 DEF Types
    <2>q. QED
        BY <1>0, <1>t, <2>3, <2>4, <2>5, <2>6
<1>7. ASSUME NEW g, Snapshot(g) \/ SnapshotFails(g) PROVE TypeInv'
    <2>1. /\ faults' \in 0..MaxFaults
          /\ UNCHANGED <<sys, desk, etc, bus, running, errs, ops>>
          /\ op' = [name |-> "snapshot"] /\ running = FALSE
        BY <1>0, <1>7, <1>f DEF Snapshot, SnapshotFails, machine, Types
    <2>2. result' \in Error
        BY <1>7, Classes DEF Snapshot, SnapshotFails
    <2>3. snap'.etc \in EtcState
        BY <1>0, <1>7 DEF Snapshot, SnapshotFails, Types
    <2>4. Types'
        BY <1>0, <2>1, <2>2 DEF Types
    <2>q. QED
        BY <1>0, <1>t, <2>1, <2>3, <2>4
<1>8. CASE Restore
    <2>1. Types'
        BY <1>0, <1>8, Classes DEF Restore, machine, Types
    <2>q. QED
        BY <1>0, <1>8, <1>t, <2>1, Classes DEF Restore, Names
<1>9. CASE UNCHANGED vars
    <2>1. Types'
        BY <1>0, <1>9 DEF vars, machine, Types
    <2>q. QED
        BY <1>0, <1>9, <1>t, <2>1 DEF vars, machine
<1>q. QED
    BY <1>1, <1>2, <1>3, <1>4, <1>5, <1>6, <1>7, <1>8, <1>9 DEF Next, EtcFailed

\* The variables keep their types.
THEOREM Types_Hold == Spec => []TypeOK
<1>1. TypeInv => TypeOK
    BY DEF TypeInv
<1>q. QED
    BY TypeInit, TypeStep, <1>1, PTL DEF Spec

-----------------------------------------------------------------------------
(* The inductive invariant.                                                *)

\* The probe for GNOME finds it whenever it is there.  Without that the two
\* theorems below are false, see LinuxProbe.cfg.
ProbesWork == \A s \in Systems : ~s.probeMayFail

DeskInv == Desktop(desk, sys) /\ Desktop(pre.desk, sys) /\ Desktop(origin.desk, sys)

\* What is left to do is about the desktops that are there, and an operation
\* that is over has nothing left to do.
ProgInv == Sequence(prog) /\ Proper(Commands(prog), sys) /\ (~running => prog = <<>>)

\* What an open WithProxy saved is what there was, and without root the file
\* has not changed since.
SnapInv ==
    /\ snap.open \in BOOLEAN
    /\ snap.open => /\ snap.desk = origin.desk /\ snap.etc = origin.etc /\ snap.gnome = Gnome
                    /\ ~sys.root => etc = snap.etc

\* An operation is on its way, or there.
TrackInv ==
    op.name \in Names /\ (IF running THEN errs = Nil ELSE Success) =>
       OnTrack(Want(op, pre.desk, origin.desk), Commands(prog), desk, sys, bus)

RestoreInv ==
    op.name = "restore" =>
       /\ running => snap.open
       /\ ~running => /\ result = Nil => etc = origin.etc
                      /\ errs = Nil /\ faults = 0 => result = Nil

LinuxInv == TypeInv /\ DeskInv /\ ProgInv /\ SnapInv /\ TrackInv /\ RestoreInv

LEMMA SystemIs ==
    ASSUME TypeInv PROVE /\ {Gnome, Kde, sys.root, sys.sudo} \subseteq BOOLEAN
                         /\ Gnome = sys.gnome /\ Kde = sys.kde
<1>1. sys \in System
    BY LinuxAssumption DEF TypeInv, TypeOK
<1>2. /\ sys.gnome \in BOOLEAN /\ sys.kde \in BOOLEAN /\ sys.root \in BOOLEAN /\ sys.sudo \in BOOLEAN
    BY <1>1, Zenon DEF System
<1>q. QED
    BY <1>2 DEF Gnome, Kde

LEMMA ProbeIs == ASSUME TypeInv, ProbesWork, NEW g \in Probes PROVE g = Gnome
<1>1. sys \in Systems /\ ~sys.probeMayFail
    BY DEF TypeInv, TypeOK, ProbesWork
<1>q. QED
    BY <1>1 DEF Probes

LEMMA NothingOnTrack ==
    /\ Sequence(<<>>) /\ \A m : Proper(Commands(<<>>), m)
    BY NoCommands DEF Proper

\* The program that an operation begins with is on track.
LEMMA ProgramOnTrack ==
    ASSUME {Gnome, Kde} \subseteq BOOLEAN, NEW o \in Operations, NEW d, NEW back, NEW b
    PROVE  LET r == Program(Gnome, o)
           IN  Sequence(r) /\ Proper(Commands(r), sys) /\ OnTrack(Want(o, d, back), Commands(r), d, sys, b)
<1>1. o.name \in {"set", "unset", "pac", "multi"}
    BY DEF Operations
<1>2. CASE o.name = "set"
    BY <1>2, SetOnTrack DEF Program, Want
<1>3. CASE o.name = "unset"
    BY <1>3, UnsetOnTrack DEF Program, Want
<1>4. CASE o.name = "pac"
    BY <1>4, PacOnTrack DEF Program, Want
<1>5. CASE o.name = "multi"
    BY <1>5, MultiOnTrack DEF Program, Want
<1>q. QED
    BY <1>1, <1>2, <1>3, <1>4, <1>5

LEMMA LinuxInit == Init => LinuxInv
<1> SUFFICES ASSUME Init PROVE LinuxInv
    OBVIOUS
<1>1. TypeInv
    BY TypeInit
<1>2. \A m : Desktop(Default, m)
    BY DEF Desktop, Default
<1>3. DeskInv
    BY <1>2 DEF Init, DeskInv
<1>4. ProgInv
    BY NothingOnTrack DEF Init, ProgInv
<1>5. SnapInv
    BY DEF Init, NoSnap, SnapInv
<1>6. TrackInv /\ RestoreInv
    BY DEF Init, TrackInv, RestoreInv, Names
<1>q. QED
    BY <1>1, <1>3, <1>4, <1>5, <1>6 DEF LinuxInv

LEMMA StartKeeps ==
    ASSUME ProbesWork, LinuxInv, TypeInv', NEW o \in Operations, NEW g, Start(o, g) PROVE LinuxInv'
<1>1. TypeInv /\ DeskInv /\ SnapInv
    BY DEF LinuxInv
<1>2. g = Gnome
    BY <1>1, ProbeIs DEF Start
<1>3. /\ op' = o /\ pre' = [desk |-> desk, etc |-> etc] /\ errs' = Nil
      /\ UNCHANGED <<sys, desk, etc, bus, snap, origin, faults>>
    BY DEF Start, machine
<1>4. o.name # "restore"
    BY DEF Operations
<1>5. DeskInv' /\ SnapInv' /\ RestoreInv'
    BY <1>1, <1>3, <1>4 DEF DeskInv, SnapInv, RestoreInv, Gnome
<1>6. ProgInv' /\ TrackInv'
    <2>1. CASE running' = FALSE /\ prog' = <<>> /\ result' = Hard
        <3>1. ~Success'
            BY <2>1, Classes DEF Success
        <3>2. TrackInv'
            BY <2>1, <3>1 DEF TrackInv
        <3>q. QED
            BY <2>1, <3>2, NothingOnTrack DEF ProgInv
    <2>2. CASE running' = TRUE /\ prog' = Program(Gnome, o)
        <3>1. /\ Sequence(prog') /\ Proper(Commands(prog'), sys)
              /\ OnTrack(Want(o, desk, origin.desk), Commands(prog'), desk, sys, bus)
            BY <1>1, <2>2, SystemIs, ProgramOnTrack
        <3>q. QED
            BY <1>3, <2>2, <3>1 DEF ProgInv, TrackInv
    <2>q. QED
        BY <1>2, <2>1, <2>2 DEF Start
<1>q. QED
    BY <1>5, <1>6 DEF LinuxInv

LEMMA StopKeeps ==
    ASSUME LinuxInv, TypeInv', Cancel \/ CommandFails PROVE LinuxInv'
<1>1. DeskInv /\ SnapInv /\ RestoreInv /\ ProgInv
    BY DEF LinuxInv
<1>2. /\ running /\ errs' = Hard /\ prog # <<>> /\ prog' \in {<<>>, Tail(prog)}
      /\ UNCHANGED <<sys, desk, etc, bus, op, running, pre, snap, origin>>
    BY DEF Cancel, CommandFails, machine
<1>3. DeskInv' /\ SnapInv' /\ RestoreInv'
    BY <1>1, <1>2 DEF DeskInv, SnapInv, RestoreInv, Gnome
<1>4. Sequence(prog') /\ Proper(Commands(prog'), sys)
    BY <1>1, <1>2, FirstAndRest, NothingOnTrack DEF ProgInv, Proper
<1>5. ProgInv' /\ TrackInv'
    BY <1>2, <1>4, Classes DEF ProgInv, TrackInv
<1>q. QED
    BY <1>3, <1>5 DEF LinuxInv

LEMMA DropKeeps == ASSUME LinuxInv, TypeInv', BusDrops PROVE LinuxInv'
<1>1. DeskInv /\ SnapInv /\ RestoreInv /\ ProgInv /\ TrackInv
    BY DEF LinuxInv
<1>2. /\ bus = TRUE
      /\ UNCHANGED <<sys, desk, etc, op, running, prog, errs, result, pre, snap, origin, faults>>
    BY <1>1 DEF BusDrops, LinuxInv, TypeInv, TypeOK
<1>3. \A want, C, d, m : OnTrack(want, C, d, m, TRUE) => OnTrack(want, C, d, m, bus')
    BY DEF OnTrack, Kept
<1>4. DeskInv' /\ SnapInv' /\ RestoreInv' /\ ProgInv'
    BY <1>1, <1>2 DEF DeskInv, SnapInv, RestoreInv, ProgInv, Gnome
<1>5. TrackInv'
    BY <1>1, <1>2, <1>3 DEF TrackInv, Success
<1>q. QED
    BY <1>4, <1>5 DEF LinuxInv

LEMMA CommandKeeps == ASSUME LinuxInv, TypeInv', CommandWorks PROVE LinuxInv'
<1> DEFINE c == Head(prog)
           C == Commands(Tail(prog))
<1>1. DeskInv /\ SnapInv /\ RestoreInv /\ ProgInv /\ TrackInv
    BY DEF LinuxInv
<1>2. /\ running /\ prog # <<>> /\ prog' = Tail(prog) /\ desk' = After(desk, c, bus)
      /\ errs' = IF c.do = "verify" /\ desk[c.key] # c.value THEN Hard ELSE errs
      /\ UNCHANGED <<sys, etc, bus, op, running, pre, snap, origin, faults>>
    BY DEF CommandWorks, After
<1>3. Sequence(prog') /\ Commands(prog) = {c} \cup C /\ Proper({c} \cup C, sys)
    BY <1>1, <1>2, FirstAndRest DEF ProgInv
<1>4. Desktop(desk, sys) /\ bus \in BOOLEAN
    BY <1>1 DEF DeskInv, LinuxInv, TypeInv, TypeOK
<1> HIDE DEF c, C
<1>5. Desktop(desk', sys)
    BY <1>2, <1>3, <1>4, CommandStaysOnTrack
<1>6. DeskInv' /\ SnapInv' /\ RestoreInv'
    BY <1>1, <1>2, <1>5 DEF DeskInv, SnapInv, RestoreInv, Gnome
<1>7. ProgInv'
    BY <1>2, <1>3 DEF ProgInv, Proper, C
<1>8. TrackInv'
    <2>1. SUFFICES ASSUME op.name \in Names, errs' = Nil
                   PROVE  OnTrack(Want(op, pre.desk, origin.desk), C, desk', sys, bus)
        BY <1>2 DEF TrackInv, C
    <2>2. errs = Nil /\ (c.do = "verify" => desk[c.key] = c.value)
        BY <1>2, <2>1, Classes
    <2>3. OnTrack(Want(op, pre.desk, origin.desk), {c} \cup C, desk, sys, bus)
        BY <1>1, <1>2, <1>3, <2>1, <2>2 DEF TrackInv
    <2>q. QED
        BY <1>2, <1>3, <1>4, <2>2, <2>3, CommandStaysOnTrack
<1>q. QED
    BY <1>6, <1>7, <1>8 DEF LinuxInv

LEMMA EndKeeps == ASSUME LinuxInv, TypeInv', Finish \/ EtcFailed PROVE LinuxInv'
<1>1. TypeInv /\ DeskInv /\ SnapInv /\ RestoreInv /\ ProgInv /\ TrackInv
    BY DEF LinuxInv
<1>2. PICK x \in Error :
        /\ FinishWith(x)
        /\ etc' \in {etc, EtcWanted} /\ (etc' # etc => sys.root)
        /\ op.name = "restore" =>
             \/ x = Nil /\ etc' = snap.etc
             \/ x # Nil /\ (faults' # 0 \/ (~sys.root /\ etc # snap.etc))
    <2>1. CASE Finish
        <3>1. etc' = EtcWanted /\ (etc' # etc => sys.root)
            BY <2>1 DEF Finish, EtcWrites
        <3>2. op.name = "restore" => etc' = snap.etc
            BY <3>1 DEF EtcWanted
        <3>q. QED
            BY <2>1, <3>1, <3>2, Classes DEF Finish
    <2>2. CASE EtcFailed
        <3>1. PICK permission \in BOOLEAN : FinishEtcFails(permission)
            BY <2>2 DEF EtcFailed
        <3>2. etc' = etc /\ FinishWith(EtcEnvironmentResult(Hard, permission))
            BY <3>1 DEF FinishEtcFails
        <3>3. CASE permission /\ EtcWrites
            <4>1. ~sys.root /\ (op.name = "restore" => etc # snap.etc)
                BY <3>1, <3>3 DEF FinishEtcFails, EtcWrites, EtcWanted
            <4>q. QED
                BY <3>2, <4>1, EtcResult, Classes
        <3>4. CASE ~(permission /\ EtcWrites)
            <4>1. faults' # 0
                BY <1>1, <3>1, <3>4, Counting DEF FinishEtcFails, TypeInv
            <4>q. QED
                BY <3>2, <4>1, EtcResult, Classes
        <3>q. QED
            BY <3>3, <3>4
    <2>q. QED
        BY <2>1, <2>2
<1>3. /\ result' = Nil \/ IsNonCritical(result') => errs = Nil
      /\ op.name = "restore" /\ errs = Nil => result' = x
    BY <1>1, <1>2, EndResult
<1>4. /\ running /\ running' = FALSE /\ prog = <<>>
      /\ snap' = (IF op.name = "restore" THEN NoSnap ELSE snap)
      /\ UNCHANGED <<sys, desk, bus, op, prog, errs, pre, origin>>
    BY <1>2 DEF Finish, EtcFailed, FinishEtcFails, FinishWith
<1>5. DeskInv' /\ ProgInv'
    BY <1>1, <1>4 DEF DeskInv, ProgInv
<1>6. SnapInv'
    <2>1. CASE op.name = "restore"
        BY <1>4, <2>1 DEF SnapInv, NoSnap
    <2>2. CASE op.name # "restore"
        BY <1>1, <1>2, <1>4, <2>2 DEF SnapInv, Gnome
    <2>q. QED
        BY <2>1, <2>2
<1>7. TrackInv'
    BY <1>1, <1>3, <1>4 DEF TrackInv, Success
<1>8. RestoreInv'
    <2>1. SUFFICES ASSUME op.name = "restore"
                   PROVE  /\ result' = Nil => etc' = origin.etc
                          /\ errs = Nil /\ faults' = 0 => result' = Nil
        BY <1>4 DEF RestoreInv
    <2>2. snap.open /\ snap.etc = origin.etc /\ (~sys.root => etc = snap.etc)
        BY <1>1, <1>4, <2>1 DEF RestoreInv, SnapInv
    <2>q. QED
        BY <1>2, <1>3, <2>1, <2>2
<1>q. QED
    BY <1>5, <1>6, <1>7, <1>8 DEF LinuxInv

LEMMA SnapshotKeeps ==
    ASSUME ProbesWork, LinuxInv, TypeInv', NEW g, Snapshot(g) \/ SnapshotFails(g) PROVE LinuxInv'
<1>1. TypeInv /\ DeskInv /\ SnapInv /\ ProgInv
    BY DEF LinuxInv
<1>2. g = Gnome
    BY <1>1, ProbeIs DEF Snapshot, SnapshotFails
<1>3. /\ op' = [name |-> "snapshot"]
      /\ UNCHANGED <<sys, desk, etc, bus, running, prog, pre>>
      /\ \/ snap' = [open |-> TRUE, gnome |-> g, etc |-> etc, desk |-> desk]
            /\ origin' = [desk |-> desk, etc |-> etc]
         \/ UNCHANGED <<snap, origin>>
    BY DEF Snapshot, SnapshotFails, machine
<1>4. DeskInv' /\ ProgInv'
    BY <1>1, <1>3 DEF DeskInv, ProgInv
<1>5. SnapInv'
    <2>1. CASE /\ snap' = [open |-> TRUE, gnome |-> g, etc |-> etc, desk |-> desk]
               /\ origin' = [desk |-> desk, etc |-> etc]
        <3>1. /\ snap'.open = TRUE /\ snap'.gnome = g /\ snap'.etc = etc /\ snap'.desk = desk
              /\ origin'.desk = desk /\ origin'.etc = etc
            BY <2>1
        <3>q. QED
            BY <1>2, <1>3, <3>1 DEF SnapInv, Gnome
    <2>2. CASE UNCHANGED <<snap, origin>>
        BY <1>1, <1>3, <2>2 DEF SnapInv, Gnome
    <2>q. QED
        BY <1>3, <2>1, <2>2
<1>6. TrackInv' /\ RestoreInv'
    BY <1>3 DEF TrackInv, RestoreInv, Names
<1>q. QED
    BY <1>4, <1>5, <1>6 DEF LinuxInv

LEMMA RestoreKeeps == ASSUME LinuxInv, TypeInv', Restore PROVE LinuxInv'
<1>1. TypeInv /\ DeskInv /\ SnapInv
    BY DEF LinuxInv
<1>2. /\ snap.open /\ op' = [name |-> "restore"] /\ running' = TRUE /\ prog' = RestoreProgram(snap.gnome)
      /\ pre' = [desk |-> desk, etc |-> etc]
      /\ UNCHANGED <<sys, desk, etc, bus, snap, origin, faults>>
    BY DEF Restore, machine
<1>3. snap.gnome = Gnome /\ snap.desk = origin.desk
    BY <1>1, <1>2 DEF SnapInv
<1>4. /\ Sequence(prog') /\ Proper(Commands(prog'), sys)
      /\ OnTrack(origin.desk, Commands(prog'), desk, sys, bus)
    BY <1>1, <1>2, <1>3, SystemIs, RestoreOnTrack
<1>5. DeskInv' /\ SnapInv' /\ RestoreInv'
    BY <1>1, <1>2 DEF DeskInv, SnapInv, RestoreInv, Gnome
<1>6. ProgInv' /\ TrackInv'
    BY <1>2, <1>4 DEF ProgInv, TrackInv, Want
<1>q. QED
    BY <1>5, <1>6 DEF LinuxInv

LEMMA LinuxStep == ASSUME ProbesWork PROVE LinuxInv /\ [Next]_vars => LinuxInv'
<1> SUFFICES ASSUME LinuxInv, [Next]_vars PROVE LinuxInv'
    OBVIOUS
<1>1. TypeInv'
    BY TypeStep DEF LinuxInv
<1>2. CASE Next
    BY <1>1, <1>2, StartKeeps, StopKeeps, DropKeeps, CommandKeeps, EndKeeps, SnapshotKeeps,
       RestoreKeeps DEF Next, EtcFailed
<1>3. CASE UNCHANGED vars
    BY <1>1, <1>3 DEF LinuxInv, DeskInv, ProgInv, SnapInv, TrackInv, RestoreInv, Success, Gnome,
                      vars, machine
<1>q. QED
    BY <1>2, <1>3

LEMMA LinuxAlways == ASSUME ProbesWork PROVE Spec => []LinuxInv
    BY LinuxInit, LinuxStep, PTL DEF Spec

-----------------------------------------------------------------------------
(* What is read of a desktop that is there.                                *)

\* What an operation that is over and reports no hard error has left behind.
LEMMA Left ==
    ASSUME LinuxInv, ~running, Success, op.name \in Names
    PROVE  LET w == Want(op, pre.desk, origin.desk)
           IN  /\ \A k \in Kept(sys, bus) : desk[k] = w[k]
               /\ Gnome => desk[Mode] = w[Mode]
<1> DEFINE w == Want(op, pre.desk, origin.desk)
<1>1. OnTrack(w, Commands(prog), desk, sys, bus)
    BY DEF LinuxInv, TrackInv
<1>2. Commands(prog) = {}
    BY NoCommands DEF LinuxInv, ProgInv
<1>q. QED
    BY <1>1, <1>2 DEF OnTrack, Gnome

\* With a session bus that is every key of such a desktop.
LEMMA AllKept ==
    ASSUME TypeInv, bus = TRUE
    PROVE  /\ Gnome => GnomeKey \subseteq Kept(sys, bus)
           /\ Kde => KdeKey \subseteq Kept(sys, bus)
    BY Keys, SystemIs DEF Kept, Here

\* The order in which Get asks for the kinds of proxy.
LEMMA FirstIs ==
    ASSUME NEW cfg, NEW kinds, NEW i \in DOMAIN kinds, DOMAIN kinds \subseteq Nat,
           cfg[kinds[i]] # None, \A j \in DOMAIN kinds : j < i => cfg[kinds[j]] = None
    PROVE  First(cfg, kinds) = cfg[kinds[i]]
<1> DEFINE T == {j \in DOMAIN kinds : cfg[kinds[j]] # None}
           first == CHOOSE j \in T : \A k \in T : j <= k
<1>1. First(cfg, kinds) = IF T = {} THEN None ELSE cfg[kinds[first]]
    BY DEF First
<1>2. i \in T /\ \A j \in T : i <= j
    OBVIOUS
<1>3. first \in T /\ \A j \in T : first <= j
    BY <1>2
<1>4. first \in Nat /\ i \in Nat /\ first <= i /\ i <= first
    BY <1>2, <1>3
<1> HIDE DEF first
<1>5. first = i
    BY <1>4
<1>q. QED
    BY <1>1, <1>2, <1>5

LEMMA FirstIsNone ==
    ASSUME NEW cfg, NEW kinds, \A j \in DOMAIN kinds : cfg[kinds[j]] = None
    PROVE  First(cfg, kinds) = None
    BY DEF First

GnomeKinds == <<"http", "https", "socks">>
KdeKinds   == <<"pac", "http", "https", "socks">>

\* Get finds the proxy that alone is set, and none when none is.
LEMMA FirstOfOnly ==
    ASSUME NEW p \in Proxy
    PROVE  First(Only(p), GnomeKinds) = p /\ First(Only(p), KdeKinds) = p
<1>1. p # None /\ (p \in HttpProxy <=> p \notin SocksProxy)
    BY LinuxAssumption DEF Proxy
<1>2. /\ \A f \in {"http", "https"} : Only(p)[f] = IF p \in HttpProxy THEN p ELSE None
      /\ Only(p)["socks"] = IF p \in HttpProxy THEN None ELSE p
      /\ Only(p)["pac"] = None
    BY <1>1 DEF Only, Shown, Field
<1>3. /\ DOMAIN GnomeKinds = 1..3 /\ GnomeKinds[1] = "http" /\ GnomeKinds[2] = "https"
      /\ GnomeKinds[3] = "socks"
    BY DEF GnomeKinds
<1>4. /\ DOMAIN KdeKinds = 1..4 /\ KdeKinds[1] = "pac" /\ KdeKinds[2] = "http"
      /\ KdeKinds[3] = "https" /\ KdeKinds[4] = "socks"
    BY DEF KdeKinds
<1> DEFINE cfg == Only(p)
<1> HIDE DEF cfg
<1>5. CASE p \in HttpProxy
    <2>1. /\ 1 \in DOMAIN GnomeKinds /\ cfg[GnomeKinds[1]] = p
          /\ \A j \in DOMAIN GnomeKinds : ~(j < 1)
        BY <1>2, <1>3, <1>5 DEF cfg
    <2>2. /\ 2 \in DOMAIN KdeKinds /\ cfg[KdeKinds[2]] = p
          /\ \A j \in DOMAIN KdeKinds : j < 2 => cfg[KdeKinds[j]] = None
        BY <1>2, <1>4, <1>5 DEF cfg
    <2>q. QED
        BY <1>1, <1>3, <1>4, <2>1, <2>2, FirstIs DEF cfg
<1>6. CASE p \notin HttpProxy
    <2>1. /\ 3 \in DOMAIN GnomeKinds /\ cfg[GnomeKinds[3]] = p
          /\ \A j \in DOMAIN GnomeKinds : j < 3 => cfg[GnomeKinds[j]] = None
        BY <1>2, <1>3, <1>6 DEF cfg
    <2>2. /\ 4 \in DOMAIN KdeKinds /\ cfg[KdeKinds[4]] = p
          /\ \A j \in DOMAIN KdeKinds : j < 4 => cfg[KdeKinds[j]] = None
        BY <1>2, <1>4, <1>6 DEF cfg
    <2>q. QED
        BY <1>1, <1>3, <1>4, <2>1, <2>2, FirstIs DEF cfg
<1>q. QED
    BY <1>5, <1>6

LEMMA FirstOfNothing == First(NotSet, GnomeKinds) = None /\ First(NotSet, KdeKinds) = None
<1>1. /\ DOMAIN GnomeKinds = 1..3 /\ \A i \in 1..3 : GnomeKinds[i] \in Shown
      /\ DOMAIN KdeKinds = 1..4 /\ \A i \in 1..4 : KdeKinds[i] \in Shown
    BY DEF GnomeKinds, KdeKinds, Shown, Field
<1>2. \A f \in Shown : NotSet[f] = None
    BY DEF NotSet
<1>3. /\ \A i \in 1..3 : NotSet[GnomeKinds[i]] = None
      /\ \A i \in 1..4 : NotSet[KdeKinds[i]] = None
    BY <1>1, <1>2
<1>q. QED
    BY <1>1, <1>3, FirstIsNone

\* What GetConfig reads of a desktop where Set, Unset, SetPAC were done.
LEMMA SetIsShown ==
    ASSUME NEW p \in Proxy, NEW d, NEW old
    PROVE  LET w == SetWant(p, old)
           IN  /\ (\A k \in GnomeKey : d[k] = w[k]) => GnomeConfig(d) = Only(p)
               /\ (\A k \in KdeKey : d[k] = w[k]) => KdeConfig(d) = Only(p)
<1> DEFINE w == SetWant(p, old)
           web    == IF p \in SocksProxy THEN None ELSE p
           socks  == IF p \in SocksProxy THEN p ELSE None
<1>1. /\ w[Mode] = "manual" /\ w[<<"kde", "ProxyType">>] = "1"
      /\ \A f \in {"http", "https"} : w[<<f, "host">>] = web /\ w[<<f, "port">>] = web
      /\ w[<<"socks", "host">>] = socks /\ w[<<"socks", "port">>] = socks
      /\ \A f \in {"http", "https"} : w[<<"kde", f>>] = web
      /\ w[<<"kde", "socks">>] = socks
    BY Keys DEF SetWant, HttpKeys, SocksKeys, Mode, Field
<1>2. p # None /\ (p \in HttpProxy <=> p \notin SocksProxy)
    BY LinuxAssumption DEF Proxy
<1>3. /\ DOMAIN Only(p) = Shown
      /\ \A f \in {"http", "https"} : Only(p)[f] = web
      /\ Only(p)["socks"] = socks /\ Only(p)["pac"] = None
    BY <1>2 DEF Only, Shown, Field
<1> HIDE DEF w, web, socks
<1>4. ASSUME \A k \in GnomeKey : d[k] = w[k] PROVE GnomeConfig(d) = Only(p)
    <2>1. \A f \in Field : Endpoints(d, f) = Only(p)[f]
        BY <1>1, <1>3, <1>4, Keys DEF Endpoints, Field
    <2>2. GnomeConfig(d) = [f \in Shown |-> IF f \in Field THEN Endpoints(d, f) ELSE None]
        BY <1>1, <1>4, Keys DEF GnomeConfig
    <2>3. \A f \in Shown : (IF f \in Field THEN Endpoints(d, f) ELSE None) = Only(p)[f]
        BY <1>3, <2>1 DEF Shown
    <2>4. Only(p) = [f \in Shown |-> Only(p)[f]]
        BY DEF Only
    <2>q. QED
        BY <2>2, <2>3, <2>4
<1>5. ASSUME \A k \in KdeKey : d[k] = w[k] PROVE KdeConfig(d) = Only(p)
    <2>1. \A f \in Field : d[<<"kde", f>>] = Only(p)[f]
        BY <1>1, <1>3, <1>5, Keys DEF Field
    <2>2. KdeConfig(d) = [f \in Shown |-> IF f \in Field THEN d[<<"kde", f>>] ELSE None]
        BY <1>1, <1>5, Keys DEF KdeConfig
    <2>3. \A f \in Shown : (IF f \in Field THEN d[<<"kde", f>>] ELSE None) = Only(p)[f]
        BY <1>3, <2>1 DEF Shown
    <2>4. Only(p) = [f \in Shown |-> Only(p)[f]]
        BY DEF Only
    <2>q. QED
        BY <2>2, <2>3, <2>4
<1>q. QED
    BY <1>4, <1>5 DEF w

LEMMA UnsetIsShown ==
    ASSUME NEW d, NEW old
    PROVE  LET w == UnsetWant(old)
           IN  /\ (\A k \in GnomeKey : d[k] = w[k]) => GnomeConfig(d) = NotSet
               /\ (\A k \in KdeKey : d[k] = w[k]) => KdeConfig(d) = NotSet
<1>1. UnsetWant(old)[Mode] = "none" /\ UnsetWant(old)[<<"kde", "ProxyType">>] = "0"
    BY Keys DEF UnsetWant, Mode
<1>q. QED
    BY <1>1, Keys DEF GnomeConfig, KdeConfig

LEMMA PacIsShown ==
    ASSUME NEW u, NEW d, NEW old
    PROVE  LET w == PacWant(u, old)
           IN  /\ (\A k \in GnomeKey : d[k] = w[k]) => GnomeConfig(d) = [NotSet EXCEPT !["pac"] = u]
               /\ (\A k \in KdeKey : d[k] = w[k]) => KdeConfig(d) = [NotSet EXCEPT !["pac"] = u]
<1> DEFINE w == PacWant(u, old)
<1>1. /\ w[Mode] = "auto" /\ w[<<"kde", "ProxyType">>] = "2"
      /\ w[<<"gnome", "autoconfig-url">>] = u /\ w[<<"kde", "Script">>] = u
    BY Keys DEF PacWant, Mode
<1> HIDE DEF w
<1>2. (\A k \in GnomeKey : d[k] = w[k]) => GnomeConfig(d) = [NotSet EXCEPT !["pac"] = u]
    BY <1>1, Keys DEF GnomeConfig
<1>3. (\A k \in KdeKey : d[k] = w[k]) => KdeConfig(d) = [NotSet EXCEPT !["pac"] = u]
    BY <1>1, Keys DEF KdeConfig
<1>q. QED
    BY <1>2, <1>3 DEF w

\* What GetConfig shows depends on these keys alone.
LEMMA SameConfig ==
    ASSUME NEW d, NEW e
    PROVE  /\ (\A k \in GnomeKey \ {<<"gnome", "ignore-hosts">>} : d[k] = e[k])
                 => GnomeConfig(d) = GnomeConfig(e)
           /\ (\A k \in KdeKey \ {<<"kde", "NoProxyFor">>} : d[k] = e[k])
                 => KdeConfig(d) = KdeConfig(e)
<1>1. ASSUME \A k \in GnomeKey \ {<<"gnome", "ignore-hosts">>} : d[k] = e[k]
      PROVE  GnomeConfig(d) = GnomeConfig(e)
    <2>1. d[Mode] = e[Mode] /\ d[<<"gnome", "autoconfig-url">>] = e[<<"gnome", "autoconfig-url">>]
        BY <1>1, Keys DEF Mode
    <2>2. \A f \in Field : d[<<f, "host">>] = e[<<f, "host">>] /\ d[<<f, "port">>] = e[<<f, "port">>]
        BY <1>1, Keys DEF Field
    <2>3. \A f \in Field : Endpoints(d, f) = Endpoints(e, f)
        BY <2>2 DEF Endpoints
    <2>q. QED
        BY <2>1, <2>3 DEF GnomeConfig
<1>2. ASSUME \A k \in KdeKey \ {<<"kde", "NoProxyFor">>} : d[k] = e[k]
      PROVE  KdeConfig(d) = KdeConfig(e)
    <2>1. \A f \in {"ProxyType", "Script", "http", "https", "socks"} : d[<<"kde", f>>] = e[<<"kde", f>>]
        BY <1>2, Keys
    <2>2. \A f \in Field : d[<<"kde", f>>] = e[<<"kde", f>>]
        BY <2>1 DEF Field
    <2>q. QED
        BY <2>1, <2>2 DEF KdeConfig
<1>q. QED
    BY <1>1, <1>2

\* What SetMulti leaves behind, on a session bus.
LEMMA MultiLeft ==
    ASSUME LinuxInv, ~running, Success, op.name = "multi", bus = TRUE
    PROVE  MultiDone(op.arg)
<1> DEFINE cfg == op.arg
           w   == MultiWant(cfg, pre.desk)
<1>1. /\ TypeInv /\ cfg \in Configs /\ Desktop(desk, sys) /\ Desktop(pre.desk, sys)
    BY DEF LinuxInv, TypeInv, DeskInv
<1>2. /\ \A f \in Field : cfg[f] = None \/ cfg[f] \in Proxy
      /\ None \notin Proxy
    BY <1>1, LinuxAssumption DEF Field, Proxy
<1>3. \A k \in Kept(sys, TRUE) : desk[k] = w[k]
    BY Left DEF Want, Names
<1>4. /\ Gnome => \A k \in GnomeKey : desk[k] = w[k]
      /\ Kde => \A k \in KdeKey : desk[k] = w[k]
    BY <1>1, <1>3, AllKept
<1>5. \A k \in Key : k \in Kept(sys, TRUE) \/ desk[k] = pre.desk[k]
    BY <1>1 DEF Desktop, Kept
<1>6. /\ \A k \in {Mode, <<"kde", "ProxyType">>} : ~AnyOf(cfg) => w[k] = pre.desk[k]
      /\ AnyOf(cfg) => w[Mode] = "manual" /\ w[<<"kde", "ProxyType">>] = "1"
      /\ \A f \in Field : \A k \in KeysOf(f) : w[k] = IF cfg[f] = None THEN pre.desk[k] ELSE cfg[f]
      /\ \A k \in {<<"gnome", "ignore-hosts">>, <<"kde", "NoProxyFor">>} :
            w[k] = IF cfg["bypass"] = None THEN pre.desk[k] ELSE cfg["bypass"]
      /\ \A k \in {<<"gnome", "autoconfig-url">>, <<"kde", "ftp">>, <<"kde", "Script">>} :
            w[k] = pre.desk[k]
    BY MultiWantIs
<1> HIDE DEF w, cfg
<1>7. ASSUME NEW f \in Field, cfg[f] # None
      PROVE  /\ Gnome => GnomeConfig(desk)[f] = cfg[f]
             /\ Kde => KdeConfig(desk)[f] = cfg[f]
    <2>1. AnyOf(cfg) /\ f \in Shown
        BY <1>7 DEF AnyOf, Shown
    <2>2. ASSUME Gnome PROVE GnomeConfig(desk)[f] = cfg[f]
        <3>1. desk[Mode] = "manual" /\ desk[<<f, "host">>] = cfg[f] /\ desk[<<f, "port">>] = cfg[f]
            BY <1>4, <1>6, <1>7, <2>1, <2>2, Keys DEF KeysOf
        <3>2. Endpoints(desk, f) = cfg[f]
            BY <1>2, <1>7, <3>1 DEF Endpoints
        <3>q. QED
            BY <2>1, <3>1, <3>2 DEF GnomeConfig
    <2>3. ASSUME Kde PROVE KdeConfig(desk)[f] = cfg[f]
        <3>0. <<"kde", "ProxyType">> \in KdeKey /\ <<"kde", f>> \in KdeKey
            BY Keys DEF Field
        <3>1. desk[<<"kde", "ProxyType">>] = "1" /\ desk[<<"kde", f>>] = cfg[f]
            BY <1>4, <1>6, <1>7, <2>1, <2>3, <3>0 DEF KeysOf
        <3>q. QED
            BY <2>1, <3>1 DEF KdeConfig
    <2>q. QED
        BY <2>2, <2>3
<1>8. ASSUME NEW f \in Field, cfg[f] = None, NEW k \in KeysOf(f) PROVE desk[k] = pre.desk[k]
    <2>1. k \in Key
        BY Keys DEF KeysOf, Field
    <2>q. QED
        BY <1>3, <1>5, <1>6, <1>8, <2>1
<1>9. /\ Gnome => desk[<<"gnome", "ignore-hosts">>]
                    = IF cfg["bypass"] = None THEN pre.desk[<<"gnome", "ignore-hosts">>] ELSE cfg["bypass"]
      /\ Kde => desk[<<"kde", "NoProxyFor">>]
                  = IF cfg["bypass"] = None THEN pre.desk[<<"kde", "NoProxyFor">>] ELSE cfg["bypass"]
    BY <1>4, <1>6, Keys
<1>10. ASSUME \A f \in Field : cfg[f] = None PROVE GetGlobalConfig(desk) = GetGlobalConfig(pre.desk)
    <2>1. ~AnyOf(cfg)
        BY <1>10 DEF AnyOf
    <2>2. ASSUME NEW k \in GnomeKey \ {<<"gnome", "ignore-hosts">>} PROVE desk[k] = pre.desk[k]
        <3>1. k \in Key
            BY Keys
        <3>2. CASE k = Mode \/ k = <<"gnome", "autoconfig-url">>
            BY <1>3, <1>5, <1>6, <2>1, <3>1, <3>2
        <3>3. CASE \E f \in Field : k \in KeysOf(f)
            BY <1>8, <1>10, <3>3
        <3>q. QED
            BY <2>2, <3>2, <3>3, GnomeKeys DEF Ends, KeysOf, Field
    <2>3. ASSUME NEW k \in KdeKey \ {<<"kde", "NoProxyFor">>} PROVE desk[k] = pre.desk[k]
        <3>1. k \in Key
            BY Keys
        <3>2. CASE k \in {<<"kde", "ProxyType">>, <<"kde", "ftp">>, <<"kde", "Script">>}
            BY <1>3, <1>5, <1>6, <2>1, <3>1, <3>2
        <3>3. CASE \E f \in Field : k \in KeysOf(f)
            BY <1>8, <1>10, <3>3
        <3>q. QED
            BY <2>3, <3>2, <3>3, KdeKeys DEF KeysOf, Field
    <2>4. GnomeConfig(desk) = GnomeConfig(pre.desk) /\ KdeConfig(desk) = KdeConfig(pre.desk)
        BY <2>2, <2>3, SameConfig
    <2>q. QED
        BY <2>4 DEF GetGlobalConfig
<1>q. QED
    BY <1>7, <1>8, <1>9, <1>10 DEF MultiDone, KeysOf, cfg

LEMMA ModeLeft ==
    ASSUME LinuxInv, ~running, Success, Gnome PROVE ModeIsStored
<1>1. op.name \in Names => desk[Mode] = Want(op, pre.desk, origin.desk)[Mode]
    BY Left
<1>2. Mode \in Key
    BY Keys
<1>3. op.name = "set" => desk[Mode] = "manual"
    BY <1>1, <1>2 DEF Names, Want, SetWant
<1>4. op.name = "unset" => desk[Mode] = "none"
    BY <1>1, <1>2 DEF Names, Want, UnsetWant
<1>5. op.name = "pac" => desk[Mode] = "auto"
    BY <1>1, <1>2 DEF Names, Want, PacWant
<1>6. op.name = "restore" => desk[Mode] = origin.desk[Mode]
    BY <1>1 DEF Names, Want
<1>7. ASSUME op.name = "multi"
      PROVE  desk[Mode] = "manual" \/ (desk[Mode] = pre.desk[Mode] /\ \A f \in Field : op.arg[f] = None)
    <2>1. desk[Mode] = MultiWant(op.arg, pre.desk)[Mode]
        BY <1>1, <1>7 DEF Names, Want
    <2>q. QED
        BY <2>1, MultiWantIs DEF AnyOf
<1>q. QED
    BY <1>3, <1>4, <1>5, <1>6, <1>7 DEF ModeIsStored

\* What Set, Unset and SetPAC leave behind, on a session bus.
LEMMA ShownThen ==
    ASSUME LinuxInv, ~running, Success, bus = TRUE
    PROVE  /\ op.name = "set"   => Shows(Only(op.arg))
           /\ op.name = "unset" => Shows(NotSet)
           /\ op.name = "pac"   => Shows([NotSet EXCEPT !["pac"] = op.arg])
<1> DEFINE w == Want(op, pre.desk, origin.desk)
<1>1. ASSUME op.name \in Names
      PROVE  /\ Gnome => \A k \in GnomeKey : desk[k] = w[k]
             /\ Kde => \A k \in KdeKey : desk[k] = w[k]
    BY <1>1, Left, AllKept DEF LinuxInv
<1>2. op.name = "set" => op.arg \in Proxy
    BY DEF LinuxInv, TypeInv
<1>3. ASSUME op.name = "set" PROVE Shows(Only(op.arg))
    <2>1. w = SetWant(op.arg, pre.desk)
        BY <1>3 DEF Want
    <2> HIDE DEF w
    <2>q. QED
        BY <1>1, <1>2, <1>3, <2>1, SetIsShown DEF Shows, Names
<1>4. ASSUME op.name = "unset" PROVE Shows(NotSet)
    <2>1. w = UnsetWant(pre.desk)
        BY <1>4 DEF Want
    <2> HIDE DEF w
    <2>q. QED
        BY <1>1, <1>4, <2>1, UnsetIsShown DEF Shows, Names
<1>5. ASSUME op.name = "pac" PROVE Shows([NotSet EXCEPT !["pac"] = op.arg])
    <2>1. w = PacWant(op.arg, pre.desk)
        BY <1>5 DEF Want
    <2> HIDE DEF w
    <2> DEFINE cfg == [NotSet EXCEPT !["pac"] = op.arg]
    <2>2. /\ (\A k \in GnomeKey : desk[k] = w[k]) => GnomeConfig(desk) = cfg
          /\ (\A k \in KdeKey : desk[k] = w[k]) => KdeConfig(desk) = cfg
        BY <2>1, PacIsShown
    <2> HIDE DEF cfg
    <2>3. Shows(cfg)
        BY <1>1, <1>5, <2>2 DEF Shows, Names
    <2>q. QED
        BY <2>3 DEF cfg
<1>q. QED
    BY <1>3, <1>4, <1>5

\* After Set, Unset, SetPAC or SetMulti without a hard error the desktops show
\* what was asked, whichever of the commands before failed; without a session
\* bus the mode at least is what was asked.
THEOREM Success_Done == ASSUME ProbesWork PROVE Spec => []SuccessMeansDone
<1>1. ASSUME LinuxInv, ~running, Success, bus = TRUE
      PROVE  /\ op.name = "set"   => (Gnome \/ Kde => GetGlobal(desk) = op.arg)
             /\ op.name = "unset" => GetGlobal(desk) = None
    <2>1. ASSUME op.name = "set", Gnome \/ Kde PROVE GetGlobal(desk) = op.arg
        <3>1. Shows(Only(op.arg)) /\ op.arg \in Proxy /\ op.arg # None
            BY <1>1, <2>1, ShownThen, LinuxAssumption DEF LinuxInv, TypeInv
        <3>2. First(Only(op.arg), GnomeKinds) = op.arg /\ First(Only(op.arg), KdeKinds) = op.arg
            BY <3>1, FirstOfOnly
        <3>q. QED
            BY <2>1, <3>1, <3>2 DEF GetGlobal, Shows, GnomeKinds, KdeKinds
    <2>2. ASSUME op.name = "unset" PROVE GetGlobal(desk) = None
        <3>1. Shows(NotSet)
            BY <1>1, <2>2, ShownThen
        <3>q. QED
            BY <3>1, FirstOfNothing DEF GetGlobal, Shows, GnomeKinds, KdeKinds
    <2>q. QED
        BY <2>1, <2>2
<1>2. LinuxInv => SuccessMeansDone
    <2>1. SUFFICES ASSUME LinuxInv, ~running, Success
                   PROVE  /\ Gnome => ModeIsStored
                          /\ bus => /\ op.name = "set" => /\ Shows(Only(op.arg))
                                                          /\ (Gnome \/ Kde => GetGlobal(desk) = op.arg)
                                    /\ op.name = "unset" => Shows(NotSet) /\ GetGlobal(desk) = None
                                    /\ op.name = "pac" => Shows([NotSet EXCEPT !["pac"] = op.arg])
                                    /\ op.name = "multi" => MultiDone(op.arg)
        BY DEF SuccessMeansDone
    <2>2. bus => bus = TRUE
        BY <2>1 DEF LinuxInv, TypeInv, TypeOK
    <2>q. QED
        BY <1>1, <2>1, <2>2, ModeLeft, MultiLeft, ShownThen
<1>q. QED
    BY <1>2, LinuxAlways, PTL

\* The restore is exact, and silent when nothing failed.
THEOREM Restore_Exact == ASSUME ProbesWork PROVE Spec => []RestoreIsExact
<1>1. ASSUME LinuxInv, ~running, op.name = "restore", Success, bus = TRUE PROVE desk = origin.desk
    <2>1. Desktop(desk, sys) /\ Desktop(origin.desk, sys)
        BY <1>1 DEF LinuxInv, DeskInv
    <2>2. \A k \in Kept(sys, TRUE) : desk[k] = origin.desk[k]
        BY <1>1, Left DEF Want, Names
    <2>3. \A k \in Key : desk[k] = origin.desk[k]
        BY <2>1, <2>2 DEF Desktop, Kept
    <2>q. QED
        BY <2>1, <2>3 DEF Desktop
<1>2. LinuxInv => RestoreIsExact
    <2>1. SUFFICES ASSUME LinuxInv, ~running, op.name = "restore"
                   PROVE  /\ Success => (bus => desk = origin.desk) /\ (result = Nil => etc = origin.etc)
                          /\ errs = Nil /\ faults = 0 => result = Nil
        BY DEF RestoreIsExact, Ended
    <2>2. bus => bus = TRUE
        BY <2>1 DEF LinuxInv, TypeInv, TypeOK
    <2>q. QED
        BY <1>1, <2>1, <2>2 DEF LinuxInv, RestoreInv
<1>q. QED
    BY <1>2, LinuxAlways, PTL

-----------------------------------------------------------------------------
(* The contract.                                                           *)

\* While an operation is under way all its commands carry what is asked for,
\* whatever has failed, /etc/environment is as it was when it began, and a
\* restore has a snapshot.
CarryInv == running => /\ \A c \in Commands(prog) : c.value = Want(op, pre.desk, origin.desk)[c.key]
                       /\ op.name \in Names /\ pre.etc = etc

ContractInv == LinuxInv /\ CarryInv

LEMMA CarryInit == Init => CarryInv
    BY DEF Init, CarryInv

LEMMA CarryStep == ASSUME ProbesWork PROVE ContractInv /\ [Next]_vars => CarryInv'
<1> SUFFICES ASSUME ContractInv, [Next]_vars PROVE CarryInv'
    OBVIOUS
<1>1. TypeInv /\ SnapInv /\ ProgInv /\ CarryInv
    BY DEF ContractInv, LinuxInv
<1>2. ASSUME NEW o \in Operations, NEW g \in BOOLEAN, Start(o, g) PROVE CarryInv'
    <2>1. CASE running' = FALSE
        BY <2>1 DEF CarryInv
    <2>2. CASE running' = TRUE /\ prog' = Program(g, o)
        <3>1. g = Gnome /\ op' = o /\ pre'.desk = desk /\ pre'.etc = etc /\ UNCHANGED <<etc, origin>>
            BY <1>1, <1>2, ProbeIs DEF Start, machine
        <3>2. OnTrack(Want(o, desk, origin.desk), Commands(prog'), desk, sys, bus)
            BY <1>1, <2>2, <3>1, SystemIs, ProgramOnTrack
        <3>3. \A c \in Commands(prog') : c.value = Want(o, desk, origin.desk)[c.key]
            BY <3>2 DEF OnTrack
        <3>4. o.name \in Names
            BY DEF Operations, Names
        <3>q. QED
            BY <3>1, <3>3, <3>4 DEF CarryInv
    <2>q. QED
        BY <1>2, <2>1, <2>2 DEF Start
<1>3. ASSUME Cancel \/ CommandWorks \/ CommandFails PROVE CarryInv'
    <2>1. /\ running /\ prog # <<>> /\ prog' \in {<<>>, Tail(prog)}
          /\ UNCHANGED <<op, pre, origin, etc>>
        BY <1>3 DEF Cancel, CommandWorks, CommandFails, machine
    <2>2. Commands(prog') \subseteq Commands(prog)
        BY <1>1, <2>1, FirstAndRest, NoCommands DEF ProgInv
    <2>q. QED
        BY <1>1, <2>1, <2>2 DEF CarryInv
<1>4. ASSUME Restore PROVE CarryInv'
    <2>1. /\ snap.open /\ op' = [name |-> "restore"] /\ prog' = RestoreProgram(snap.gnome)
          /\ pre'.etc = etc /\ UNCHANGED <<etc, origin>>
        BY <1>4 DEF Restore, machine
    <2>2. snap.gnome = Gnome /\ snap.desk = origin.desk
        BY <1>1, <2>1 DEF SnapInv
    <2>3. OnTrack(origin.desk, Commands(prog'), desk, sys, bus)
        BY <1>1, <2>1, <2>2, SystemIs, RestoreOnTrack
    <2>4. \A c \in Commands(prog') : c.value = origin.desk[c.key]
        BY <2>3 DEF OnTrack
    <2>q. QED
        BY <2>1, <2>4 DEF CarryInv, Want, Names
<1>5. ASSUME Finish \/ EtcFailed PROVE CarryInv'
    BY <1>5 DEF Finish, EtcFailed, FinishEtcFails, FinishWith, CarryInv
<1>6. ASSUME NEW g, BusDrops \/ Snapshot(g) \/ SnapshotFails(g) PROVE CarryInv'
    BY <1>6 DEF BusDrops, Snapshot, SnapshotFails, CarryInv
<1>7. ASSUME UNCHANGED vars PROVE CarryInv'
    BY <1>1, <1>7 DEF CarryInv, vars, machine
<1>q. QED
    BY <1>2, <1>3, <1>4, <1>5, <1>6, <1>7 DEF Next, EtcFailed

LEMMA ContractAlways == ASSUME ProbesWork PROVE Spec => []ContractInv
    BY LinuxInit, LinuxStep, CarryInit, CarryStep, PTL DEF Spec, ContractInv

\* A desktop and /etc/environment as one function.
LEMMA EtcIsApart == EtcKey \notin Key
    BY DEF EtcKey, Key, GnomeKey, KdeKey, Mode, Field

LEMMA SettingsAre ==
    ASSUME NEW d, NEW e
    PROVE  /\ DOMAIN Settings(d, e) = Key \cup {EtcKey} /\ Settings(d, e)[EtcKey] = e
           /\ \A k \in Key : Settings(d, e)[k] = d[k]
    BY EtcIsApart DEF Settings

LEMMA OtherEtc ==
    ASSUME NEW d, NEW e, NEW f
    PROVE  Settings(d, f) = [Settings(d, e) EXCEPT ![EtcKey] = f]
    BY EtcIsApart DEF Settings

LEMMA GoalIs ==
    /\ DOMAIN Goal = Key \cup {EtcKey}
    /\ Goal[EtcKey] = EtcWant(op, pre.etc, origin.etc)
    /\ \A k \in Here(sys) : Goal[k] = Want(op, pre.desk, origin.desk)[k]
    /\ \A k \in Key \ Here(sys) : Goal[k] = pre.desk[k]
<1>1. PICK want : want = Want(op, pre.desk, origin.desk)
    OBVIOUS
<1>2. Wanted = [k \in Key |-> IF k \in Here(sys) THEN want[k] ELSE pre.desk[k]]
    BY <1>1 DEF Wanted
<1>3. Here(sys) \subseteq Key
    BY DEF Here
<1>4. PICK w, e : w = Wanted /\ e = EtcWant(op, pre.etc, origin.etc)
    OBVIOUS
<1>5. Goal = Settings(w, e)
    BY <1>4 DEF Goal
<1>q. QED
    BY <1>1, <1>2, <1>3, <1>4, <1>5, SettingsAre

\* What an operation has left when it comes to its end without a failure.
LEMMA ReachedThen ==
    ASSUME ContractInv, running, prog = <<>>, errs = Nil
    PROVE  \A k \in Key \ (IF bus THEN {} ELSE GnomeKey \ {Mode}) : desk[k] = Goal[k]
<1>1. PICK w : w = Want(op, pre.desk, origin.desk)
    OBVIOUS
<1>2. OnTrack(w, {}, desk, sys, bus)
    BY <1>1, NoCommands DEF ContractInv, CarryInv, LinuxInv, TrackInv
<1>3. (\A k \in Kept(sys, bus) : desk[k] = w[k]) /\ (sys.gnome => desk[Mode] = w[Mode])
    BY <1>2 DEF OnTrack
<1>4. \A k \in Key \ Here(sys) : desk[k] = Default[k] /\ pre.desk[k] = Default[k]
    BY DEF ContractInv, LinuxInv, DeskInv, Desktop
<1>5. ASSUME NEW k \in Key \ (IF bus THEN {} ELSE GnomeKey \ {Mode}) PROVE desk[k] = Goal[k]
    <2>1. CASE k \notin Here(sys)
        BY <1>4, <2>1, GoalIs
    <2>2. CASE k \in Here(sys)
        <3>1. Goal[k] = w[k]
            BY <1>1, <2>2, GoalIs
        <3>2. k \in Kept(sys, bus) \/ (k = Mode /\ sys.gnome)
            BY <2>2, Keys DEF Kept, Here, Key
        <3>q. QED
            BY <1>3, <3>1, <3>2
    <2>q. QED
        BY <2>1, <2>2
<1>q. QED
    BY <1>5

\* The state a caller relies on, and that it stays while nothing of it changes.
Same == /\ UNCHANGED <<sys, desk, etc, bus, op, running, result, pre, snap, origin>>

LEMMA SameIsStutter == ASSUME Same PROVE UNCHANGED Contract!vars
    BY DEF Same, Contract!vars, Goal, Wanted, Task, Verdict

\* A problem with /etc/environment is told.
LEMMA ProblemIsTold ==
    ASSUME NEW e, NEW desktop, NEW restoring, NEW x, x # Nil, NEW sudo
    PROVE  StepsFinish(e, desktop, restoring, x, sudo) # Nil
<1>1. \A y, z : Join(y, z) = Nil => y = Nil
    BY DEF Join, Nil
<1>q. QED
    BY <1>1, Classes DEF StepsFinish

\* The end of an operation, as far as the contract sees it.
LEMMA EndOfContract ==
    ASSUME ContractInv, TypeInv', Finish \/ EtcFailed
    PROVE  Contract!End
<1>1. TypeInv /\ SnapInv /\ ProgInv /\ CarryInv /\ RestoreInv /\ DeskInv
    BY DEF ContractInv, LinuxInv
<1>2. PICK x \in Error :
        /\ FinishWith(x) /\ running /\ prog = <<>>
        /\ etc' \in {etc, EtcWanted}
        /\ etc' = EtcWanted \/ (x # Nil /\ op.name \in {"set", "unset", "restore"})
    <2>1. CASE Finish
        BY <2>1, Classes DEF Finish
    <2>2. CASE EtcFailed
        <3>1. PICK permission \in BOOLEAN : FinishEtcFails(permission)
            BY <2>2 DEF EtcFailed
        <3>2. /\ etc' = etc /\ running /\ prog = <<>> /\ op.name \in {"set", "unset", "restore"}
              /\ FinishWith(EtcEnvironmentResult(Hard, permission))
            BY <3>1 DEF FinishEtcFails
        <3>q. QED
            BY <3>2, EtcResult, Classes
    <2>q. QED
        BY <2>1, <2>2
<1>3. /\ running' = FALSE /\ op.name \in Names /\ pre.etc = etc
      /\ snap' = (IF op.name = "restore" THEN NoSnap ELSE snap)
      /\ UNCHANGED <<sys, desk, bus, op, pre, origin>>
    BY <1>1, <1>2 DEF FinishWith, CarryInv
<1>4. /\ result' = Nil \/ IsNonCritical(result') => errs = Nil
      /\ result' = Nil => etc' = EtcWanted
    <2>1. result' = Nil \/ IsNonCritical(result') => errs = Nil
        BY <1>1, <1>2, EndResult
    <2>2. ASSUME result' = Nil, x # Nil, op.name \in {"set", "unset", "restore"} PROVE FALSE
        <3>1. PICK desktop, restoring : result' = StepsFinish(errs, desktop, restoring, x, sys.sudo)
            BY <1>2, <2>2 DEF FinishWith
        <3>q. QED
            BY <2>2, <3>1, ProblemIsTold
    <2>q. QED
        BY <1>2, <2>1, <2>2
<1>5. EtcWanted = Goal[EtcKey]
    <2>1. op.name = "restore" => snap.etc = origin.etc
        BY <1>1, <1>2 DEF RestoreInv, SnapInv
    <2>q. QED
        BY <1>3, <2>1, GoalIs DEF EtcWanted, EtcWant
<1>6. PICK s, t, g, ls : /\ s = Settings(desk, etc) /\ t = Settings(desk, etc') /\ g = Goal
                         /\ ls = IF bus THEN {} ELSE GnomeKey \ {Mode}
    OBVIOUS
<1>7. t = s \/ t = [s EXCEPT ![EtcKey] = g[EtcKey]]
    BY <1>2, <1>5, <1>6, OtherEtc
<1>8. result' = Nil => \A k \in (Key \cup {EtcKey}) \ ls : t[k] = g[k]
    BY <1>2, <1>4, <1>5, <1>6, ReachedThen, SettingsAre
<1>9. IsNonCritical(result') => \A k \in (Key \cup {EtcKey}) \ (ls \cup {EtcKey}) : t[k] = g[k]
    BY <1>2, <1>4, <1>6, ReachedThen, SettingsAre
<1>10. Task # "idle" /\ Task' = "idle" /\ (Task = "restore" <=> op.name = "restore")
    BY <1>2, <1>3 DEF Task
<1>11. /\ snap'.open = (snap.open /\ Task # "restore")
    BY <1>1, <1>3, <1>10 DEF NoSnap, SnapInv
<1>12. Verdict' = IF result' = Nil THEN "ok" ELSE IF IsNonCritical(result') THEN "warning" ELSE "failure"
    BY <1>3 DEF Verdict, Names
<1>13. PICK v : v = Verdict'
    OBVIOUS
<1>14. \/ v = "ok" /\ \A k \in (Key \cup {EtcKey}) \ ls : t[k] = g[k]
       \/ v = "warning" /\ \A k \in (Key \cup {EtcKey}) \ (ls \cup {EtcKey}) : t[k] = g[k]
       \/ v = "failure"
    BY <1>8, <1>9, <1>12, <1>13
<1>15. t \in {s} \cup {[s EXCEPT ![k] = g[k]] : k \in {EtcKey}}
    BY <1>7
<1>16. Settings(desk, etc)' = t /\ Settings(origin.desk, origin.etc)' = Settings(origin.desk, origin.etc)
    BY <1>3, <1>6
<1>q. QED
    BY <1>2, <1>3, <1>6, <1>10, <1>11, <1>13, <1>14, <1>15, <1>16
       DEF Contract!End, Contract!With, Contract!Reached

LEMMA StepRefines ==
    ASSUME ProbesWork, ContractInv, TypeInv', [Next]_vars
    PROVE  [Contract!Next]_(Contract!vars)
<1>1. TypeInv /\ DeskInv /\ SnapInv /\ ProgInv /\ CarryInv
    BY DEF ContractInv, LinuxInv
<1>2. ASSUME NEW o \in Operations, NEW g \in BOOLEAN, Start(o, g)
      PROVE  Contract!Begin \/ Contract!Refuse
    <2>1. /\ ~running /\ op' = o /\ UNCHANGED <<sys, desk, etc, bus, snap, origin>>
          /\ o.name # "restore" /\ o.name # "none"
        BY <1>2 DEF Start, machine, Operations
    <2>2. CASE running' = FALSE /\ result' = Hard
        BY <2>1, <2>2, Classes DEF Contract!Refuse, Task, Verdict
    <2>3. CASE running' = TRUE
        <3>1. DOMAIN Goal' = (Key \cup {EtcKey})
            BY SettingsAre DEF Goal
        <3>q. QED
            BY <2>1, <2>3, <3>1 DEF Contract!Begin, Task, Verdict
    <2>q. QED
        BY <1>2, <2>2, <2>3 DEF Start
<1>3. ASSUME Cancel \/ CommandFails PROVE UNCHANGED Contract!vars
    BY <1>3, SameIsStutter DEF Cancel, CommandFails, machine, Same
<1>4. ASSUME BusDrops PROVE Contract!Degrade
    BY <1>1, <1>4, EtcIsApart DEF BusDrops, Contract!Degrade, Task, Verdict, Key
<1>5. ASSUME CommandWorks PROVE Contract!Put \/ UNCHANGED Contract!vars
    <2>1. PICK c : c = Head(prog)
        OBVIOUS
    <2>2. /\ running /\ prog # <<>> /\ desk' = After(desk, c, bus)
          /\ UNCHANGED <<sys, etc, bus, op, running, result, pre, snap, origin>>
        BY <1>5, <2>1 DEF CommandWorks, machine, After
    <2>3. c \in Commands(prog)
        BY <1>1, <2>1, <2>2, FirstAndRest DEF ProgInv
    <2>4. c.key \in Here(sys) /\ c.key \in Key /\ c.value = Goal[c.key] /\ DOMAIN desk = Key
        BY <1>1, <2>2, <2>3, GoalIs DEF ProgInv, Proper, Here, CarryInv, DeskInv, Desktop
    <2>5. CASE desk' = desk
        BY <2>2, <2>5, SameIsStutter DEF Same
    <2>6. CASE desk' = [desk EXCEPT ![c.key] = c.value]
        <3>1. Settings(desk, etc)' = [Settings(desk, etc) EXCEPT ![c.key] = Goal[c.key]]
            <4>1. PICK k, v : k = c.key /\ v = c.value
                OBVIOUS
            <4>2. Settings([desk EXCEPT ![k] = v], etc) = [Settings(desk, etc) EXCEPT ![k] = v]
                <5>1. k \in Key /\ DOMAIN desk = Key
                    BY <2>4, <4>1
                <5>q. QED
                    BY <5>1, EtcIsApart DEF Settings
            <4>3. Settings(desk, etc)' = Settings(desk', etc')
                OBVIOUS
            <4>q. QED
                BY <2>2, <2>4, <2>6, <4>1, <4>2, <4>3
        <3>2. Goal' = Goal /\ Task' = Task /\ Verdict' = Verdict /\ Task # "idle"
            BY <2>2 DEF Goal, Wanted, Task, Verdict
        <3>q. QED
            BY <2>2, <2>4, <3>1, <3>2 DEF Contract!Put, Contract!With
    <2>q. QED
        BY <2>2, <2>5, <2>6 DEF After
<1>6. ASSUME Finish \/ EtcFailed PROVE Contract!End
    BY <1>6, EndOfContract
<1>7. ASSUME NEW g, Snapshot(g) PROVE Contract!Save
    BY <1>1, <1>7 DEF Snapshot, machine, Contract!Save, Task, Verdict
<1>8. ASSUME NEW g, SnapshotFails(g) PROVE Contract!Refuse
    BY <1>1, <1>8, Classes DEF SnapshotFails, machine, Contract!Refuse, Task, Verdict
<1>9. ASSUME Restore PROVE Contract!Rewind
    <2>1. /\ ~running /\ snap.open /\ op' = [name |-> "restore"] /\ running' = TRUE
          /\ pre' = [desk |-> desk, etc |-> etc]
          /\ UNCHANGED <<sys, desk, etc, bus, snap, origin>>
        BY <1>9 DEF Restore, machine
    <2>2. Goal' = Settings(origin.desk, origin.etc)
        <3>1. PICK new : new = Wanted'
            OBVIOUS
        <3>2. new = [k \in Key |-> IF k \in Here(sys) THEN origin.desk[k] ELSE desk[k]]
            BY <2>1, <3>1 DEF Wanted, Want
        <3>3. \A k \in Key \ Here(sys) : desk[k] = Default[k] /\ origin.desk[k] = Default[k]
            BY <1>1 DEF DeskInv, Desktop
        <3>4. \A k \in Key : new[k] = origin.desk[k]
            BY <3>2, <3>3
        <3>5. Settings(new, origin.etc) = Settings(origin.desk, origin.etc)
            BY <3>4, EtcIsApart DEF Settings
        <3>6. EtcWant(op', pre'.etc, origin'.etc) = origin.etc
            BY <2>1 DEF EtcWant
        <3>q. QED
            BY <3>1, <3>5, <3>6 DEF Goal
    <2>q. QED
        BY <2>1, <2>2 DEF Contract!Rewind, Task, Verdict
<1>10. ASSUME UNCHANGED vars PROVE UNCHANGED Contract!vars
    BY <1>10, SameIsStutter DEF vars, machine, Same
<1>q. QED
    BY <1>2, <1>3, <1>4, <1>5, <1>6, <1>7, <1>8, <1>9, <1>10 DEF Next, EtcFailed, Contract!Next

LEMMA StartsAsContract == Init => Contract!Init
<1> SUFFICES ASSUME Init PROVE Contract!Init
    OBVIOUS
<1>1. /\ running = FALSE /\ op.name = "none" /\ bus = TRUE /\ snap.open = FALSE
      /\ origin.desk = desk /\ origin.etc = etc
    BY DEF Init, NoSnap
<1>q. QED
    BY <1>1, SettingsAre DEF Contract!Init, Task, Verdict

\* The Linux backend keeps the contract of a backend, for any systems on which
\* the probe for GNOME works, values, operations and failures: an operation
\* that is cut off leaves each setting as it was or as asked, and one that
\* reports no error has set all of them.
THEOREM Linux_KeepsContract == ASSUME ProbesWork PROVE Spec => KeepsContract
<1>1. ContractInv /\ [Next]_vars /\ ContractInv' => [Contract!Next]_(Contract!vars)
    BY StepRefines DEF ContractInv, LinuxInv
<1>q. QED
    BY <1>1, StartsAsContract, ContractAlways, PTL DEF Spec, KeepsContract, Contract!Spec

=============================================================================
