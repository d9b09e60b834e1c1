---------------------------- MODULE MCJudgements ----------------------------
(* Judgements for TLC: chains of three records and every edit of one; the   *)
(* inquiries, hosts and baselines below.                                    *)
EXTENDS Judgements

(* Upstream.  Commit subjects, logs, records, installed packages.           *)
Subject(wording, term, reason) == [wording |-> wording, term |-> term, reason |-> reason, read |-> TRUE]
Ordinary == Subject(Unset, Unset, FALSE)
Malware == Subject("opens-history", "bare", FALSE)
NotRead == [Ordinary EXCEPT !.read = FALSE]
Subjects == {Ordinary, Malware, NotRead, Subject(Unset, "bare", FALSE), Subject("opens", Unset, FALSE),
             Subject("opens", "bare", FALSE), Subject("opens-history", "hyphen", TRUE), Subject("history", "weak", FALSE)}
Healthy == Log("log", <<Ordinary>>)
Tombstoned == Log("log", <<Malware>>)
MCLogs == {Log("no-branch", <<>>), Log("no-log", <<>>)}
          \cup {Log("log", <<x>>) : x \in Subjects} \cup {Log("log", <<x, y>>) : x \in Subjects, y \in {Ordinary, Malware}}

Of(name, base) == [name |-> name, base |-> base]
RpcRecord(name, base, maintainer, submitter) ==
    [name |-> name, base |-> base, maintainer |-> maintainer, submitter |-> submitter]
Aur(index, foo, bar) ==
    [index |-> index, logs |-> [b \in {"foo", "bar", Unset} |->
        CASE b = "foo" -> foo [] b = "bar" -> bar [] OTHER -> Log("failed", <<>>)]]
FooFoo == RpcRecord("foo", "foo", "a", "a")
FooBar == RpcRecord("foo", "bar", "a", "a")
BarBar == RpcRecord("bar", "bar", "a", "a")
BinFoo == RpcRecord("bin", "foo", "b", "b")
BinBar == RpcRecord("bin", "bar", "b", "b")
Taken == RpcRecord("foo", "foo", "b", "a")
Orphan == RpcRecord("bar", "bar", Unset, Unset)
MCStrays == {FooFoo, BinFoo, RpcRecord(Unset, "bar", "a", "a"), RpcRecord("bin", Unset, "a", "a"), RpcRecord("other", "foo", "b", "b")}

Inquiry(wanted, strays, faults) ==
    [packages |-> wanted, repositories |-> {"off"}, unreadable |-> {}, network |-> TRUE, strays |-> strays, faults |-> faults]
Plainly == <<Of("bar", "bar"), Of("foo", "foo")>>
Split == <<Of("bar", "foo"), Of("bin", "foo"), Of("foo", "bar"), Of("off", "off")>>
Asks(i, states) == [inquiry |-> i, aur |-> states]

MCInquiries ==
    {Asks(Inquiry(Plainly, MCStrays, 1), <<Aur({FooFoo, BarBar, BinFoo}, Healthy, Healthy), Aur({BarBar}, Tombstoned, Healthy),
                                           Aur({BarBar, FooBar}, Tombstoned, Healthy)>>),
     Asks(Inquiry(Split, MCStrays, 1), <<Aur({Orphan, BinBar, Taken}, Healthy, Healthy), Aur({BinFoo, FooBar}, Healthy, Tombstoned)>>),
     Asks(Inquiry(Split, MCStrays, 1), <<Aur({BinFoo, FooBar}, Tombstoned, Healthy),
                                         Aur({BinFoo}, Healthy, Log("log", <<Ordinary, Malware>>))>>),
     Asks([Inquiry(Plainly, {}, 0) EXCEPT !.network = FALSE, !.unreadable = {"extra"}], <<Aur({}, Healthy, Healthy)>>),
     Asks(Inquiry(<<Of("foo", Unset)>>, MCStrays, 1), <<Aur({FooFoo}, Healthy, Healthy), Aur({}, Healthy, Healthy)>>)}
    \cup {Asks(Inquiry(<<Of("foo", "foo")>>, {}, 0), <<Aur(index, l, Healthy)>>) : index \in {{}, {FooBar}}, l \in MCLogs}

-----------------------------------------------------------------------------
(* Drift.  What may happen to two packages and a log of one or two files.   *)
Changes == {"pacman", "elsewhere", "tamper", "block", "rotate", "cut", "garble", "shut"}
Session(names, may, records, installed, files) ==
    [names |-> names, changes |-> [k \in Changes |-> IF k \in DOMAIN may THEN may[k] ELSE 0], records |-> records,
     packages |-> installed, log |-> [files |-> files, listed |-> TRUE]]
PQ(p, q) == [name \in Names |-> IF name = "p" THEN p ELSE q]
State(version, digest, date) == [version |-> version, digest |-> digest, date |-> date]
Stamp(t) == Line("other", Here, "none", "none", None, t)
OneFile == <<[kind |-> "plain", lines |-> <<Stamp(2)>>]>>
TwoFiles == <<[kind |-> "plain", lines |-> <<Stamp(1)>>]>> \o OneFile
NoFiles == <<[kind |-> "absent", lines |-> <<>>]>>
Adjudication(rule, subject, scope, reason, expires) ==
    [rule |-> rule, subject |-> subject, scope |-> scope, reason |-> reason, expires |-> expires]
Adjudications == {Adjudication("drift", "p", "subject", TRUE, 4), Adjudication("drift", "p", "pin", FALSE, None),
                  Adjudication("drift", "none", "rule", TRUE, None),
                  Adjudication("other", "p", "subject", TRUE, None)}
One == PQ(State(1, 1, 2), NotInstalled)
P == {"p"}

MCSessions ==
    {Session(Names, [pacman |-> 2], {}, One, OneFile),
     Session(P, [pacman |-> 3], {}, One, OneFile),
     Session({"q"}, [pacman |-> 3], {}, One, OneFile),
     Session(Names, [tamper |-> 1, block |-> 2], {}, One, OneFile),
     Session(Names, [pacman |-> 1, tamper |-> 1, block |-> 1], {}, One, NoFiles),
     Session(P, [pacman |-> 1, tamper |-> 2, cut |-> 1], {}, One, TwoFiles),
     Session(P, [tamper |-> 2, cut |-> 2], {}, One, TwoFiles),
     Session(P, [pacman |-> 1, tamper |-> 1, rotate |-> 2], {}, One, OneFile),
     Session(P, [tamper |-> 2, cut |-> 1, garble |-> 1], Adjudications, One, OneFile),
     Session(P, [pacman |-> 1, garble |-> 3], {}, One, OneFile),
     Session(P, [pacman |-> 1, tamper |-> 1, shut |-> 2], {}, One, TwoFiles),
     Session({"q"}, [pacman |-> 2], {}, PQ(NotInstalled, State(2, 1, 1)), TwoFiles),
     Session(P, [elsewhere |-> 1, tamper |-> 1, cut |-> 1], {}, One, OneFile)}

-----------------------------------------------------------------------------
(* Correlation.  Six files, four packages.                                  *)
MCPaths == {"unit", "link", "hook", "prof", "tool", "local"}
MCPkgs == {"f", "g", "k", "r"}
MCDir == [x \in MCPaths |-> CASE x = "unit" -> "sys" [] x = "link" -> "wants" [] x = "hook" -> "hooks"
                              [] x = "prof" -> "profile" [] x = "tool" -> "sys" [] x = "local" -> "bin"]
MCMatches == [x \in MCPaths |-> IF x = "local" THEN {"g"} ELSE {}]
Item(family, path, target, holds) == [family |-> family, path |-> path, target |-> target, holds |-> holds]
Mixed == <<Item("unit", "unit", "tool", "resolves"), Item("unit", "unit", "local", "resolves"),
           Item("unit", "unit", "tool", "absent"), Item("link", "link", "unit", "on"),
           Item("hook", "hook", NoPath, "active"), Item("hook", "prof", NoPath, "off"),
           Item("suppression", "hook", NoPath, "on"), Item("profile", "prof", NoPath, "suspicious"),
           Item("profile", "local", NoPath, "info")>>
Four == <<Item("profile", "hook", NoPath, "suspicious"), Item("profile", "link", NoPath, "suspicious"),
          Item("environment", "prof", NoPath, "suspicious"), Item("profile", "tool", NoPath, "suspicious")>>
Mtimes(unit, link, hook, prof, tool, local) ==
    [x \in MCPaths |-> CASE x = "unit" -> unit [] x = "link" -> link [] x = "hook" -> hook
                         [] x = "prof" -> prof [] x = "tool" -> tool [] x = "local" -> local]
Dates(f, g, k) == [p \in MCPkgs |-> CASE p = "f" -> f [] p = "g" -> g [] p = "k" -> k [] p = "r" -> 10]
MCHost(mtime, date, surfaces, lose) ==
    [mtime |-> mtime, date |-> date, offered |-> {"r"}, surfaces |-> surfaces, lose |-> lose]
MCHosts ==
    {MCHost(Mtimes(10, 0, 11, 20, 10, 40), Dates(10, 21, 90), Mixed, 1), MCHost(Mtimes(30, 30, 11, 20, 31, 40), Dates(10, 40, 90), Mixed, 2),
     MCHost(Mtimes(10, 10, 30, 20, 40, 12), Dates(0, 30, 90), Mixed, 2), MCHost(Mtimes(60, 7, 19, 11, 15, 60), Dates(10, 13, 16), Four, 2)}
=============================================================================
