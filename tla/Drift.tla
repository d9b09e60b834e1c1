-------------------------------- MODULE Drift -------------------------------
(* `baseline write` and `baseline diff` over a host that pacman changes, that*)
(* something else changes too, and whose log is rotated, cut and garbled:   *)
(* what changed since the signed baseline and how it is classified.         *)
EXTENDS PacmanLog

CONSTANTS
    Names,           \* package names
    Versions,        \* 1..n
    Digests,         \* 1..n: digests of a package's mtree
    DriftSessions    \* what each scenario may do

(* A log of this host, no line of which is from the future.                 *)
LogLines == [kind : LineKinds, root : {Here, "mnt"},
             op : {"installed", "reinstalled", "upgraded", "downgraded", "removed", "none"},
             pkg : Names \cup {"none"}, version : Versions \cup {None}, time : Nat \ {None}]
LogFiles == [kind : FileKinds, lines : Seq(LogLines)]
IsLog(l, at) ==
    /\ DOMAIN l = {"files", "listed"} /\ l.files \in Seq(LogFiles)
    /\ l.files # <<>> /\ (Last(l.files).kind = "absent" => Last(l.files).lines = <<>>)
    /\ \A i \in DOMAIN l.files : \A k \in DOMAIN l.files[i].lines : l.files[i].lines[k].time <= at

(* A package as it is recorded; the digest of an mtree that was not read is *)
(* None, and so is all there is of a package that is not installed.         *)
PackageStates == [version : Versions \cup {None}, digest : Digests \cup {None}, date : Nat]

ASSUME DriftAssumption ==
    /\ Versions \subseteq Nat \ {None} /\ Digests \subseteq Nat \ {None}
    /\ \A s \in DriftSessions :
           /\ s.names \subseteq Names /\ s.packages \in [Names -> PackageStates] /\ IsLog(s.log, 2)
           /\ \A r \in s.records : r.expires \in Nat

VARIABLES
    session,     \* the scenario: its records, and which steps it has
    packages,    \* name -> [version, digest, date]; version None: not installed
    unread,      \* packages whose mtree cannot be read
    log,         \* PacmanLog's files
    now,         \* the clock
    manifest,    \* the signed baseline
    scan,        \* the command under way, its log already read
    report,      \* what the last diff said
    tampered,    \* packages changed by something else than pacman since the baseline
    touched      \* packages pacman changed since the log was read

driftVars == <<session, packages, unread, log, now, manifest, scan, report, tampered, touched>>

NotInstalled == [version |-> None, digest |-> None, date |-> None]

(* One package as it is observed: its digest only where its mtree was read. *)
Seen(p) == IF p \in unread THEN [packages[p] EXCEPT !.digest = None] ELSE packages[p]

-----------------------------------------------------------------------------
(* BuildManifest: the baseline records versions and digests and the log's   *)
(* earliest stamp, and a gap for each it does not have.                     *)
NoManifest == [signed |-> FALSE, created |-> None, earliest |-> None, gaps |-> {},
               packages |-> [p \in Names |-> NotInstalled]]

ManifestGaps(read) ==
    {p \in Names : Seen(p).version # None /\ Seen(p).digest = None}
    \cup {g \in {"log-window", "log-bounded"} : \/ g = "log-window" /\ read.earliest = None
                                                \/ g = "log-bounded" /\ read.bounded}

BuildManifest(read, created) ==
    [signed |-> TRUE, created |-> created, earliest |-> read.earliest, gaps |-> ManifestGaps(read),
     packages |-> [p \in Names |-> Seen(p)]]

-----------------------------------------------------------------------------
(* A mutant: a package the baseline does not have counts only once read.    *)
ChangeReadOnly(base, cur) ==
    IF cur.version = None THEN IF base.version = None THEN "none" ELSE "removed"
    ELSE IF base.version = None THEN IF cur.digest = None THEN "none" ELSE "added"
    ELSE IF cur.digest = None THEN "unread"
    ELSE IF base.version # cur.version THEN "version"
    ELSE IF base.digest # None /\ base.digest # cur.digest THEN "mtree"
    ELSE "none"

(* What changed: "added", "removed", "version", "mtree", a gap ("unread"),  *)
(* or nothing; a baseline without a digest has none to compare.             *)
Change(base, cur) ==
    IF cur.version = None THEN IF base.version = None THEN "none" ELSE "removed"
    ELSE IF cur.digest = None THEN "unread"
    ELSE IF base.version = None THEN "added"
    ELSE IF base.version # cur.version THEN "version"
    ELSE IF base.digest # None /\ base.digest # cur.digest THEN "mtree"
    ELSE "none"

(* A mutant: one operation fewer.                                           *)
OpExplainsFewer(change, op) ==
    CASE change = "added" -> op \in {"installed", "reinstalled", "upgraded"}
      [] change = "removed" -> op = "removed"
      [] OTHER -> op \in {"installed", "reinstalled", "upgraded"}

OpExplains(change, op) ==
    CASE change = "added" -> op \in {"installed", "reinstalled", "upgraded"}
      [] change = "removed" -> op = "removed"
      [] OTHER -> op \in {"installed", "reinstalled", "upgraded", "downgraded"}

(* A transaction since the baseline that left what is there now.            *)
Corroborated(change, p, cur, m, read) ==
    \E tx \in read.entries :
        /\ tx.pkg = p /\ tx.time >= m.created /\ OpExplains(change, tx.op)
        /\ change = "removed" \/ tx.version = cur.version

(* A record is [rule, subject, scope, reason, expires].  Those of the drift *)
(* rule are passed on, and of these the ones that can not be used are gaps. *)
DriftRecords == {r \in session.records : r.rule = "drift"}

Usable(r, at) == /\ r.reason /\ r.scope \in {"pin", "subject", "rule"}
                 /\ r.scope # "rule" => r.subject # "none"
                 /\ r.expires = None \/ at < r.expires

(* A mutant: a log that is gone altogether is no longer one that was cut.   *)
TruncatedWhenRead(m, read) == m.earliest # None /\ read.earliest # None /\ read.earliest > m.earliest

Truncated(m, read) == m.earliest # None /\ (read.earliest = None \/ read.earliest > m.earliest)

(* The log never covered what would explain it, on the baseline's word.     *)
CoverageShortfall(cur, m, read) ==
    /\ ~Truncated(m, read)
    /\ \/ cur.version # None /\ cur.date # None /\ m.earliest # None /\ cur.date < m.earliest
       \/ /\ m.earliest = None
          /\ \/ cur.version # None /\ cur.date # None /\ read.earliest # None /\ cur.date < read.earliest
             \/ read.earliest = None
             \/ read.earliest > m.created

Classify(change, p, cur, m, read, at) ==
    IF Corroborated(change, p, cur, m, read) THEN "corroborated"
    ELSE IF \E r \in DriftRecords : Usable(r, at) /\ r.subject = p THEN "adjudicated"
    ELSE IF CoverageShortfall(cur, m, read) THEN "log-coverage-gap"
    ELSE "unexplained"

(* Drift: an item for each change, and the gaps.                            *)
Items(m, read, at) ==
    {[package |-> p, change |-> Change(m.packages[p], Seen(p)),
      bucket |-> Classify(Change(m.packages[p], Seen(p)), p, Seen(p), m, read, at)] :
        p \in {q \in Names : Change(m.packages[q], Seen(q)) \notin {"none", "unread"}}}

DriftGaps(m, read, at) ==
    {p \in Names : Change(m.packages[p], Seen(p)) = "unread"}
    \cup {g \in {"log-coverage", "log-bounded", "record"} :
            \/ g = "log-coverage" /\ \E i \in Items(m, read, at) : i.bucket = "log-coverage-gap"
            \/ g = "log-bounded" /\ read.bounded
            \/ g = "record" /\ \E r \in DriftRecords : ~Usable(r, at)}

NoReport == [done |-> FALSE, items |-> {}, gaps |-> {}, truncated |-> FALSE]

(* The unexplained changes: what a diff of this moment calls critical.      *)
Unexplained(m, read, at) == {i \in Items(m, read, at) : i.bucket = "unexplained"}

-----------------------------------------------------------------------------
(* The commands.  Both read the log first and the packages after the scan.  *)
Idle == "none"

Begin(command) ==
    /\ scan.command = Idle
    /\ manifest.signed = (command = "diff")
    /\ scan' = [command |-> command, read |-> Read(log), at |-> now]
    /\ touched' = {} /\ report' = NoReport
    /\ UNCHANGED <<session, packages, unread, log, now, manifest, tampered>>

Finish == [scan EXCEPT !.command = Idle]

BaselineWrite ==
    /\ scan.command = "write"
    /\ manifest' = BuildManifest(scan.read, scan.at)
    /\ scan' = Finish /\ tampered' = {}
    /\ UNCHANGED <<session, packages, unread, log, now, report, touched>>

BaselineDiff ==
    /\ scan.command = "diff"
    /\ report' = [done |-> TRUE, items |-> Items(manifest, scan.read, scan.at),
                  gaps |-> DriftGaps(manifest, scan.read, scan.at) \cup scan.read.gaps,
                  truncated |-> Truncated(manifest, scan.read)]
    /\ scan' = Finish
    /\ UNCHANGED <<session, packages, unread, log, now, manifest, tampered, touched>>

-----------------------------------------------------------------------------
(* The host.  Every step takes one of the scenario's changes.               *)
Spend(kind) == /\ session.changes[kind] > 0
               /\ session' = [session EXCEPT !.changes[kind] = @ - 1]
               /\ report' = NoReport

Append2(lines) == [log EXCEPT !.files[Len(log.files)].kind = IF @ = "absent" THEN "plain" ELSE @,
                              !.files[Len(log.files)].lines = @ \o lines]

Op(old, new) ==
    IF new.version = None THEN "removed" ELSE IF old.version = None THEN "installed"
    ELSE IF new.version = old.version THEN "reinstalled" ELSE IF new.version > old.version THEN "upgraded"
    ELSE "downgraded"

States(at) == {NotInstalled} \cup [version : Versions, digest : Digests, date : {at}]

(* pacman changes a package of this root and logs it.                       *)
Pacman(p) ==
    \E new \in States(now + 1) :
        /\ Spend("pacman")
        /\ packages[p].version # None \/ new.version # None
        /\ now' = now + 1
        /\ packages' = [packages EXCEPT ![p] = new]
        /\ log' = Append2(<<Line("run", Here, "none", "none", None, now + 1),
                            Line("tx", Here, Op(packages[p], new), p,
                                 IF new.version = None THEN packages[p].version ELSE new.version, now + 1)>>)
        /\ touched' = touched \cup {p}
        /\ tampered' = tampered \ {p}
        /\ UNCHANGED <<unread, manifest, scan>>

(* The same for a package of another root.                                  *)
Elsewhere(p) ==
    \E v \in Versions :
        /\ Spend("elsewhere")
        /\ now' = now + 1
        /\ log' = Append2(<<Line("run", "mnt", "none", "none", None, now + 1),
                            Line("tx", "mnt", "reinstalled", p, v, now + 1)>>)
        /\ UNCHANGED <<packages, unread, manifest, scan, tampered, touched>>

(* Something else changes it, and the date recorded with it.                *)
Tamper(p) ==
    \E new \in States(packages[p].date) \cup States(1) :
        /\ Spend("tamper")
        /\ new # packages[p]
        /\ packages' = [packages EXCEPT ![p] = new]
        /\ tampered' = tampered \cup {p}
        /\ UNCHANGED <<unread, log, now, manifest, scan, touched>>

Block(p) ==
    /\ Spend("block")
    /\ unread' = IF p \in unread THEN unread \ {p} ELSE unread \cup {p}
    /\ UNCHANGED <<packages, log, now, manifest, scan, tampered, touched>>

(* The live file becomes a sibling; a sibling is lost, or cannot be read.   *)
Rotate ==
    \E kind \in {"plain", "unsupported", "odd"} :
        /\ Spend("rotate")
        /\ Last(log.files).kind = "plain"
        /\ log' = [log EXCEPT !.files = Append([@ EXCEPT ![Len(log.files)].kind = kind],
                                               [kind |-> "absent", lines |-> <<>>])]
        /\ UNCHANGED <<packages, unread, now, manifest, scan, tampered, touched>>

Lines(file) == Len(file.lines)

(* The first lines of the oldest file are gone, with the file if all are.   *)
Cut ==
    \E n \in 1..Lines(Head(log.files)) :
        /\ Spend("cut")
        /\ log' = IF n = Lines(Head(log.files)) /\ Len(log.files) > 1 THEN [log EXCEPT !.files = Tail(@)]
                  ELSE [log EXCEPT !.files[1].lines = SubSeq(@, n + 1, Len(@))]
        /\ UNCHANGED <<packages, unread, now, manifest, scan, tampered, touched>>

Garble ==
    \E kind \in {"unparsed", "overlong", "unknown", "other"} :
        /\ Spend("garble")
        /\ now' = now + 1
        /\ log' = Append2(<<Line(kind, Here, "none", "none", None, now + 1)>>)
        /\ UNCHANGED <<packages, unread, manifest, scan, tampered, touched>>

Shut ==
    \E i \in DOMAIN log.files, kind \in {"shut", "torn"} :
        /\ Spend("shut")
        /\ log.files[i].kind = "plain"
        /\ log' = IF i < Len(log.files) /\ kind = "torn" THEN [log EXCEPT !.listed = FALSE]
                  ELSE [log EXCEPT !.files[i].kind = kind]
        /\ UNCHANGED <<packages, unread, now, manifest, scan, tampered, touched>>

DriftInit ==
    /\ session \in DriftSessions
    /\ packages = session.packages
    /\ unread = {} /\ log = session.log /\ now = 2
    /\ manifest = NoManifest /\ report = NoReport /\ tampered = {} /\ touched = {}
    /\ scan = [command |-> Idle, read |-> Read(log), at |-> now]

DriftNext ==
    \/ \E command \in {"write", "diff"} : Begin(command)
    \/ BaselineWrite
    \/ BaselineDiff
    \/ \E p \in session.names : Pacman(p) \/ Elsewhere(p) \/ Tamper(p) \/ Block(p)
    \/ Rotate \/ Cut \/ Garble \/ Shut

-----------------------------------------------------------------------------
(* What there is of the installed packages differs from the baseline's      *)
(* record of them exactly where a diff says so: an item for each difference *)
(* and none without, or else a gap - the diff's, or the one the baseline was*)
(* signed with - so what could not be compared is never what is unchanged   *)
(* ("unexamined rather than unchanged", drift.go).                          *)
DriftIsNamed ==
    report.done =>
    \A p \in Names :
        LET base == manifest.packages[p]
            item == \E i \in report.items : i.package = p
            differs == \/ base.version # packages[p].version
                       \/ base.version # None /\ base.digest # packages[p].digest IN
        /\ differs => item \/ p \in report.gaps \cup manifest.gaps
        /\ item => differs

(* Ordinary use of the host is not a detection: what only pacman changed    *)
(* since the baseline is critical only where the log was not read whole,    *)
(* which the report says.  Two cases the code gets wrong are left out: what *)
(* pacman changed between the two reads of the command, and a package that  *)
(* was installed and then downgraded since the baseline.                    *)
InstalledAndDowngraded(i) ==
    i.change = "added" /\ \E tx \in scan.read.entries :
        tx.pkg = i.package /\ tx.op = "downgraded" /\ tx.time >= manifest.created

Quiet(i) == \/ i.bucket # "unexplained" \/ i.package \in tampered \/ report.truncated
            \/ report.gaps \cap {"sibling", "bound", "absent", "unparsed", "foreign-root"} # {}

OrdinaryUseIsQuiet ==
    report.done => \A i \in report.items : Quiet(i) \/ i.package \in touched \/ InstalledAndDowngraded(i)

(* The same with nothing left out, as drift.go has it: "ordinary system     *)
(* evolution is not a detection".                                           *)
EvolutionIsNoDetection ==
    report.done => \A i \in report.items : Quiet(i) \/ i.package \in touched

(* With a signed log window, shortening, garbling or hiding the log explains*)
(* no change, and once it begins later than was signed no install date does:*)
(* what was critical stays so ("a log that can be deleted must not become a *)
(* way to down-rate what it would have shown").  A log that names another   *)
(* root is left out, where cutting the line that names it moves what        *)
(* follows, and so is one longer than the bounds, where it bares the rest.  *)
SameContent == \A p \in Names : packages[p].version = packages'[p].version /\ packages[p].digest = packages'[p].digest
SameDates == \A p \in Names : packages[p].date = packages'[p].date
Logged == UNION {{line \in Range(f.lines) : line.kind = "tx"} : f \in Range(log.files)}
Whole(l) == Cardinality(Discovered(l)) <= MaxFiles /\ \A i \in Discovered(l) : Len(l.files[i].lines) <= MaxLines
Critical(read) == {i.package : i \in Unexplained(manifest, read, now)}

TruncationBuysNothing ==
    [][ /\ manifest.signed /\ manifest' = manifest /\ manifest.earliest # None
        /\ SameContent /\ unread' = unread /\ Logged' \subseteq Logged /\ (SameDates \/ Truncated(manifest, Read(log)))
        /\ "foreign-root" \notin Read(log).gaps /\ Whole(log)
        => Critical(Read(log)) \subseteq {i.package : i \in Unexplained(manifest, Read(log), now)'} ]_<<packages, log>>
=============================================================================
