----------------------------- MODULE Correlation ----------------------------
(* internal/correlate: the persistence surfaces' findings reduced to facts, *)
(* the facts grouped by what they share, and each group rated - over a host *)
(* on which more is planted and less and less can be read.                  *)
EXTENDS Integers, Sequences, FiniteSets, SequencesExt

CONSTANTS
    Paths,       \* files that surfaces name
    Dir,         \* path -> its directory
    Admin,       \* directories an administrator is meant to write into
    OwnedDirs,   \* directories a package owns
    Owned,       \* paths a package owns
    Pkgs,        \* installed packages
    Matches,     \* path -> packages its stem or its directory is named after
    Window,      \* DefaultWindow
    Hosts        \* the scenarios: [mtime, date, offered, surfaces, lose]

NoPath == "none"
Unknown == 0     \* an instant that cannot be read

ASSUME PathsAssumption ==
    /\ NoPath \notin Paths /\ Dir \in [Paths -> STRING] /\ Matches \in [Paths -> SUBSET Pkgs]
    /\ Window \in Nat

(* An item of a surface (Facts).  Nothing of a hook's is its target.        *)
Surfaces == [family : STRING, path : Paths, target : Paths \cup {NoPath}, holds : STRING]

IsHost(h) ==
    /\ DOMAIN h = {"mtime", "date", "offered", "surfaces", "lose"}
    /\ h.mtime \in [Paths -> Nat] /\ h.date \in [Pkgs -> Nat]
    /\ h.surfaces \in Seq(Surfaces)
    /\ \A n \in DOMAIN h.surfaces :
           h.surfaces[n].family \in {"hook", "suppression"} => h.surfaces[n].target = NoPath

ASSUME HostsAssumption == \A h \in Hosts : IsHost(h)

VARIABLES
    host,       \* mtime: path -> instant; date: package -> instant; offered: what
                \* the repositories offer, {} when not known; budgets
    planted,    \* what the surfaces hold
    verdict     \* what correlation says of it

correlationVars == <<host, planted, verdict>>

-----------------------------------------------------------------------------
(* Facts.  An item of a surface is [family, path, target, holds]: a unit's  *)
(* command with whether its target "resolves", is "absent" or can not be    *)
(* looked at; an enablement link; a hook, "active" or not; a file that      *)
(* suppresses a packaged hook; any other surface's finding, "suspicious" or *)
(* "info".                                                                  *)
IsFact(i) ==
    CASE i.family = "unit" -> i.holds \in {"resolves", "shut"} /\ i.target \notin Owned
      [] i.family = "hook" -> i.holds = "active" /\ i.path \notin Owned
      [] i.family = "suppression" -> i.path \notin Owned
      [] i.family = "link" -> i.target \notin Owned
      [] OTHER -> i.holds = "suspicious"

(* A suppression is a fact of the hooks' family, and no second one where the*)
(* hook that causes it is a fact.                                           *)
Family(i) == IF i.family = "suppression" THEN "hook" ELSE i.family

IsSecond(holds, i) == i.family = "suppression" /\ \E x \in holds : x.family = "hook" /\ x.path = i.path /\ IsFact(x)

(* timeFact: the target's instant where it can be read, else the path's.    *)
TimedBy(h, i) ==
    IF i.target # NoPath /\ h.mtime[i.target] # Unknown THEN i.target
    ELSE IF h.mtime[i.path] # Unknown THEN i.path ELSE NoPath

Fact(h, i) == [family |-> Family(i), path |-> i.path, target |-> i.target,
            time |-> IF TimedBy(h, i) = NoPath THEN Unknown ELSE h.mtime[TimedBy(h, i)]]

(* In the order of their paths, which is a scenario's: what is no fact has  *)
(* no place.                                                                *)
Facts(h, holds) ==
    LET found(i) == i \in holds /\ IsFact(i) /\ ~IsSecond(holds, i) IN
    [k \in {n \in DOMAIN h.surfaces : found(h.surfaces[n])} |-> Fact(h, h.surfaces[k])]

PathsOf(f) == {f.path, f.target} \ {NoPath}

-----------------------------------------------------------------------------
(* The keys.                                                                *)
SyncKnown(h) == h.offered # {}
ForeignOf(h) == IF SyncKnown(h) THEN Pkgs \ h.offered ELSE {}

Near(a, b) == a - b <= Window /\ b - a <= Window

(* The foreign packages a fact points at, by the clock or by the name.      *)
Attributed(h, f) ==
    {p \in ForeignOf(h) :
        \/ f.time # Unknown /\ h.date[p] # Unknown /\ Near(f.time, h.date[p])
        \/ \E x \in PathsOf(f) : p \in Matches[x]}

Masquerade(x) == Dir[x] \in OwnedDirs \ Admin /\ x \notin Owned

SharedOwnedDir(f, g) ==
    \E x \in PathsOf(f), y \in PathsOf(g) : x # y /\ Dir[x] = Dir[y] /\ Masquerade(x) /\ Masquerade(y)

Joined(h, f, g) ==
    \/ f.target # NoPath /\ f.target \in PathsOf(g)
    \/ g.target # NoPath /\ g.target = f.path
    \/ SharedOwnedDir(f, g)
    \/ Attributed(h, f) \cap Attributed(h, g) # {}

-----------------------------------------------------------------------------
(* Groups, by union-find over every pair in the order of the facts.  What a *)
(* fact hangs on is none that comes after it.                               *)
Find(parent, i) ==
    LET up[n \in 0..i] == IF n = 0 THEN i ELSE parent[up[n - 1]] IN up[i]

(* A mutant: what j itself hangs on is set, and not its root.               *)
MergeLeaf(parent, i, j) ==
    LET ri == Find(parent, i) rj == Find(parent, j) IN
    IF ri < rj THEN [parent EXCEPT ![j] = ri] ELSE [parent EXCEPT ![i] = rj]

Merge(parent, i, j) ==
    LET ri == Find(parent, i) rj == Find(parent, j) IN
    IF ri < rj THEN [parent EXCEPT ![rj] = ri] ELSE [parent EXCEPT ![ri] = rj]

Pairs(n) == [k \in 1..(n * n) |-> <<((k - 1) \div n) + 1, ((k - 1) % n) + 1>>]

(* A pair of facts that share a key.                                        *)
Joins(h, facts, pr) ==
    /\ pr[1] < pr[2] /\ {pr[1], pr[2]} \subseteq DOMAIN facts
    /\ Joined(h, facts[pr[1]], facts[pr[2]])

(* What hangs on what when every pair has been looked at.                   *)
Forest(h, facts) ==
    LET pairs == Pairs(Len(h.surfaces))
        after[n \in 0..Len(pairs)] ==
            IF n = 0 THEN [i \in DOMAIN facts |-> i]
            ELSE IF Joins(h, facts, pairs[n]) THEN Merge(after[n - 1], pairs[n][1], pairs[n][2])
            ELSE after[n - 1] IN
    after[Len(pairs)]

Groups(h, facts) ==
    LET parent == Forest(h, facts)
        root == [i \in DOMAIN facts |-> Find(parent, i)] IN
    {{i \in DOMAIN facts : root[i] = r} : r \in Range(root)}

Strong(h, c) == UNION {Attributed(h, f) : f \in c}
Masquerades(c) == \E f \in c : \E x \in PathsOf(f) : Masquerade(x)
Spans(c) == Cardinality({f.family : f \in c}) >= 2

IsCritical(h, c) == Spans(c) /\ Masquerades(c) /\ Strong(h, c) # {}

(* A mutant: unless some fact of the cluster has its instant.               *)
UnattributedUntimed(h, c) ==
    /\ Strong(h, c) = {}
    /\ ~SyncKnown(h) \/ \A f \in c : f.time = Unknown

(* No package could be found, or be ruled out, since something was not read.*)
Unattributed(h, c) ==
    /\ Strong(h, c) = {}
    /\ \/ ~SyncKnown(h)
       \/ \E f \in c : f.time = Unknown
       \/ \E p \in ForeignOf(h) : h.date[p] = Unknown

IsGap(h, c) == Unattributed(h, c) /\ Spans(c) /\ Masquerades(c)

(* What identifies a fact whatever can be read.                             *)
Bare(f) == [family |-> f.family, path |-> f.path, target |-> f.target]

(* Clusters: a group of one is the finding it was.                          *)
Correlate(h, holds) ==
    LET facts == Facts(h, holds)
        clusters == {{facts[i] : i \in g} : g \in {x \in Groups(h, facts) : Cardinality(x) >= 2}} IN
    {[members |-> {Bare(f) : f \in c}, critical |-> IsCritical(h, c), gap |-> IsGap(h, c)] : c \in clusters}

-----------------------------------------------------------------------------
CorrelationInit == host \in Hosts /\ planted = {} /\ verdict = {}

Plant ==
    \E i \in Range(host.surfaces) :
        /\ i \notin planted
        /\ planted' = planted \cup {i}
        /\ UNCHANGED host
        /\ verdict' = Correlate(host', planted')

(* An mtime, an install date or the repositories' names can no longer be    *)
(* read.                                                                    *)
Lose ==
    /\ host.lose > 0
    /\ UNCHANGED planted
    /\ \/ \E x \in Paths : host.mtime[x] # Unknown
                           /\ host' = [host EXCEPT !.lose = @ - 1, !.mtime[x] = Unknown]
       \/ \E p \in Pkgs : host.date[p] # Unknown
                          /\ host' = [host EXCEPT !.lose = @ - 1, !.date[p] = Unknown]
       \/ SyncKnown(host) /\ host' = [host EXCEPT !.lose = @ - 1, !.offered = {}]
    /\ verdict' = Correlate(host', planted')

CorrelationNext == Plant \/ Lose

-----------------------------------------------------------------------------
(* More evidence never dissolves or lowers a critical cluster: whatever else*)
(* is planted, what was critical is part of what is critical.               *)
EvidenceOnlyAdds ==
    [][ host' = host =>
        \A c \in verdict : c.critical => \E d \in verdict' : c.members \subseteq d.members /\ d.critical ]_correlationVars

(* What can no longer be read is admitted: a critical cluster whose members *)
(* are still one cluster stays critical or becomes a coverage gap ("Dropping*)
(* it is how a correlated critical silently becomes a correlated            *)
(* suspicious", correlate.go).  Left out is a fact timed from its path since*)
(* its target's instant is lost: that is by design an answer.               *)
Untimed(c) == \A f \in c.members : \A x \in PathsOf(f) :
                  (host.mtime[x] # host'.mtime[x]) => \A y \in PathsOf(f) : host'.mtime[y] = Unknown

InabilityIsAGap ==
    [][ planted' = planted =>
        \A c \in verdict : c.critical /\ Untimed(c) =>
            \A d \in verdict' : d.members = c.members => d.critical \/ d.gap ]_correlationVars
=============================================================================
