------------------------------ MODULE Upstream ------------------------------
(* What the AUR is asked about the installed packages that no repository    *)
(* offers, and what its answers are taken to mean: internal/aur's RPC and   *)
(* commit log readers, and the provenance check built on them, while answers*)
(* fail or are wrong and the AUR changes between two of them.               *)
EXTENDS Integers, Sequences, FiniteSets, SequencesExt

CONSTANTS
    ChunkSize,   \* infoChunkSize
    Inquiries    \* the scenarios: what is installed, and what the AUR holds

VARIABLES
    inquiry,     \* packages: a sequence of [name, base]; repositories; unreadable;
                 \* network; strays: results no honest answer has; faults: budget
    aur,         \* what the AUR holds: [index, logs], its records and base -> log
    ahead,       \* what it will hold after each of its next changes
    seen,        \* history: what it held since it was first asked
    asked,       \* the answers so far: [responses, pages]
    said         \* the check's results

upstreamVars == <<inquiry, aur, ahead, seen, asked, said>>

(* The package database has one package of a name; the AUR's index is       *)
(* finite, and so is what is installed.                                     *)
AurStates == UNION {Range(i.aur) : i \in Inquiries}

IsInquiry(i) ==
    /\ DOMAIN i = {"packages", "repositories", "unreadable", "network", "strays", "faults"}
    /\ Len(i.packages) \in Nat /\ DOMAIN i.packages = 1..Len(i.packages)
    /\ \A j, k \in DOMAIN i.packages : i.packages[j].name = i.packages[k].name => j = k

ASSUME InquiriesAssumption ==
    /\ ChunkSize \in Nat \ {0}
    /\ \A i \in Inquiries : IsInquiry(i.inquiry) /\ i.aur \in Seq(AurStates) /\ i.aur # <<>>
    /\ \A a \in AurStates : IsFiniteSet(a.index)

Unset == "unset"

(* An RPC record is [name, base, maintainer, submitter], any of them Unset. *)
(* A response is a failure, one of the three answers that are refused -     *)
(* "error", "untyped", "miscounted" - or an "answer" with its results.      *)
UsableAnswer(response) ==
    /\ response.kind = "answer"
    /\ \A i \in DOMAIN response.results : Unset \notin {response.results[i].name, response.results[i].base}

(* Where there is a result, in the order in which they came.                *)
Places(responses) == UNION {{k} \X DOMAIN responses[k].results : k \in DOMAIN responses}
At(responses, x) == responses[x[1]].results[x[2]]
Before(x, y) == x[1] < y[1] \/ (x[1] = y[1] /\ x[2] < y[2])

(* One chunk that failed fails the whole, and so do two results of a name.  *)
InfoFails(responses) ==
    \/ \E k \in DOMAIN responses : ~UsableAnswer(responses[k])
    \/ \E x, y \in Places(responses) : x # y /\ At(responses, x).name = At(responses, y).name

(* A mutant: names and bases in one pass, the last one wins.                *)
InfoOnePass(responses) ==
    LET at(x) == At(responses, x)
        holds(key) == {x \in Places(responses) : key \in {at(x).name, at(x).base}} IN
    [key \in UNION {{at(x).name, at(x).base} : x \in Places(responses)} |->
        at(CHOOSE x \in holds(key) : \A y \in holds(key) : ~Before(x, y))]

(* Info: a package's own name wins its key; a base that no name claimed goes*)
(* to the first result that has it.                                         *)
Info(responses) ==
    LET at(x) == At(responses, x)
        named(key) == {x \in Places(responses) : at(x).name = key}
        built(key) == {x \in Places(responses) : at(x).base = key} IN
    [key \in UNION {{at(x).name, at(x).base} : x \in Places(responses)} |->
        at(IF named(key) # {} THEN CHOOSE x \in named(key) : TRUE
           ELSE CHOOSE x \in built(key) : \A y \in built(key) : ~Before(y, x))]

-----------------------------------------------------------------------------
(* A commit subject is [wording, term, reason]: whether a removal is what it*)
(* opens with, what the history underwent, both, or only mentioned; the     *)
(* strongest indicator left once negated ones are blanked - "bare",         *)
(* "hyphen", "weak" or Unset; and whether a rename or a merge is its reason. *)
AnchoredRemoval(s) == s.wording \in {"opens", "opens-history"}
HistoryRemoval(s) == s.wording \in {"history", "opens-history"}
RemovalAnywhere(s) == s.wording # Unset
IsMalwareRemoval(s) == s.term = "bare" \/ (s.term # Unset /\ ~s.reason)

(* A page is a "log" with its rows - a subject each, or Unset where none     *)
(* could be extracted -, cgit's own "no-branch", or anything else: another  *)
(* error, a page without a log, a response over the cap.                    *)
ParseFails(page) == page.kind # "log" \/ page.rows = <<>>
                    \/ \E i \in DOMAIN page.rows : ~page.rows[i].read

Clean == [failed |-> FALSE, found |-> FALSE, malware |-> FALSE]
Failed == [Clean EXCEPT !.failed = TRUE]

(* Tombstone: a history that consists of removals and says so; what removes *)
(* malware somewhere in another history cannot be told from it.             *)
Tombstone(page) ==
    LET subjects == Range(page.rows) IN
    IF page.kind = "no-branch" THEN Clean
    ELSE IF ParseFails(page) THEN Failed
    ELSE IF (\A s \in subjects : AnchoredRemoval(s)) /\ (\E s \in subjects : HistoryRemoval(s))
         THEN [Clean EXCEPT !.found = TRUE, !.malware = \E s \in subjects : IsMalwareRemoval(s)]
    ELSE IF \E s \in subjects : IsMalwareRemoval(s) /\ RemovalAnywhere(s) THEN Failed
    ELSE Clean

-----------------------------------------------------------------------------
(* The check.  A result is [rule, subject, severity]; a gap has "gap" for   *)
(* its severity.                                                            *)
Result(rule, subject, severity) == [rule |-> rule, subject |-> subject, severity |-> severity]

IsForeign(p) == p.name \notin inquiry.repositories
ForeignAt == {i \in DOMAIN inquiry.packages : IsForeign(inquiry.packages[i])}
ForeignPackages == {inquiry.packages[i] : i \in ForeignAt}

(* The names that are asked for, ChunkSize at a time.                       *)
Place(i) == Cardinality({j \in ForeignAt : j < i})
NameChunks ==
    [k \in 1..((Cardinality(ForeignAt) + ChunkSize - 1) \div ChunkSize) |->
        {inquiry.packages[i].name : i \in {j \in ForeignAt : Place(j) \div ChunkSize = k - 1}}]

SyncCoverageGaps == {Result("sync-coverage", db, "gap") : db \in inquiry.unreadable}

(* A record of another package under this one's name is no record of it.    *)
HasRecord(info, p) == p.name \in DOMAIN info /\ info[p.name].name = p.name

(* The AUR has no record of the package's own name.                         *)
Absent(p, t) ==
    LET absent == Result("aur-absent", p.name, "suspicious") IN
    IF t.failed THEN {absent, Result("aur-tombstone", p.name, "gap")}
    ELSE IF t.malware THEN {Result("aur-tombstone", p.name, "critical")}
    ELSE {absent}

(* It has one, of the base the package declares or of another.              *)
DeclaredBase(p, meta, t) ==
    IF Unset \in {meta.base, p.base} THEN {Result("aur-tombstone", p.name, "gap")}
    ELSE IF meta.base = p.base THEN {}
    ELSE IF t.failed THEN {Result("aur-tombstone", p.name, "gap")}
    ELSE IF t.malware THEN {Result("aur-tombstone", p.name, "critical")}
    ELSE {}

Identity(p, meta) ==
    {r \in {Result("aur-orphaned", p.name, "suspicious"), Result("aur-submitter-mismatch", p.name, "gap"),
            Result("aur-submitter-mismatch", p.name, "info")} :
        \/ r.rule = "aur-orphaned" /\ meta.maintainer = Unset
        \/ r.severity = "gap" /\ meta.submitter = Unset
        \/ r.severity = "info" /\ Unset \notin {meta.submitter, meta.maintainer}
                               /\ meta.maintainer # meta.submitter}

(* A base's log is asked for once, where a package's results need it.       *)
NeedsLog(info, p) ==
    \/ ~HasRecord(info, p)
    \/ Unset \notin {info[p.name].base, p.base} /\ info[p.name].base # p.base

Provenance(info, pages) ==
    UNION {LET t == IF NeedsLog(info, p) THEN Tombstone(pages[p.base]) ELSE Clean IN
           IF HasRecord(info, p) THEN DeclaredBase(p, info[p.name], t) \cup Identity(p, info[p.name])
           ELSE Absent(p, t) : p \in ForeignPackages}

Unanswered == {Result("aur-provenance", p.name, "gap") : p \in ForeignPackages}

-----------------------------------------------------------------------------
(* What the servers answer: the records of the asked names in any order, or *)
(* one of an inquiry's faults - a refusal, a result that should not be there*)
(* - and for a log what the AUR holds or another page.                      *)
Honest(chunk) == SetToSeqs({r \in aur.index : r.name \in chunk})

(* A record that should not be there, unless it is of an asked name, has    *)
(* both identities and is the only one of that name: nothing could tell.    *)
Strays(chunk) ==
    LET came == {At(asked.responses, x).name : x \in Places(asked.responses)}
        comes == {r.name : r \in {x \in aur.index : x.name \in chunk}} IN
    {r \in inquiry.strays : r.name \in UNION Range(NameChunks) => r.base = Unset \/ r.name \in came \cup comes}

Refusals == {"failed", "error", "untyped", "miscounted"}

Answer(kind, results) == [kind |-> kind, results |-> results]

Answers(chunk) ==
    {Answer("answer", s) : s \in Honest(chunk)}
    \cup IF inquiry.faults = 0 THEN {}
         ELSE {Answer(k, <<>>) : k \in Refusals}
              \cup {Answer("answer", Append(s, r)) : s \in Honest(chunk), r \in Strays(chunk)}

Wrong(response) == response.kind # "answer" \/ \E r \in Range(response.results) : r \notin aur.index

Log(kind, rows) == [kind |-> kind, rows |-> rows]

Spent(wrong) == inquiry' = IF wrong THEN [inquiry EXCEPT !.faults = @ - 1] ELSE inquiry

Open == said = {Result("none", "none", "none")}

InfoOver == Len(asked.responses) = Len(NameChunks)
            \/ \E k \in DOMAIN asked.responses : ~UsableAnswer(asked.responses[k])

(* Info: chunk after chunk, until one fails.                                *)
AskInfo ==
    /\ Open /\ inquiry.network
    /\ ~InfoOver
    /\ \E response \in Answers(NameChunks[Len(asked.responses) + 1]) :
          /\ asked' = [asked EXCEPT !.responses = Append(@, response)]
          /\ Spent(Wrong(response))
    /\ UNCHANGED <<aur, ahead, seen, said>>

Answered == Len(asked.responses) = Len(NameChunks) /\ ~InfoFails(asked.responses)

Missing == {p.base : p \in {x \in ForeignPackages : NeedsLog(Info(asked.responses), x)}} \ DOMAIN asked.pages

(* The pages read so far, a base's once.                                    *)
WithPage(base, page) ==
    [b \in {base} \cup DOMAIN asked.pages |-> IF b = base THEN page ELSE asked.pages[b]]

AskLog ==
    /\ Open /\ inquiry.network /\ Answered
    /\ \E base \in Missing, fails \in BOOLEAN :
          /\ fails => inquiry.faults > 0
          /\ asked' = [asked EXCEPT !.pages = WithPage(base, IF fails THEN Log("failed", <<>>) ELSE aur.logs[base])]
          /\ Spent(fails)
    /\ UNCHANGED <<aur, ahead, seen, said>>

(* The results, when every answer they need is there or Info failed.        *)
Conclude ==
    /\ Open
    /\ inquiry.network => InfoOver /\ (Answered => Missing = {})
    /\ said' = SyncCoverageGaps \cup
               IF inquiry.network /\ Answered THEN Provenance(Info(asked.responses), asked.pages) ELSE Unanswered
    /\ UNCHANGED <<inquiry, aur, ahead, seen, asked>>

(* The AUR changes: packages are removed, renamed, published again.         *)
AurChanges ==
    /\ Open /\ ahead # <<>>
    /\ aur' = Head(ahead) /\ ahead' = Tail(ahead)
    /\ seen' = IF asked.responses = <<>> THEN {aur'} ELSE seen \cup {aur'}
    /\ UNCHANGED <<inquiry, asked, said>>

UpstreamInit ==
    /\ \E i \in Inquiries : inquiry = i.inquiry /\ aur = Head(i.aur) /\ ahead = Tail(i.aur)
    /\ seen = {aur} /\ asked = [responses |-> <<>>, pages |-> [base \in {} |-> Log("failed", <<>>)]]
    /\ said = {Result("none", "none", "none")}

UpstreamNext == AskInfo \/ AskLog \/ Conclude \/ AurChanges

-----------------------------------------------------------------------------
(* What the check says of a package was so while it asked, whoever else the *)
(* AUR answers about, in whatever order, and however much of it fails:      *)
(* absent only when its name was in no record; removed for malware only when*)
(* the whole log of the declared base was removals and the name not built   *)
(* from that base; and nothing at all only when its record was there, with  *)
(* one identity, of the declared base or of another while the declared one  *)
(* was seen not to be removed for malware ("a failure can never surface as  *)
(* absent from the AUR", provenance.go; the guarantees of Info, http.go).   *)
Removed(log) == log.kind = "log" /\ \A s \in Range(log.rows) : AnchoredRemoval(s)
ForMalware(log) == Removed(log) /\ \E s \in Range(log.rows) : IsMalwareRemoval(s)

ProvenanceIsTrue ==
    ~Open =>
    \A p \in ForeignPackages :
        LET results == {r \in said : r.subject = p.name}
            records == UNION {{r \in a.index : r.name = p.name} : a \in seen}
            without(base) == \E a \in seen : \A r \in a.index : r.name = p.name => r.base # base
            logs == {a.logs[p.base] : a \in seen} IN
        /\ (\E r \in results : r.rule = "aur-absent") => \E a \in seen : \A r \in a.index : r.name # p.name
        /\ (\E r \in results : r.severity = "critical") => without(p.base) /\ \E l \in logs : ForMalware(l)
        /\ results = {} =>
               \E r \in records :
                   /\ r.maintainer = r.submitter /\ r.maintainer # Unset
                   /\ \/ r.base = p.base
                      \/ \E l \in logs : l.kind \in {"log", "no-branch"}
                                        /\ ~(ForMalware(l) /\ \E s \in Range(l.rows) : HistoryRemoval(s))
=============================================================================
