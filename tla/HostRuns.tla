------------------------------ MODULE HostRuns ------------------------------
(* The commands that share one host's state directory: `scan`, with its     *)
(* stored reports, --since-last and the triage of its listing, `triage` and *)
(* `adjudicate` with their two stores, and `baseline init`, which refuses   *)
(* over criticals nobody has judged.  A run's scan is one step (Collection  *)
(* has its insides); what runs do to the state directory is interleaved.    *)
EXTENDS Answers, FiniteSetsExt

CONSTANTS Runs,
          Sessions   \* the jobs of the runs, what happens meanwhile, the budgets

None == "none"

ASSUME RunsAssumption == None \notin Runs
ASSUME SessionsAssumption ==
    \A s \in Sessions :
        /\ {"jobs", "faults", "changes"} \subseteq DOMAIN s
        /\ {"findings", "semantics", "now", "clock"} \subseteq DOMAIN s.host
        /\ s.host.now \in Nat /\ s.host.clock \in Nat

VARIABLES session,
          host,      \* what a scan would find, the meaning of the rules, the clock
          reports,   \* reports/<stamp>.json
          triage,    \* triage.json
          doc, sig,  \* adjudications.json and its signature
          holder,    \* who holds each of the two advisory locks
          run,       \* the runs
          answers,   \* every record a command stored, with the findings it saw
          standing   \* the stored records nobody has replaced or withdrawn

vars == <<session, host, reports, triage, doc, sig, holder, run, answers, standing>>
stores == <<reports, triage, doc, sig>>
ghosts == <<answers, standing>>

Job(r) == session.jobs[r]
NoRecord == [fp |-> <<None>>]
NoReport == [of |-> None, stamp |-> 0, ids |-> {}, whole |-> FALSE]
Idle == [pc |-> "idle", found |-> {}, gaps |-> {}, saw |-> {}, stamp |-> 0, base |-> NoReport,
         raced |-> FALSE, shown |-> {}, hidden |-> {}, record |-> NoRecord, set |-> {},
         stood |-> {}, faulty |-> FALSE, at |-> 0, meaning |-> <<>>, exit |-> 9]

Absent == [state |-> "absent", records |-> {}]
Whole(records) == [state |-> "whole", records |-> records]
NoSig == {NoRecord}

Go(r, pc) == run' = [run EXCEPT ![r].pc = pc]
Done(r, code) == run' = [run EXCEPT ![r].pc = "done", ![r].exit = code]
(* A call the environment may let fail, as often as the session says.       *)
MayFail == session.faults > 0 /\ session' = [session EXCEPT !.faults = @ - 1]

-----------------------------------------------------------------------------
(* One scan.                                                                *)

(* privilegePolicy: an unprivileged scan of the live root is refused, unless*)
(* it is allowed to be degraded.                                            *)
Refused(j) == ~j.root /\ ~j.degraded /\ ~j.offline
Degraded(j) == ~j.root /\ j.degraded

(* What fullScan finds of the host: content is compared from tier full on   *)
(* and only where content could be read, and the system-wide passes do not  *)
(* run under --pkg.                                                         *)
Found(j) == {f \in host.findings : /\ f.depth = "full" => j.tier # "meta" /\ host.contents
                                   /\ f.system => j.only = "all"}

(* Its gaps; `dropped` says whether the privileges could be destroyed.      *)
Gaps(j, dropped) ==
    {g \in {"integrity-coverage", "unread", "aur-provenance", "privdrop", "privilege-coverage"} :
        \/ g = "integrity-coverage" /\ j.tier # "meta" /\ ~host.contents
        \/ g = "unread" /\ host.unread
        \/ g = "aur-provenance" /\ j.noNet
        \/ g = "privdrop" /\ ~dropped
        \/ g = "privilege-coverage" /\ j.verb = "scan" /\ Degraded(j)}

(* DropAll, after a scan that began with privileges: they are gone or kept. *)
DropAll(j) == IF j.root THEN BOOLEAN ELSE {TRUE}

FullScan(r, pc) ==
    LET j == Job(r)
        Ran(dropped) == run' = [run EXCEPT ![r].pc = pc, ![r].found = Found(j), ![r].at = host.now,
                                           ![r].gaps = Gaps(j, dropped),
                                           ![r].saw = {w \in {"unread", "contents", "kept"} :
                                                          \/ w = "unread" /\ host.unread
                                                          \/ w = "contents" /\ host.contents
                                                          \/ w = "kept" /\ ~dropped}] IN
    \E dropped \in DropAll(j) :
        /\ Ran(dropped)
        /\ \/ dropped /\ UNCHANGED session
           \/ ~dropped /\ MayFail

(* runScan up to its result.  A scan whose privileges cannot be staged is   *)
(* incomplete; one without a package database, or of a package it does not  *)
(* have, is a usage error.                                                  *)
Scan(r) ==
    LET j == Job(r) IN
    /\ run[r].pc = "idle" /\ j.verb = "scan"
    /\ IF Refused(j) THEN Done(r, 2) /\ UNCHANGED session
       ELSE \/ j.root /\ MayFail /\ Done(r, 3)
            \/ IF ~host.database \/ j.only = "unknown" THEN Done(r, 2) /\ UNCHANGED session
               ELSE FullScan(r, "scanned")
    /\ UNCHANGED <<host, stores, holder, ghosts>>

(* scanStateDir: a partial result and one of another system are not stored. *)
Persists(j) == j.only = "all" /\ ~j.offline

(* The stamp of the report is taken before the report is written.           *)
Stamp(r) ==
    /\ run[r].pc = "scanned"
    /\ IF Persists(Job(r))
       THEN /\ run' = [run EXCEPT ![r].pc = "stamped", ![r].stamp = host.clock]
            /\ host' = [host EXCEPT !.clock = @ + 1]
       ELSE Go(r, "saved") /\ UNCHANGED host
    /\ UNCHANGED <<session, stores, holder, ghosts>>

(* report.Save of the whole result, under the name of the stamp.  A failure *)
(* is a warning.                                                            *)
Stored(r) == [of |-> r, stamp |-> run[r].stamp, ids |-> Ids(run[r].found), whole |-> TRUE]

Save(r) ==
    /\ run[r].pc = "stamped"
    /\ Go(r, "saved")
    /\ \/ reports' = {q \in reports : q.stamp # run[r].stamp} \cup {Stored(r)} /\ UNCHANGED session
       \/ MayFail /\ UNCHANGED reports
    /\ UNCHANGED <<host, triage, doc, sig, holder, ghosts>>

(* LoadPrevious: the second newest of the reports that can be read.         *)
Newer(q) == {p \in reports : p.whole /\ p.stamp > q.stamp}
LoadNth(n) == {q \in reports : q.whole /\ Cardinality(Newer(q)) = n}
LoadLatest == LoadNth(0)
LoadPrevious == LoadNth(1)

(* report.Diff: a finding whose id the previous report does not have is new.*)
(* They are collected by id, so that of several new ones with one id the    *)
(* last in the list stands for all; the order of the list is left open.     *)
Added(found, ids) ==
    LET new == {f \in found : FindingID(f) \notin ids} IN
    {s \in SUBSET new : Ids(s) = Ids(new) /\ \A f, g \in s : FindingID(f) = FindingID(g) => f = g}

(* SinceLastView: the listing is what the previous report did not have.     *)
View(r) ==
    LET SinceLast(previous) ==
            IF previous = {} THEN run' = [run EXCEPT ![r].pc = "viewed", ![r].shown = run[r].found]
            ELSE \E q \in previous : \E listed \in Added(run[r].found, q.ids) :
                run' = [run EXCEPT
                    ![r].pc = "viewed", ![r].base = q, ![r].shown = listed,
                    ![r].raced = \E p \in reports : p.of # r /\ p.stamp >= run[r].stamp] IN
    /\ run[r].pc = "saved"
    /\ IF Job(r).sinceLast /\ Persists(Job(r))
       THEN \/ SinceLast(LoadPrevious) /\ UNCHANGED session
            \/ MayFail /\ SinceLast({})
       ELSE SinceLast({}) /\ UNCHANGED session
    /\ UNCHANGED <<host, stores, holder, ghosts>>

(* triage.Load: what is there and can be read, and whether something could  *)
(* not.                                                                     *)
TriageFaults == triage.state \in {"holed", "unreadable"}

(* applyTriage hides by report id, and only from the listing; a fault of    *)
(* the store is a gap of the result.                                        *)
ApplyTriage(r) ==
    LET out == Suppressed(triage.records, run[r].found, host.semantics, host.now)
        hidden == {f \in run[r].shown : FindingID(f) \in Ids(out)} IN
    /\ run[r].pc = "viewed"
    /\ run' = [run EXCEPT ![r].pc = "triaged",
               ![r].gaps = @ \cup (IF TriageFaults /\ Persists(Job(r)) THEN {"triage-store"} ELSE {}),
               ![r].faulty = TriageFaults /\ Persists(Job(r)), ![r].at = host.now,
               ![r].meaning = host.semantics,
               ![r].hidden = IF Persists(Job(r)) THEN hidden ELSE {},
               ![r].shown = IF Persists(Job(r)) THEN @ \ hidden ELSE @]
    /\ UNCHANGED <<session, host, stores, holder, ghosts>>

ExitCode(findings, gaps, floor) ==
    IF gaps # {} THEN 3 ELSE IF \E f \in findings : f.severity >= floor THEN 1 ELSE 0

(* A mutant: the code of what is listed.                                    *)
VerdictOfListing(r) == ExitCode(run[r].shown, run[r].gaps, Job(r).floor)
Verdict(r) == ExitCode(run[r].found, run[r].gaps, Job(r).floor)

(* A report that cannot be rendered does not turn a verdict into a better   *)
(* one.                                                                     *)
Render(r) ==
    /\ run[r].pc = "triaged"
    /\ \/ Done(r, Verdict(r)) /\ UNCHANGED session
       \/ MayFail /\ Done(r, IF Verdict(r) = 0 THEN 2 ELSE Verdict(r))
    /\ UNCHANGED <<host, stores, holder, ghosts>>

-----------------------------------------------------------------------------
(* The commands that record and withdraw answers.                           *)

Judges(r) == Job(r).verb \in {"adjudicate", "revoke"}
Records(r) == Job(r).verb \in {"ack", "snooze", "note", "adjudicate"}
Withdraws(r) == Job(r).verb \in {"drop", "revoke"}
Store(r) == IF Judges(r) THEN "judgements" ELSE "triage"

(* The scan of a recording command comes before the lock; the finding is the*)
(* first one with the id the operator typed.                                *)
Propose(r) ==
    LET j == Job(r)
        named == {f \in Found(j) : FindingID(f) = j.fp}
        Ask(f) == run' = [run EXCEPT
            ![r].pc = "ready", ![r].found = Found(j), ![r].at = host.now,
            ![r].record = New(j.verb, f, j.scope, j.days, host.semantics, host.now)] IN
    /\ run[r].pc = "idle" /\ Records(r)
    /\ IF j.offline \/ (Judges(r) /\ ~j.trusted) \/ ~host.database \/ named = {}
       THEN Done(r, 2)
       ELSE \E f \in named : IF Admissible(j.verb, f, j.scope, j.days, host.semantics)
                             THEN Ask(f) ELSE Done(r, 2)
    /\ UNCHANGED <<session, host, stores, holder, ghosts>>

Withdraw(r) ==
    /\ run[r].pc = "idle" /\ Withdraws(r)
    /\ IF Job(r).offline \/ (Judges(r) /\ ~Job(r).trusted) THEN Done(r, 2) ELSE Go(r, "ready")
    /\ UNCHANGED <<session, host, stores, holder, ghosts>>

Release(r) == holder' = [s \in DOMAIN holder |-> IF holder[s] = r THEN None ELSE holder[s]]
Finish(r, code) == Done(r, code) /\ Release(r)

(* A mutant: nobody waits for the lock.                                     *)
FreeAlways(r) == TRUE
Free(r) == holder[Store(r)] = None

Lock(r) ==
    /\ run[r].pc = "ready"
    /\ IF Free(r) THEN Go(r, "locked") /\ holder' = [holder EXCEPT ![Store(r)] = r]
       ELSE Done(r, 3) /\ UNCHANGED holder
    /\ UNCHANGED <<session, host, stores, ghosts>>

(* readStoreForRewrite, triage.Load: what a rewrite has to preserve.  A     *)
(* store that is there and cannot be read in full is not rewritten.         *)
Verified(d, s) == d.state = "whole" /\ s = d.records
Unusable(r) == IF Judges(r) THEN doc.state # "absent" /\ ~Verified(doc, sig) ELSE TriageFaults
Held(r) == IF Judges(r) THEN doc.records ELSE triage.records

Rewritten(r) ==
    IF Records(r) THEN {q \in Held(r) : ~Replaces(run[r].record, q)} \cup {run[r].record}
    ELSE {q \in Held(r) : ~NamedBy(q, Job(r).fp)}

Load(r) ==
    /\ run[r].pc = "locked"
    /\ IF Unusable(r) THEN Finish(r, 3)
       ELSE IF Withdraws(r) /\ Rewritten(r) = Held(r) THEN Finish(r, 2)
       ELSE /\ run' = [run EXCEPT ![r].pc = "loaded", ![r].set = Rewritten(r)]
            /\ UNCHANGED holder
    /\ UNCHANGED <<session, host, stores, ghosts>>

(* What the command has made of the answers when its write lands.           *)
Commit(r) ==
    /\ answers' = answers \cup (IF Records(r) THEN {[record |-> run[r].record, saw |-> run[r].found]}
                                ELSE {})
    /\ standing' = [standing EXCEPT ![Store(r)] =
            IF Records(r) THEN {q \in @ : ~Replaces(run[r].record, q)} \cup {run[r].record}
            ELSE {q \in @ : ~NamedBy(q, Job(r).fp)}]

(* triage.Save: one rename, or the removal of the file when nothing is left.*)
SaveTriage(r) ==
    /\ run[r].pc = "loaded" /\ ~Judges(r)
    /\ \/ /\ triage' = IF run[r].set = {} THEN Absent ELSE Whole(run[r].set)
          /\ Commit(r) /\ Finish(r, 0) /\ UNCHANGED session
       \/ MayFail /\ Finish(r, 3) /\ UNCHANGED <<triage, ghosts>>
    /\ UNCHANGED <<host, reports, doc, sig>>

(* writeAdjudicationStore: the signature and then the document; when        *)
(* nothing is left, the document goes first.                                *)
WriteSignature(r) ==
    /\ run[r].pc = "loaded" /\ Judges(r) /\ run[r].set # {}
    /\ \/ sig' = run[r].set /\ Go(r, "signed") /\ UNCHANGED <<session, holder>>
       \/ MayFail /\ Finish(r, 3) /\ UNCHANGED sig
    /\ UNCHANGED <<host, reports, triage, doc, ghosts>>

WriteDocument(r) ==
    /\ run[r].pc = "signed"
    /\ \/ doc' = Whole(run[r].set) /\ Commit(r) /\ Finish(r, 0) /\ UNCHANGED session
       \/ MayFail /\ Finish(r, 3) /\ UNCHANGED <<doc, ghosts>>
    /\ UNCHANGED <<host, reports, triage, sig>>

RemoveDocument(r) ==
    /\ run[r].pc = "loaded" /\ Judges(r) /\ run[r].set = {}
    /\ \/ doc' = Absent /\ Commit(r) /\ Go(r, "removed") /\ UNCHANGED <<session, holder>>
       \/ MayFail /\ Finish(r, 3) /\ UNCHANGED <<doc, ghosts>>
    /\ UNCHANGED <<host, reports, triage, sig>>

RemoveSignature(r) ==
    /\ run[r].pc = "removed"
    /\ \/ sig' = NoSig /\ Finish(r, 0) /\ UNCHANGED session
       \/ MayFail /\ Finish(r, 3) /\ UNCHANGED sig
    /\ UNCHANGED <<host, reports, triage, doc, ghosts>>

-----------------------------------------------------------------------------
(* `baseline init` up to its decision: a scan, then the judgements, read    *)
(* without the lock, document first.                                        *)

Critical(f) == f.severity = 3
Recordable == {"aur-provenance"}  \* the one gap here a manifest can say itself

BeginInit(r) ==
    /\ run[r].pc = "idle" /\ Job(r).verb = "init"
    /\ IF ~Job(r).trusted \/ ~host.database THEN Done(r, 2) /\ UNCHANGED session
       ELSE \/ Job(r).root /\ MayFail /\ Done(r, 2)
            \/ FullScan(r, "judging")
    /\ UNCHANGED <<host, stores, holder, ghosts>>

(* DetectDBLock and the first read of loadAdjudications.                    *)
ReadDocument(r) ==
    /\ run[r].pc = "judging"
    /\ run' = [run EXCEPT ![r].pc = IF doc.state = "whole" THEN "halfread" ELSE "read",
                          ![r].set = doc.records, ![r].faulty = doc.state = "unreadable",
                          ![r].gaps = @ \cup (IF host.locked THEN {"db-lock"} ELSE {}),
                          ![r].stood = standing["judgements"]]
    /\ UNCHANGED <<session, host, stores, holder, ghosts>>

(* The second: the records count when the signature is of these bytes.      *)
ReadSignature(r) ==
    /\ run[r].pc = "halfread"
    /\ run' = [run EXCEPT ![r].pc = "read", ![r].faulty = ~Verified(Whole(run[r].set), sig),
                          ![r].set = IF Verified(Whole(run[r].set), sig) THEN @ ELSE {}]
    /\ UNCHANGED <<session, host, stores, holder, ghosts>>

(* ApplyWith and Bootstrap: what is left of the criticals, and everything   *)
(* else that refuses.                                                       *)
Bootstrap(r, open) ==
    LET j == Job(r)
        blocked == \/ ~j.root \/ j.tier = "meta" \/ "contents" \notin run[r].saw
                   \/ ~(run[r].gaps \subseteq Recordable) \/ run[r].faulty
                   \/ \E f \in open : host.semantics[f.rule] = Undeclared IN
    IF blocked THEN 3 ELSE IF open # {} THEN 1 ELSE 0

Decide(r) ==
    LET kept == run[r].found \ Suppressed(run[r].set, run[r].found, host.semantics, run[r].at) IN
    /\ run[r].pc = "read"
    /\ run' = [run EXCEPT ![r].pc = "done", ![r].meaning = host.semantics,
                          ![r].exit = Bootstrap(r, {f \in kept : Critical(f)})]
    /\ UNCHANGED <<session, host, stores, holder, ghosts>>

-----------------------------------------------------------------------------
(* The host meanwhile.                                                      *)

Kill(r) ==
    /\ run[r].pc \notin {"idle", "done", "killed"} /\ MayFail
    /\ Go(r, "killed") /\ Release(r)
    /\ UNCHANGED <<host, stores, ghosts>>

MayChange == session.changes > 0 /\ session' = [session EXCEPT !.changes = @ - 1]
Alter(h) == host' = h /\ UNCHANGED <<stores, ghosts>>

(* What a scan would find changes, days pass, a build with other meanings is*)
(* installed between runs, the clock is set back.                           *)
ChangeHost ==
    /\ MayChange
    /\ \/ \E w \in session.later : Alter([host EXCEPT !.findings = w])
       \/ Alter([host EXCEPT !.now = @ + 1])
       \/ /\ \A r \in Runs : run[r].pc \in {"idle", "done", "killed"}
          /\ \E m \in session.meanings : Alter([host EXCEPT !.semantics = m])
       \/ host.clock > 1 /\ Alter([host EXCEPT !.clock = @ - 1])
    /\ UNCHANGED <<holder, run>>

(* A stored file is damaged; the signature catches whatever happens to the  *)
(* judgements.                                                              *)
Damage ==
    /\ MayChange
    /\ \/ \E q \in reports : /\ reports' = (reports \ {q}) \cup {[q EXCEPT !.whole = FALSE]}
                             /\ UNCHANGED <<triage, doc, sig>>
       \/ /\ triage.state = "whole"
          /\ \/ triage' = [state |-> "unreadable", records |-> {}]
             \/ \E q \in triage.records : triage' = [state |-> "holed", records |-> triage.records \ {q}]
          /\ UNCHANGED <<reports, doc, sig>>
       \/ /\ doc.state = "whole" /\ doc' = [state |-> "unreadable", records |-> {}]
          /\ UNCHANGED <<reports, triage, sig>>
       \/ doc.state = "whole" /\ sig' = NoSig /\ UNCHANGED <<reports, triage, doc>>
    /\ UNCHANGED <<host, holder, run, ghosts>>

-----------------------------------------------------------------------------
Init ==
    /\ session \in Sessions
    /\ host = session.host
    /\ reports = {} /\ triage = Absent /\ doc = Absent /\ sig = NoSig
    /\ holder = [s \in {"triage", "judgements"} |-> None]
    /\ run = [r \in Runs |-> Idle]
    /\ answers = {} /\ standing = [s \in {"triage", "judgements"} |-> {}]

ScanStep(r) == Scan(r) \/ Stamp(r) \/ Save(r) \/ View(r) \/ ApplyTriage(r) \/ Render(r)
AnswerStep(r) == \/ Propose(r) \/ Withdraw(r) \/ Lock(r) \/ Load(r) \/ SaveTriage(r)
                 \/ WriteSignature(r) \/ WriteDocument(r) \/ RemoveDocument(r) \/ RemoveSignature(r)
InitStep(r) == BeginInit(r) \/ ReadDocument(r) \/ ReadSignature(r) \/ Decide(r)

Next == \/ \E r \in Runs : ScanStep(r) \/ AnswerStep(r) \/ InitStep(r) \/ Kill(r)
        \/ ChangeHost \/ Damage

Spec == Init /\ [][Next]_vars

-----------------------------------------------------------------------------
IsDone(r, verb) == run[r].pc = "done" /\ Job(r).verb = verb
Reported(r) == IsDone(r, "scan") /\ run[r].at > 0

(* The exit code of a scan is a statement about the host and not about what *)
(* is listed: 0 and 1 are given by complete scans only - everything could be*)
(* examined, at the tier that was asked for, with the privileges it takes   *)
(* and without those that should be gone, and the triage store could be read*)
(* - and 0 only when the whole result has nothing at or above the floor,    *)
(* whatever --since-last and the triage records have hidden (main.go).      *)
ExitIsVerdict ==
    \A r \in Runs : Reported(r) =>
        LET j == Job(r)
            complete == /\ j.root \/ (j.offline /\ ~j.degraded)
                        /\ run[r].saw \cap {"unread", "kept"} = {}
                        /\ j.tier = "meta" \/ "contents" \in run[r].saw
                        /\ ~j.noNet /\ ~run[r].faulty
            grave == \E f \in run[r].found : f.severity >= j.floor IN
        /\ run[r].exit \in {0, 1} => complete /\ (run[r].exit = 1) = grave
        /\ run[r].exit = 3 => ~complete

(* An id that --since-last leaves out is one the run before reported, and   *)
(* one it lists as new is not: the report a scan is compared with is of     *)
(* another run and has the ids of all that run found.  The exception is     *)
(* another report that got a later or the same stamp before the comparison  *)
(* (store.go).  Of findings that share a new id one is listed (NewIsListed).*)
SinceLastIsDifference ==
    \A r \in Runs : run[r].pc \in {"viewed", "triaged", "done"} /\ run[r].base.of # None /\ ~run[r].raced =>
        /\ run[r].base.of # r
        /\ run[r].shown \cup run[r].hidden \subseteq run[r].found
        /\ Ids(run[r].shown \cup run[r].hidden) =
               Ids(run[r].found) \ Ids(run[run[r].base.of].found)

(* store.go:194-198 says that an id "is unique per finding by construction":*)
(* then every finding whose id the report before does not have is listed,   *)
(* or hidden by an answer.  TLC refutes it (README, section 6).             *)
NewIsListed ==
    \A r \in Runs : run[r].pc \in {"viewed", "triaged", "done"} /\ run[r].base.of # None =>
        {f \in run[r].found : FindingID(f) \notin run[r].base.ids}
            \subseteq run[r].shown \cup run[r].hidden

(* A store that can be read has every record a command stored, but those    *)
(* that a later command replaced or withdrew, and none of these comes back, *)
(* however the commands, a kill and a failing write interleave              *)
(* (adjudicate.go, triage.go).                                              *)
AnswersAreKept ==
    /\ triage.state \in {"whole", "absent"} => triage.records = standing["triage"]
    /\ doc.state \in {"whole", "absent"} => doc.records = standing["judgements"]

(* a was in force for run r: bound to what the rule meant, not lapsed, and  *)
(* for no longer than its verb may last.                                    *)
InForce(a, r) ==
    /\ a.record.bound \in {Undeclared, run[r].meaning[a.record.fp[1]]}
    /\ run[r].at < a.record.expires
    /\ run[r].at < a.record.at + MaxDays[a.record.verb]

(* What triage hides from a listing, an operator was shown under the same   *)
(* id by the scan of the command that recorded the answer, and the answer is*)
(* still in force; a pin hides only while the evidence that was shown is    *)
(* there.                                                                   *)
HiddenWasAnswered ==
    \A r \in Runs : \A f \in run[r].hidden : \E a \in answers :
        /\ a.record.verb \in {"ack", "snooze"} /\ InForce(a, r)
        /\ \E g \in run[r].found, h \in a.saw :
               /\ FindingID(g) = FindingID(f) /\ FindingID(h) = FindingID(f)
               /\ a.record.fp[3] = "pin" => g.evidence = h.evidence

(* `baseline init` writes over a critical only when a judgement with its    *)
(* evidence, rule or subject stood in the store when init read it, was in   *)
(* force, and was made by a trusted key; and never over a partial scan.     *)
BaselineIsJudged ==
    \A r \in Runs : IsDone(r, "init") /\ run[r].exit = 0 =>
        /\ run[r].gaps \subseteq Recordable /\ "contents" \in run[r].saw
        /\ \A f \in {g \in run[r].found : Critical(g)} : \E a \in answers :
               /\ a.record.verb = "adjudicate" /\ InForce(a, r)
               /\ a.record \in run[r].stood
               /\ Matches(a.record, f) /\ SameEvidence(a.record, f)

(* A pin hides the finding it was written for and no other: apply.go keys   *)
(* what it suppresses by index because "a pin must not hide the one it was  *)
(* not written for".                                                        *)
PinHidesItsFinding ==
    \A r \in Runs : \A f \in run[r].hidden : \E a \in answers : Covers(a.record, f)
=============================================================================
