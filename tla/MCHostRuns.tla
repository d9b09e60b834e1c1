----------------------------- MODULE MCHostRuns -----------------------------
EXTENDS HostRuns

(* Two findings of one id whose evidence differs, and one of the sweeps over*)
(* the whole system, by a rule that declares no epoch.                      *)
F1 == [rule |-> "a", subject |-> "p", evidence |-> 1, severity |-> 3, system |-> FALSE, depth |-> "meta"]
F2 == [F1 EXCEPT !.evidence = 2]
F3 == [rule |-> "b", subject |-> "q", evidence |-> 1, severity |-> 2, system |-> TRUE, depth |-> "full"]

MCMaxDays == [v \in {"ack", "snooze", "note", "adjudicate"} |->
                  CASE v = "snooze" -> 1 [] v = "adjudicate" -> 3 [] OTHER -> 2]
Means(a) == [q \in {"a", "b"} |-> IF q = "a" THEN a ELSE Undeclared]

Host == [findings |-> {F1}, unread |-> FALSE, contents |-> TRUE, database |-> TRUE,
         locked |-> FALSE, semantics |-> Means(<<1, 1>>), now |-> 1, clock |-> 1]

J == [verb |-> "scan", root |-> TRUE, offline |-> FALSE, degraded |-> FALSE, only |-> "all",
      sinceLast |-> FALSE, tier |-> "full", noNet |-> FALSE, floor |-> 2,
      fp |-> FindingID(F1), scope |-> "pin", days |-> 1, trusted |-> TRUE]
Since == [J EXCEPT !.sinceLast = TRUE]
NoJob == [J EXCEPT !.verb = "none"]
Answer(v, s, d) == [J EXCEPT !.verb = v, !.scope = s, !.days = d]
Init1 == [J EXCEPT !.verb = "init"]
About(f, j) == [j EXCEPT !.fp = FindingID(f)]

Sess(a, b, c, h, changes, faults) ==
    [jobs |-> [r \in Runs |-> CASE r = "r1" -> a [] r = "r2" -> b [] r = "r3" -> c],
     host |-> h, later |-> {{F2}, {F1, F3}, {}}, meanings |-> {Means(<<2, 2>>), Means(<<1, 2>>)},
     changes |-> changes, faults |-> faults]

MCSessions ==
    { \* scans that compare themselves with each other
      Sess(Since, Since, Since, Host, 1, 1),
      Sess(Since, Since, NoJob, [Host EXCEPT !.findings = {F1, F3}], 2, 0),
      \* and of which the later one has two new findings of one id
      [Sess(Since, Since, NoJob, [Host EXCEPT !.findings = {F3}], 1, 0) EXCEPT !.later = {{F1, F2}}],
      \* scans under every policy
      Sess([J EXCEPT !.root = FALSE], [J EXCEPT !.root = FALSE, !.degraded = TRUE],
           [Since EXCEPT !.root = FALSE, !.offline = TRUE], Host, 0, 1),
      Sess([J EXCEPT !.only = "named"], [J EXCEPT !.only = "unknown"], [J EXCEPT !.noNet = TRUE],
           [Host EXCEPT !.findings = {F3}], 0, 1),
      Sess([J EXCEPT !.tier = "meta"], J, Init1, [Host EXCEPT !.contents = FALSE, !.findings = {F3}], 0, 1),
      Sess(J, Init1, Answer("ack", "pin", 1), [Host EXCEPT !.unread = TRUE], 0, 1),
      Sess(J, Init1, Answer("ack", "pin", 1), [Host EXCEPT !.database = FALSE], 0, 0),
      Sess(J, Init1, [Init1 EXCEPT !.noNet = TRUE], [Host EXCEPT !.findings = {}, !.locked = TRUE], 0, 0),
      Sess(J, [Init1 EXCEPT !.noNet = TRUE], Init1, [Host EXCEPT !.findings = {}], 0, 1),
      \* triage: the findings of one id, terms, meanings, damage
      Sess(Answer("ack", "pin", 1), Since, Since, Host, 2, 0),
      Sess(Answer("ack", "subject", 2), J, Answer("snooze", "pin", 1), Host, 2, 0),
      Sess(Answer("note", "subject", 2), Answer("ack", "pin", 2), J, [Host EXCEPT !.findings = {F1, F2}], 1, 1),
      Sess(About(F3, Answer("snooze", "subject", 1)), J, Answer("ack", "rule", 1),
           [Host EXCEPT !.findings = {F3}], 2, 0),
      Sess(Answer("ack", "pin", 2), Answer("snooze", "subject", 1), [J EXCEPT !.verb = "drop"], Host, 0, 2),
      \* judgements
      Sess(Answer("adjudicate", "pin", 2), [J EXCEPT !.verb = "revoke"], Init1, Host, 0, 2),
      Sess(Answer("adjudicate", "pin", 1), Init1, Init1, Host, 2, 0),
      Sess(Answer("adjudicate", "rule", 3), Answer("adjudicate", "subject", 1), Init1, Host, 1, 1),
      Sess(Answer("adjudicate", "rule", 3), [J EXCEPT !.verb = "revoke"], Answer("adjudicate", "pin", 4), Host, 1, 1),
      Sess(About(F3, Answer("adjudicate", "pin", 1)), [Answer("adjudicate", "pin", 1) EXCEPT !.trusted = FALSE],
           [J EXCEPT !.verb = "revoke", !.offline = TRUE], [Host EXCEPT !.findings = {F1, F3}], 0, 0) }
=============================================================================
