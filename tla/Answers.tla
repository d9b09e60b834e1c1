------------------------------- MODULE Answers -------------------------------
(* What an operator has answered about findings, and what the answers hide: *)
(* the signed judgements of internal/adjudicate and the local, unsigned     *)
(* triage records of internal/triage.  Both are evaluated against one       *)
(* result, with the meaning the rules have in this build and at one time.   *)
EXTENDS Integers, FiniteSets

CONSTANT MaxDays  \* how long a record of each verb may last at most

Verbs == {"ack", "snooze", "note", "adjudicate"}
ASSUME MaxDaysAssumption == \A v \in Verbs : MaxDays[v] \in Nat

(* A finding is a record [rule, subject, evidence, severity, system, depth];*)
(* its report id leaves the evidence out.                                   *)
FingerprintFor(f, scope) ==
    <<f.rule, IF scope = "rule" THEN "*" ELSE f.subject, scope>>
FindingID(f) == FingerprintFor(f, "subject")
Ids(findings) == {FindingID(f) : f \in findings}

(* semantics[rule] is the epoch and the digest of what the rule matches on; *)
(* a rule that declares none is Undeclared.                                 *)
Undeclared == <<0, 0>>

(* What New refuses: a term over the maximum, the scope of a whole rule in  *)
(* the unsigned store, a judgement about a rule that declares no epoch.     *)
Admissible(verb, f, scope, days, semantics) ==
    /\ days \in 1..MaxDays[verb]
    /\ verb = "adjudicate" => semantics[f.rule] # Undeclared
    /\ scope = "rule" => verb = "adjudicate"

New(verb, f, scope, days, semantics, now) ==
    [verb |-> verb, fp |-> FingerprintFor(f, scope),
     evidence |-> IF scope = "pin" THEN f.evidence ELSE 0,
     bound |-> semantics[f.rule], at |-> now, expires |-> now + days]

Matches(r, f) == r.fp[1] = f.rule /\ (r.fp[3] = "rule" \/ r.fp[2] = f.subject)
SameEvidence(r, f) == r.fp[3] = "pin" => r.evidence = f.evidence
Covers(r, f) == Matches(r, f) /\ SameEvidence(r, f)

(* A triage record of a rule without an epoch is bound to nothing and stays *)
(* current.                                                                 *)
Current(r, semantics) == r.bound \in {Undeclared, semantics[r.fp[1]]}

(* A mutant that looks at the term of a judgement before its meaning and    *)
(* takes one that is up for the last of its days.                           *)
StateUpToTheDay(r, findings, semantics, now) ==
    IF now > r.expires THEN "expired"
    ELSE IF \E f \in findings : Covers(r, f)
         THEN IF r.verb = "note" THEN "annotated" ELSE "active"
    ELSE IF ~Current(r, semantics) THEN "stale" ELSE "dead"

(* evaluate: a stale record comes before an expired one, and both before    *)
(* what it would cover; a note hides nothing.                               *)
State(r, findings, semantics, now) ==
    IF ~Current(r, semantics) THEN "stale"
    ELSE IF now >= r.expires THEN "expired"
    ELSE IF \E f \in findings : Covers(r, f)
         THEN IF r.verb = "note" THEN "annotated" ELSE "active"
    ELSE IF \E f \in findings : Matches(r, f) THEN "spent" ELSE "dead"

Suppressed(records, findings, semantics, now) ==
    {f \in findings : \E r \in records :
        State(r, findings, semantics, now) = "active" /\ Covers(r, f)}

(* The fingerprint of a record, or the id of the finding it is about, names *)
(* it for `triage drop` and `adjudicate revoke`; a judgement of a whole     *)
(* rule is named by its own fingerprint only.                               *)
NamedBy(r, fp) == r.fp = fp \/ (r.fp[3] # "rule" /\ <<r.fp[1], r.fp[2], "subject">> = fp)

(* What a new record replaces.                                              *)
Replaces(new, r) == new.fp = r.fp /\ (new.verb # "adjudicate" => new.verb = r.verb)
=============================================================================
