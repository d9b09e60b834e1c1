-------------------------- MODULE JudgementsProofs --------------------------
(* What an edit of a chain does to what Verify says of it, for a chain of   *)
(* any length; what a drift report says of packages that change while it is *)
(* made, and once the log is shortened; what the provenance check says of   *)
(* packages while the AUR changes and its answers fail; and what            *)
(* correlation says of a cluster once more is planted, or times it rests on *)
(* are lost.                                                                *)
EXTENDS Judgements, Induction, FiniteSetTheorems, SequenceTheorems, TLAPS

-----------------------------------------------------------------------------
(* Drift: a report is of what is there, and of the log the command read.    *)

ScanFields == {"command", "read", "at"}

ReportInv ==
    report.done =>
        /\ scan.command = Idle
        /\ report.items = Items(manifest, scan.read, scan.at)
        /\ report.gaps = DriftGaps(manifest, scan.read, scan.at) \cup scan.read.gaps

(* A package whose digest the baseline does not have is one of its gaps.    *)
BaselineInv ==
    \A p \in Names :
        manifest.packages[p].version # None /\ manifest.packages[p].digest = None => p \in manifest.gaps

PackagesInv == now \in Nat /\ session.names \subseteq Names /\ packages \in [Names -> PackageStates]

DriftInv == PackagesInv /\ DOMAIN scan = ScanFields /\ ReportInv /\ BaselineInv

LEMMA DriftBegins == DriftInit => DriftInv
  BY DriftAssumption DEF DriftInit, DriftInv, PackagesInv, ScanFields, ReportInv, BaselineInv, NoManifest, NoReport,
     NotInstalled

(* The host's steps are about packages of the scenario, and what they leave *)
(* is a state a package can have.                                           *)
LEMMA PackagesStay ==
    ASSUME PackagesInv, [DriftNext]_driftVars
    PROVE  PackagesInv'
<1> USE DEF PackagesInv
<1>1. ASSUME NEW at \in Nat PROVE States(at) \subseteq PackageStates
  BY <1>1 DEF States, PackageStates, NotInstalled, None
<1>2. CASE UNCHANGED <<session, packages, now>>
  BY <1>2
<1>3. ASSUME NEW command \in {"write", "diff"}, Begin(command) PROVE PackagesInv'
  BY <1>3 DEF Begin
<1>4. CASE BaselineWrite \/ BaselineDiff
  BY <1>4 DEF BaselineWrite, BaselineDiff
<1>5. ASSUME NEW kind, Spend(kind) PROVE session'.names = session.names
  BY <1>5 DEF Spend
<1>6. ASSUME NEW p \in session.names, Pacman(p) PROVE PackagesInv'
  <2>1. PICK new \in States(now + 1) : Spend("pacman") /\ now' = now + 1 /\ packages' = [packages EXCEPT ![p] = new]
    BY <1>6 DEF Pacman
  <2>2. now + 1 \in Nat /\ new \in PackageStates /\ session'.names = session.names
    BY <1>1, <1>5, <2>1
  <2>3. QED
    BY <2>1, <2>2
<1>7. ASSUME NEW p \in session.names, Elsewhere(p) \/ Block(p) PROVE PackagesInv'
  <2>1. packages' = packages /\ now' \in {now, now + 1} /\ session'.names = session.names
    BY <1>5, <1>7 DEF Elsewhere, Block
  <2>2. QED
    BY <2>1
<1>8. ASSUME NEW p \in session.names, Tamper(p) PROVE PackagesInv'
  <2>1. packages[p].date \in Nat
    BY <1>8 DEF PackageStates
  <2>2. QED
    BY <1>1, <1>5, <1>8, <2>1 DEF Tamper
<1>9. CASE Rotate \/ Cut \/ Shut
  BY <1>5, <1>9 DEF Rotate, Cut, Shut
<1>10. CASE Garble
  BY <1>5, <1>10 DEF Garble
<1>11. QED
  BY <1>2, <1>3, <1>4, <1>6, <1>7, <1>8, <1>9, <1>10 DEF DriftNext, driftVars

(* The two commands that end change nothing a later report is about.        *)
LEMMA DriftSteps == DriftInv /\ [DriftNext]_driftVars => DriftInv'
<1> SUFFICES ASSUME DriftInv, [DriftNext]_driftVars PROVE DriftInv'
  OBVIOUS
<1>0. PackagesInv'
  BY PackagesStay DEF DriftInv
<1>1. CASE UNCHANGED driftVars
  <2>1. UNCHANGED <<session, packages, unread, log, now, manifest, scan, report>>
    BY <1>1 DEF driftVars
  <2>2. /\ Items(manifest, scan.read, scan.at)' = Items(manifest, scan.read, scan.at)
        /\ DriftGaps(manifest, scan.read, scan.at)' = DriftGaps(manifest, scan.read, scan.at)
    BY <2>1 DEF Items, DriftGaps, Classify, Corroborated, DriftRecords, Seen, CoverageShortfall, Truncated
  <2>3. ReportInv'
    BY <2>1, <2>2 DEF DriftInv, ReportInv
  <2>4. QED
    BY <1>0, <2>1, <2>3 DEF DriftInv, BaselineInv
<1>2. ASSUME NEW command \in {"write", "diff"}, Begin(command) PROVE DriftInv'
  BY <1>0, <1>2 DEF Begin, DriftInv, ScanFields, ReportInv, BaselineInv, NoReport
<1>3. CASE BaselineWrite
  <2>1. ~report.done
    BY <1>3 DEF BaselineWrite, DriftInv, ReportInv, Idle
  <2>2. DOMAIN scan' = ScanFields /\ ReportInv'
    BY <1>3, <2>1 DEF BaselineWrite, Finish, DriftInv, ReportInv
  <2>3. BaselineInv'
    BY <1>3 DEF BaselineWrite, BaselineInv, BuildManifest, ManifestGaps, Seen
  <2>4. QED
    BY <1>0, <2>2, <2>3 DEF DriftInv
<1>4. CASE BaselineDiff
  <2>1. UNCHANGED <<session, packages, unread, manifest>> /\ scan' = [scan EXCEPT !.command = Idle]
    BY <1>4 DEF BaselineDiff, Finish
  <2>2. DOMAIN scan' = ScanFields /\ scan'.read = scan.read /\ scan'.at = scan.at /\ scan'.command = Idle
    BY <2>1 DEF DriftInv, ScanFields
  <2>3. /\ Items(manifest, scan.read, scan.at)' = Items(manifest, scan.read, scan.at)
        /\ DriftGaps(manifest, scan.read, scan.at)' = DriftGaps(manifest, scan.read, scan.at)
    BY <2>1, <2>2 DEF Items, DriftGaps, Classify, Corroborated, DriftRecords, Seen, CoverageShortfall, Truncated
  <2>4. ReportInv'
    BY <1>4, <2>2, <2>3 DEF BaselineDiff, ReportInv
  <2>5. BaselineInv'
    BY <2>1 DEF DriftInv, BaselineInv
  <2>6. QED
    BY <1>0, <2>2, <2>4, <2>5 DEF DriftInv
<1>5. ASSUME UNCHANGED <<manifest, scan>>, report' = NoReport PROVE DriftInv'
  BY <1>0, <1>5 DEF DriftInv, ScanFields, ReportInv, BaselineInv, NoReport
<1>6. ASSUME NEW p \in session.names, Pacman(p) \/ Elsewhere(p) \/ Tamper(p) \/ Block(p) PROVE DriftInv'
  BY <1>5, <1>6 DEF Pacman, Elsewhere, Tamper, Block, Spend
<1>7. CASE Rotate \/ Cut \/ Garble \/ Shut
  BY <1>5, <1>7 DEF Rotate, Cut, Garble, Shut, Spend
<1>8. QED
  BY <1>1, <1>2, <1>3, <1>4, <1>6, <1>7 DEF DriftNext

LEMMA DriftNamed == DriftInv => DriftIsNamed
<1>1. ASSUME DriftInv, report.done, NEW p \in Names
      PROVE  LET base == manifest.packages[p]
                 item == \E i \in report.items : i.package = p
                 differs == \/ base.version # packages[p].version
                            \/ base.version # None /\ base.digest # packages[p].digest IN
             /\ differs => item \/ p \in report.gaps \cup manifest.gaps
             /\ item => differs
  <2> DEFINE base == manifest.packages[p]
             cur == Seen(p)
             item == \E i \in report.items : i.package = p
             differs == \/ base.version # packages[p].version
                        \/ base.version # None /\ base.digest # packages[p].digest
  <2>1. item <=> Change(base, cur) \notin {"none", "unread"}
    <3>1. report.items = Items(manifest, scan.read, scan.at)
      BY <1>1 DEF DriftInv, ReportInv
    <3>2. ASSUME NEW i \in report.items PROVE i.package = p => Change(base, cur) \notin {"none", "unread"}
      <4>1. PICK q \in {o \in Names : Change(manifest.packages[o], Seen(o)) \notin {"none", "unread"}} : i.package = q
        BY <3>1, <3>2 DEF Items
      <4>2. QED
        BY <4>1
    <3>3. ASSUME Change(base, cur) \notin {"none", "unread"} PROVE item
      <4>1. PICK i \in Items(manifest, scan.read, scan.at) : i.package = p
        <5> DEFINE named == [package |-> p, change |-> Change(base, cur),
                             bucket |-> Classify(Change(base, cur), p, cur, manifest, scan.read, scan.at)]
        <5>1. named \in Items(manifest, scan.read, scan.at)
          BY <1>1, <3>3 DEF Items
        <5>2. named.package = p
          OBVIOUS
        <5>3. QED
          BY <5>1, <5>2
      <4>2. QED
        BY <3>1, <4>1
    <3>4. QED
      BY <3>2, <3>3
  <2>2. Change(base, cur) = "unread" => p \in report.gaps
    BY <1>1 DEF DriftInv, ReportInv, DriftGaps
  <2>3. base.version # None /\ base.digest = None => p \in manifest.gaps
    BY <1>1 DEF DriftInv, BaselineInv
  <2>4. cur.version = packages[p].version /\ cur.digest \in {None, packages[p].digest}
        /\ (p \notin unread => cur = packages[p]) /\ (p \in unread => cur.digest = None)
    <3>1. packages[p] \in PackageStates
      BY <1>1 DEF DriftInv, PackagesInv
    <3>2. QED
      BY <3>1 DEF Seen, PackageStates
  <2> HIDE DEF base, cur, item
  <2>5. /\ differs => item \/ p \in report.gaps \cup manifest.gaps
        /\ item => differs
    BY <2>1, <2>2, <2>3, <2>4 DEF Change, None
  <2>6. QED
    BY <2>5 DEF base, item
<1>2. QED
  BY <1>1 DEF DriftIsNamed

-----------------------------------------------------------------------------
(* Edits of a chain: what an edited sequence holds.  A record's hash stands *)
(* for all that came before it, so two records of one chain whose           *)
(* predecessors hash alike are the same record: that is what lets Verify    *)
(* name each edit.                                                          *)

LEMMA RemoveAtIs ==
    ASSUME NEW S, NEW s \in Seq(S), NEW i \in 1..Len(s)
    PROVE  /\ DOMAIN RemoveAt(s, i) = 1..(Len(s) - 1)
           /\ \A k \in 1..(Len(s) - 1) : RemoveAt(s, i)[k] = IF k < i THEN s[k] ELSE s[k + 1]
<1> DEFINE a == SubSeq(s, 1, i - 1)
           b == SubSeq(s, i + 1, Len(s))
           c == a \o b
<1>1. a \in Seq(S) /\ Len(a) = i - 1 /\ \A k \in 1..(i - 1) : a[k] = s[k]
  OBVIOUS
<1>2. b \in Seq(S) /\ Len(b) = Len(s) - i /\ \A k \in 1..(Len(s) - i) : b[k] = s[k + i]
  OBVIOUS
<1>3. Len(s) \in Nat
  OBVIOUS
<1> HIDE DEF a, b
<1>4. /\ c \in Seq(S) /\ Len(c) = Len(a) + Len(b)
      /\ \A k \in 1..(Len(a) + Len(b)) : c[k] = IF k <= Len(a) THEN a[k] ELSE b[k - Len(a)]
  BY <1>1, <1>2, ConcatProperties
<1> HIDE DEF c
<1>5. DOMAIN c = 1..(Len(s) - 1)
  BY <1>1, <1>2, <1>3, <1>4
<1>6. ASSUME NEW k \in 1..(Len(s) - 1) PROVE c[k] = IF k < i THEN s[k] ELSE s[k + 1]
  <2>1. CASE k < i
    <3>1. k <= Len(a) /\ k \in 1..(i - 1) /\ k \in 1..(Len(a) + Len(b))
      BY <1>1, <1>2, <1>3, <2>1
    <3>2. QED
      BY <1>1, <1>4, <2>1, <3>1
  <2>2. CASE k >= i
    <3>1. ~(k <= Len(a)) /\ k - (i - 1) \in 1..(Len(s) - i) /\ k \in 1..(Len(a) + Len(b))
      BY <1>1, <1>2, <1>3, <2>2
    <3>2. c[k] = b[k - (i - 1)] /\ b[k - (i - 1)] = s[k - (i - 1) + i]
      BY <1>1, <1>2, <1>4, <3>1
    <3>3. k - (i - 1) + i = k + 1
      OBVIOUS
    <3>4. QED
      BY <2>2, <3>2, <3>3
  <2>3. QED
    BY <2>1, <2>2
<1>7. QED
  BY <1>5, <1>6 DEF RemoveAt, a, b, c

LEMMA InsertAtIs ==
    ASSUME NEW S, NEW s \in Seq(S), NEW i \in 1..(Len(s) + 1), NEW e \in S
    PROVE  /\ DOMAIN InsertAt(s, i, e) = 1..(Len(s) + 1)
           /\ \A k \in 1..(Len(s) + 1) :
                 InsertAt(s, i, e)[k] = IF k < i THEN s[k] ELSE IF k = i THEN e ELSE s[k - 1]
<1> DEFINE a == SubSeq(s, 1, i - 1)
           b == SubSeq(s, i, Len(s))
           c == a \o <<e>>
           d == c \o b
<1>1. a \in Seq(S) /\ Len(a) = i - 1 /\ \A k \in 1..(i - 1) : a[k] = s[k]
  OBVIOUS
<1>2. b \in Seq(S) /\ Len(b) = Len(s) - i + 1 /\ \A k \in 1..(Len(s) - i + 1) : b[k] = s[k + i - 1]
  OBVIOUS
<1>3. Len(s) \in Nat
  OBVIOUS
<1> HIDE DEF a, b
<1>4. c \in Seq(S) /\ Len(c) = i /\ \A k \in 1..i : c[k] = IF k < i THEN s[k] ELSE e
  BY <1>1
<1> HIDE DEF c
<1>5. /\ d \in Seq(S) /\ Len(d) = Len(c) + Len(b)
      /\ \A k \in 1..(Len(c) + Len(b)) : d[k] = IF k <= Len(c) THEN c[k] ELSE b[k - Len(c)]
  BY <1>2, <1>4, ConcatProperties
<1> HIDE DEF d
<1>6. DOMAIN d = 1..(Len(s) + 1)
  BY <1>2, <1>3, <1>4, <1>5
<1>7. ASSUME NEW k \in 1..(Len(s) + 1)
      PROVE  d[k] = IF k < i THEN s[k] ELSE IF k = i THEN e ELSE s[k - 1]
  <2>1. CASE k <= i
    <3>1. k <= Len(c) /\ k \in 1..i /\ k \in 1..(Len(c) + Len(b))
      BY <1>2, <1>3, <1>4, <2>1
    <3>2. QED
      BY <1>4, <1>5, <2>1, <3>1
  <2>2. CASE k > i
    <3>1. ~(k <= Len(c)) /\ k - i \in 1..(Len(s) - i + 1) /\ k \in 1..(Len(c) + Len(b))
      BY <1>2, <1>3, <1>4, <2>2
    <3>2. d[k] = b[k - i] /\ b[k - i] = s[k - i + i - 1]
      BY <1>2, <1>4, <1>5, <3>1
    <3>3. k - i + i - 1 = k - 1
      OBVIOUS
    <3>4. QED
      BY <2>2, <3>2, <3>3
  <2>3. QED
    BY <2>1, <2>2
<1>8. QED
  BY <1>6, <1>7 DEF InsertAt, a, b, c, d

-----------------------------------------------------------------------------
(* The checks of Verify, in their order.                                    *)

Holds(rs, known, i) ==
    CASE i = 1 -> AllTrusted(rs)
      [] i = 2 -> NoRepeatedRecord(rs)
      [] i = 3 -> NoFork(rs)
      [] i = 4 -> SeqContiguous(rs)
      [] i = 5 -> Linked(rs)
      [] i = 6 -> NoRepeatedPayload(rs)
      [] i = 7 -> TimeOrdered(rs)
      [] i = 8 -> \A a \in known : ~TruncatedBy(rs, a)
      [] OTHER -> \A a \in known : ~ForkedBy(rs, a)

Sentinel == <<"ErrSignature", "ErrReplay", "ErrFork", "ErrSequence", "ErrPrevHash", "ErrReplay", "ErrTime",
              "ErrTruncated", "ErrFork">>

(* The error is that of the first check that fails.                         *)
LEMMA FirstFailure ==
    ASSUME NEW rs, NEW known
    PROVE  /\ \A k \in 1..9 : ~Holds(rs, known, k) /\ (\A j \in 1..9 : j < k => Holds(rs, known, j))
                              => VerifyError(rs, known) = Sentinel[k]
           /\ (\A k \in 1..9 : Holds(rs, known, k)) => VerifyError(rs, known) = "ok"
<1> DEFINE checks == << <<"ErrSignature", AllTrusted(rs)>>,
                        <<"ErrReplay",    NoRepeatedRecord(rs)>>,
                        <<"ErrFork",      NoFork(rs)>>,
                        <<"ErrSequence",  SeqContiguous(rs)>>,
                        <<"ErrPrevHash",  Linked(rs)>>,
                        <<"ErrReplay",    NoRepeatedPayload(rs)>>,
                        <<"ErrTime",      TimeOrdered(rs)>>,
                        <<"ErrTruncated", \A a \in known : ~TruncatedBy(rs, a)>>,
                        <<"ErrFork",      \A a \in known : ~ForkedBy(rs, a)>> >>
           failed == {i \in DOMAIN checks : ~checks[i][2]}
<1>1. VerifyError(rs, known) =
        IF failed = {} THEN "ok" ELSE checks[CHOOSE i \in failed : \A j \in failed : i <= j][1]
  BY DEF VerifyError
<1>2. DOMAIN checks = 1..9
  OBVIOUS
<1>3. \A i \in 1..9 : i = 1 \/ i = 2 \/ i = 3 \/ i = 4 \/ i = 5 \/ i = 6 \/ i = 7 \/ i = 8 \/ i = 9
  OBVIOUS
<1>4. \A i \in 1..9 : checks[i][1] = Sentinel[i]
  <2>1. /\ checks[1][1] = Sentinel[1] /\ checks[2][1] = Sentinel[2] /\ checks[3][1] = Sentinel[3]
        /\ checks[4][1] = Sentinel[4] /\ checks[5][1] = Sentinel[5] /\ checks[6][1] = Sentinel[6]
        /\ checks[7][1] = Sentinel[7] /\ checks[8][1] = Sentinel[8] /\ checks[9][1] = Sentinel[9]
    BY DEF Sentinel
  <2> HIDE DEF checks
  <2>2. QED
    BY <1>3, <2>1
<1>5. \A i \in 1..9 : checks[i][2] <=> Holds(rs, known, i)
  <2>1. /\ checks[1][2] <=> Holds(rs, known, 1)
        /\ checks[2][2] <=> Holds(rs, known, 2)
        /\ checks[3][2] <=> Holds(rs, known, 3)
    BY DEF Holds
  <2>2. /\ checks[4][2] <=> Holds(rs, known, 4)
        /\ checks[5][2] <=> Holds(rs, known, 5)
        /\ checks[6][2] <=> Holds(rs, known, 6)
    BY DEF Holds
  <2>3. /\ checks[7][2] <=> Holds(rs, known, 7)
        /\ checks[8][2] <=> Holds(rs, known, 8)
        /\ checks[9][2] <=> Holds(rs, known, 9)
    BY DEF Holds
  <2> HIDE DEF checks
  <2>4. QED
    BY <1>3, <2>1, <2>2, <2>3
<1> HIDE DEF checks
<1>6. failed = {i \in 1..9 : ~Holds(rs, known, i)}
  BY <1>2, <1>5
<1> HIDE DEF failed
<1>7. ASSUME NEW k \in 1..9, ~Holds(rs, known, k), \A j \in 1..9 : j < k => Holds(rs, known, j)
      PROVE  VerifyError(rs, known) = Sentinel[k]
  <2>1. k \in failed /\ \A j \in failed : k <= j /\ j \in Int
    BY <1>6, <1>7
  <2>2. (CHOOSE i \in failed : \A j \in failed : i <= j) = k
    <3> DEFINE m == CHOOSE i \in failed : \A j \in failed : i <= j
    <3>1. m \in failed /\ \A j \in failed : m <= j
      BY <2>1
    <3> HIDE DEF m
    <3>2. m = k
      BY <2>1, <3>1
    <3>3. QED
      BY <3>2 DEF m
  <2>3. QED
    BY <1>1, <1>4, <2>1, <2>2
<1>8. ASSUME \A k \in 1..9 : Holds(rs, known, k) PROVE VerifyError(rs, known) = "ok"
  BY <1>1, <1>6, <1>8
<1>9. QED
  BY <1>7, <1>8

(* The same, check by check.                                                *)
LEMMA VerifySays ==
    ASSUME NEW rs, NEW known
    PROVE  /\ ~AllTrusted(rs) => VerifyError(rs, known) = "ErrSignature"
           /\ AllTrusted(rs) /\ ~NoRepeatedRecord(rs) => VerifyError(rs, known) = "ErrReplay"
           /\ AllTrusted(rs) /\ NoRepeatedRecord(rs) =>
                 /\ ~NoFork(rs) => VerifyError(rs, known) = "ErrFork"
                 /\ NoFork(rs) /\ ~SeqContiguous(rs) => VerifyError(rs, known) = "ErrSequence"
                 /\ NoFork(rs) /\ SeqContiguous(rs) =>
                       /\ ~Linked(rs) => VerifyError(rs, known) = "ErrPrevHash"
                       /\ Linked(rs) /\ ~NoRepeatedPayload(rs) => VerifyError(rs, known) = "ErrReplay"
                       /\ Linked(rs) /\ NoRepeatedPayload(rs) /\ ~TimeOrdered(rs) => VerifyError(rs, known) = "ErrTime"
           /\ Verifies(rs) =>
                 /\ (\E a \in known : TruncatedBy(rs, a)) => VerifyError(rs, known) = "ErrTruncated"
                 /\ (\A a \in known : ~TruncatedBy(rs, a)) /\ (\E a \in known : ForkedBy(rs, a))
                        => VerifyError(rs, known) = "ErrFork"
                 /\ (\A a \in known : ~TruncatedBy(rs, a) /\ ~ForkedBy(rs, a)) => VerifyError(rs, known) = "ok"
<1> DEFINE H(i) == Holds(rs, known, i)
<1>1. /\ H(1) <=> AllTrusted(rs)
      /\ H(2) <=> NoRepeatedRecord(rs)
      /\ H(3) <=> NoFork(rs)
      /\ H(4) <=> SeqContiguous(rs)
      /\ H(5) <=> Linked(rs)
      /\ H(6) <=> NoRepeatedPayload(rs)
      /\ H(7) <=> TimeOrdered(rs)
      /\ H(8) <=> \A a \in known : ~TruncatedBy(rs, a)
      /\ H(9) <=> \A a \in known : ~ForkedBy(rs, a)
  BY DEF Holds
<1>2. /\ Sentinel[1] = "ErrSignature" /\ Sentinel[2] = "ErrReplay" /\ Sentinel[3] = "ErrFork"
      /\ Sentinel[4] = "ErrSequence" /\ Sentinel[5] = "ErrPrevHash" /\ Sentinel[6] = "ErrReplay"
      /\ Sentinel[7] = "ErrTime" /\ Sentinel[8] = "ErrTruncated" /\ Sentinel[9] = "ErrFork"
  BY DEF Sentinel
<1>3. \A k \in 1..9 : ~H(k) /\ (\A j \in 1..9 : j < k => H(j)) => VerifyError(rs, known) = Sentinel[k]
  BY FirstFailure
<1>4. (\A k \in 1..9 : H(k)) => VerifyError(rs, known) = "ok"
  BY FirstFailure
<1> HIDE DEF H
<1>5. /\ ~H(1) => VerifyError(rs, known) = Sentinel[1]
      /\ H(1) /\ ~H(2) => VerifyError(rs, known) = Sentinel[2]
      /\ H(1) /\ H(2) /\ ~H(3) => VerifyError(rs, known) = Sentinel[3]
      /\ H(1) /\ H(2) /\ H(3) /\ ~H(4) => VerifyError(rs, known) = Sentinel[4]
  BY <1>3
<1>6. H(1) /\ H(2) /\ H(3) /\ H(4) =>
      /\ ~H(5) => VerifyError(rs, known) = Sentinel[5]
      /\ H(5) /\ ~H(6) => VerifyError(rs, known) = Sentinel[6]
      /\ H(5) /\ H(6) /\ ~H(7) => VerifyError(rs, known) = Sentinel[7]
  BY <1>3
<1>7. H(1) /\ H(2) /\ H(3) /\ H(4) /\ H(5) /\ H(6) /\ H(7) =>
      /\ ~H(8) => VerifyError(rs, known) = Sentinel[8]
      /\ H(8) /\ ~H(9) => VerifyError(rs, known) = Sentinel[9]
      /\ H(8) /\ H(9) => VerifyError(rs, known) = "ok"
  BY <1>3, <1>4
<1>8. Verifies(rs) <=> H(1) /\ H(2) /\ H(3) /\ H(4) /\ H(5) /\ H(6) /\ H(7)
  BY <1>1 DEF Verifies
<1>9. QED
  BY <1>1, <1>2, <1>5, <1>6, <1>7, <1>8

-----------------------------------------------------------------------------
(* A genuine chain, and each edit of one of any length.                     *)

(* What a record's predecessor's hash holds is all that came before it.     *)
LEMMA Heights ==
    ASSUME NEW rs \in Seq(Record), Linked(rs)
    PROVE  \A i \in DOMAIN rs : Len(rs[i].prev) = i - 1
<1> DEFINE P == {k \in Nat : k \in DOMAIN rs => Len(rs[k].prev) = k - 1}
<1>1. DOMAIN rs = 1..Len(rs) /\ Len(rs) \in Nat
  OBVIOUS
<1>2. 0 \in P
  BY <1>1
<1>3. ASSUME NEW k \in Nat, k < Len(rs), k \in P PROVE k + 1 \in P
  <2>1. CASE k = 0
    <3>1. rs[1].prev = << >>
      BY <1>1, <1>3, <2>1 DEF Linked, GenesisPrev
    <3>2. QED
      BY <2>1, <3>1
  <2>2. CASE k # 0
    <3>1. k \in DOMAIN rs /\ k + 1 \in DOMAIN rs /\ rs[k] \in Record
      BY <1>1, <1>3, <2>2
    <3>2. rs[k + 1].prev = Append(rs[k].prev, rs[k].body)
      <4>1. k + 1 # 1 /\ (k + 1) - 1 = k
        BY <2>2
      <4>2. rs[k + 1].prev = Hash(rs[k])
        BY <3>1, <4>1 DEF Linked
      <4>3. QED
        BY <4>2 DEF Hash
    <3>3. rs[k].prev \in Seq(Content) /\ Len(rs[k].prev) = k - 1
      BY <1>3, <3>1 DEF Record
    <3>4. Len(rs[k + 1].prev) = k
      BY <3>2, <3>3
    <3>5. QED
      BY <3>4
  <2>3. QED
    BY <2>1, <2>2
<1> HIDE DEF P
<1>4. \A i \in 0..Len(rs) : i \in P
  BY <1>1, <1>2, <1>3, Along
<1>5. QED
  BY <1>1, <1>4 DEF P

LEMMA HashHeight ==
    ASSUME NEW r \in Record
    PROVE  Len(Hash(r)) = Len(r.prev) + 1 /\ Len(r.prev) \in Nat /\ Hash(r)[Len(r.prev) + 1] = r.body
<1>1. r.prev \in Seq(Content)
  BY DEF Record
<1>2. QED
  BY <1>1 DEF Hash

(* Records of one height with one hash have the same body.                  *)
LEMMA SameBody ==
    ASSUME NEW r \in Record, NEW q \in Record, Hash(r) = Hash(q)
    PROVE  Len(r.prev) = Len(q.prev) /\ r.body = q.body
<1>1. Len(r.prev) = Len(q.prev)
  BY HashHeight
<1>2. QED
  BY <1>1, HashHeight

LEMMA BodiesAreContents ==
    ASSUME NEW seq \in Nat, NEW signers, signers \subseteq Keys, NEW b \in Bodies(seq, signers)
    PROVE  b \in Content /\ b.key \in signers /\ b.seq = seq
<1>1. 0..MaxTime \subseteq Nat
  BY EditBounds
<1>2. QED
  BY <1>1 DEF Bodies, Content, Kinds

(* The head of a chain.                                                     *)
LEMMA HeadOf ==
    ASSUME NEW rs \in Seq(Record), Linked(rs)
    PROVE  WantPrev(rs) \in Seq(Content) /\ Len(WantPrev(rs)) = Len(rs)
<1>1. CASE rs = << >>
  BY <1>1 DEF WantPrev, GenesisPrev
<1>2. CASE rs # << >>
  <2>1. Len(rs) \in DOMAIN rs /\ rs[Len(rs)] \in Record
    BY <1>2
  <2>2. WantPrev(rs) = Append(rs[Len(rs)].prev, rs[Len(rs)].body)
    BY <1>2 DEF WantPrev, Hash
  <2>3. Len(rs[Len(rs)].prev) = Len(rs) - 1 /\ rs[Len(rs)].prev \in Seq(Content) /\ rs[Len(rs)].body \in Content
    BY <2>1, Heights DEF Record
  <2>4. QED
    BY <2>2, <2>3
<1>3. QED
  BY <1>1, <1>2

LEMMA TruncateSays ==
    ASSUME NEW rs \in Seq(Record), Verifies(rs), NEW n \in 0..(Len(rs) - 1)
    PROVE  Verifies(SubSeq(rs, 1, n)) /\ Len(SubSeq(rs, 1, n)) = n
<1> DEFINE f == SubSeq(rs, 1, n)
<1>1. Len(f) = n /\ DOMAIN f = 1..n /\ 1..n \subseteq DOMAIN rs /\ \A i \in 1..n : f[i] = rs[i]
  OBVIOUS
<1>2. \A i \in 1..n : i > 1 => i - 1 \in 1..n
  OBVIOUS
<1> HIDE DEF f
<1>3. AllTrusted(f) /\ NoRepeatedRecord(f) /\ NoFork(f)
  BY <1>1 DEF Verifies, AllTrusted, NoRepeatedRecord, NoFork
<1>4. SeqContiguous(f) /\ NoRepeatedPayload(f)
  BY <1>1, SMTT(30) DEF Verifies, SeqContiguous, NoRepeatedPayload
<1>5. Linked(f)
  <2>1. ASSUME NEW i \in 1..n PROVE f[i].prev = IF i = 1 THEN GenesisPrev ELSE Hash(f[i - 1])
    BY <1>1, <1>2 DEF Verifies, Linked
  <2>2. QED
    BY <1>1, <2>1 DEF Linked
<1>6. TimeOrdered(f)
  BY <1>1, <1>2 DEF Verifies, TimeOrdered
<1>7. QED
  BY <1>1, <1>3, <1>4, <1>5, <1>6 DEF Verifies, f

LEMMA RemoveSays ==
    ASSUME NEW rs \in Seq(Record), Verifies(rs), NEW i \in 1..(Len(rs) - 1), NEW known
    PROVE  VerifyError(RemoveAt(rs, i), known) = "ErrSequence"
<1> DEFINE f == RemoveAt(rs, i)
           from(k) == IF k < i THEN k ELSE k + 1
<1>1. Len(rs) \in Nat /\ DOMAIN rs = 1..Len(rs)
  OBVIOUS
<1>2. DOMAIN f = 1..(Len(rs) - 1) /\ \A k \in DOMAIN f : f[k] = rs[from(k)]
  BY <1>1, RemoveAtIs
<1>3. \A k \in DOMAIN f : from(k) \in DOMAIN rs /\ \A j \in DOMAIN f : from(k) = from(j) => k = j
  BY <1>1, <1>2
<1>4. i \in DOMAIN f /\ f[i] = rs[i + 1] /\ i + 1 \in DOMAIN rs
  BY <1>1, <1>2
<1> HIDE DEF f, from
<1>5. AllTrusted(f)
  BY <1>2, <1>3 DEF Verifies, AllTrusted
<1>6. NoRepeatedRecord(f)
  BY <1>2, <1>3 DEF Verifies, NoRepeatedRecord
<1>7. NoFork(f)
  BY <1>2, <1>3 DEF Verifies, NoFork
<1>8. ~SeqContiguous(f)
  <2>1. rs[i + 1].body.seq = i
    BY <1>4 DEF Verifies, SeqContiguous
  <2>2. i # i - 1
    OBVIOUS
  <2>3. QED
    BY <1>4, <2>1, <2>2 DEF SeqContiguous
<1>9. QED
  BY <1>5, <1>6, <1>7, <1>8, VerifySays DEF f

LEMMA DuplicateSays ==
    ASSUME NEW rs \in Seq(Record), Verifies(rs), NEW i \in DOMAIN rs, NEW at \in 1..(Len(rs) + 1), NEW known
    PROVE  VerifyError(InsertAt(rs, at, rs[i]), known) = "ErrReplay"
<1> DEFINE f == InsertAt(rs, at, rs[i])
           where == IF i < at THEN i ELSE i + 1
<1>1. Len(rs) \in Nat /\ DOMAIN rs = 1..Len(rs) /\ rs[i] \in Record
  OBVIOUS
<1>2. /\ DOMAIN f = 1..(Len(rs) + 1)
      /\ \A k \in DOMAIN f : f[k] = IF k < at THEN rs[k] ELSE IF k = at THEN rs[i] ELSE rs[k - 1]
  <2>1. \A e \in Record :
          /\ DOMAIN InsertAt(rs, at, e) = 1..(Len(rs) + 1)
          /\ \A k \in 1..(Len(rs) + 1) :
                InsertAt(rs, at, e)[k] = IF k < at THEN rs[k] ELSE IF k = at THEN e ELSE rs[k - 1]
    BY InsertAtIs
  <2>2. QED
    BY <1>1, <2>1
<1>3. where \in DOMAIN f /\ at \in DOMAIN f /\ where # at /\ f[where] = rs[i] /\ f[at] = rs[i]
  BY <1>1, <1>2
<1>4. \A k \in DOMAIN f : \E j \in DOMAIN rs : f[k] = rs[j]
  <2>1. ASSUME NEW k \in DOMAIN f PROVE \E j \in DOMAIN rs : f[k] = rs[j]
    <3>1. CASE k < at
      BY <1>1, <1>2, <3>1
    <3>2. CASE k = at
      BY <1>2, <3>2
    <3>3. CASE k > at
      <4>1. k - 1 \in DOMAIN rs
        BY <1>1, <1>2, <3>3
      <4>2. QED
        BY <1>2, <3>3, <4>1
    <3>4. QED
      BY <1>2, <3>1, <3>2, <3>3
  <2>2. QED
    BY <2>1
<1> HIDE DEF f, where
<1>5. AllTrusted(f)
  BY <1>4 DEF Verifies, AllTrusted
<1>6. ~NoRepeatedRecord(f)
  BY <1>3 DEF NoRepeatedRecord
<1>7. QED
  BY <1>5, <1>6, VerifySays DEF f

LEMMA SwapSays ==
    ASSUME NEW rs \in Seq(Record), Verifies(rs), NEW i \in DOMAIN rs, NEW j \in DOMAIN rs, i < j, NEW known
    PROVE  VerifyError(ReplaceAt(ReplaceAt(rs, i, rs[j]), j, rs[i]), known) = "ErrSequence"
<1> DEFINE f == ReplaceAt(ReplaceAt(rs, i, rs[j]), j, rs[i])
           from(k) == IF k = i THEN j ELSE IF k = j THEN i ELSE k
<1>1. Len(rs) \in Nat /\ DOMAIN rs = 1..Len(rs)
  OBVIOUS
<1>2. DOMAIN f = DOMAIN rs /\ \A k \in DOMAIN f : f[k] = rs[from(k)]
  BY DEF ReplaceAt
<1>3. \A k \in DOMAIN f : from(k) \in DOMAIN rs /\ \A l \in DOMAIN f : from(k) = from(l) => k = l
  BY <1>2
<1>4. from(i) = j /\ i \in Int /\ j \in Int
  BY <1>1
<1> HIDE DEF f, from
<1>5. AllTrusted(f) /\ NoRepeatedRecord(f) /\ NoFork(f)
  BY <1>2, <1>3 DEF Verifies, AllTrusted, NoRepeatedRecord, NoFork
<1>6. ~SeqContiguous(f)
  <2>1. f[i].body.seq = j - 1
    BY <1>2, <1>4 DEF Verifies, SeqContiguous
  <2>2. QED
    BY <1>2, <1>4, <2>1 DEF SeqContiguous
<1>7. QED
  BY <1>5, <1>6, VerifySays DEF f

LEMMA ForkSays ==
    ASSUME NEW rs \in Seq(Record), Verifies(rs), NEW i \in DOMAIN rs, NEW at \in 1..(Len(rs) + 1),
           NEW b \in Content, b.key \in Trusted, b # rs[i].body, NEW known
    PROVE  VerifyError(InsertAt(rs, at, [prev |-> rs[i].prev, body |-> b]), known) = "ErrFork"
<1> DEFINE r == [prev |-> rs[i].prev, body |-> b]
           f == InsertAt(rs, at, r)
           from(k) == IF k < at THEN k ELSE k - 1
           where == IF i < at THEN i ELSE i + 1
<1>1. Len(rs) \in Nat /\ DOMAIN rs = 1..Len(rs)
  OBVIOUS
<1>2. r \in Record /\ r.prev = rs[i].prev /\ r.body = b
  <2>1. rs[i] \in Record
    OBVIOUS
  <2>2. QED
    BY <2>1 DEF Record
<1> HIDE DEF r
<1>3. /\ DOMAIN f = 1..(Len(rs) + 1)
      /\ \A k \in DOMAIN f : f[k] = IF k < at THEN rs[k] ELSE IF k = at THEN r ELSE rs[k - 1]
  <2>1. \A e \in Record :
          /\ DOMAIN InsertAt(rs, at, e) = 1..(Len(rs) + 1)
          /\ \A k \in 1..(Len(rs) + 1) :
                InsertAt(rs, at, e)[k] = IF k < at THEN rs[k] ELSE IF k = at THEN e ELSE rs[k - 1]
    BY InsertAtIs
  <2>2. QED
    BY <1>1, <1>2, <2>1
<1>4. \A k \in DOMAIN f : k # at => f[k] = rs[from(k)] /\ from(k) \in DOMAIN rs
  BY <1>1, <1>3
<1>5. \A k, l \in DOMAIN f : k # at /\ l # at /\ from(k) = from(l) => k = l
  BY <1>3
<1>6. f[at] = r /\ where \in DOMAIN f /\ where # at /\ f[where] = rs[i] /\ at \in DOMAIN f
  BY <1>1, <1>3
<1> HIDE DEF f, from, where
<1>7. \A j \in DOMAIN rs : Hash(rs[j]) # Hash(r)
  <2>1. ASSUME NEW j \in DOMAIN rs, Hash(rs[j]) = Hash(r) PROVE FALSE
    <3>1. rs[j] \in Record
      BY <1>1
    <3>2. Len(rs[j].prev) = Len(rs[i].prev) /\ rs[j].body = b
      BY <1>2, <2>1, <3>1, SameBody
    <3>3. j = i
      BY <1>1, <3>2, Heights DEF Verifies
    <3>4. QED
      BY <3>2, <3>3
  <2>2. QED
    BY <2>1
<1>8. AllTrusted(f)
  <2>1. ASSUME NEW k \in DOMAIN f PROVE f[k].body.key \in Trusted
    BY <1>2, <1>4, <1>6 DEF Verifies, AllTrusted
  <2>2. QED
    BY <2>1 DEF AllTrusted
<1>9. NoRepeatedRecord(f)
  <2>1. ASSUME NEW k \in DOMAIN f, NEW l \in DOMAIN f, Hash(f[k]) = Hash(f[l]) PROVE k = l
    <3>1. CASE k # at /\ l # at
      BY <1>4, <1>5, <2>1, <3>1 DEF Verifies, NoRepeatedRecord
    <3>2. CASE k = at \/ l = at
      BY <1>4, <1>6, <1>7, <2>1, <3>2
    <3>3. QED
      BY <3>1, <3>2
  <2>2. QED
    BY <2>1 DEF NoRepeatedRecord
<1>10. ~NoFork(f)
  BY <1>2, <1>6 DEF NoFork
<1>11. QED
  BY <1>8, <1>9, <1>10, VerifySays DEF f, r

LEMMA AlterSays ==
    ASSUME NEW rs \in Seq(Record), Verifies(rs), NEW i \in DOMAIN rs,
           NEW b \in Content, b.key \in Trusted, b.seq = i - 1, b # rs[i].body,
           b.payload \notin Used(RemoveAt(rs, i)), i > 1 => rs[i - 1].body.time <= b.time
    PROVE  LET f == ReplaceAt(rs, i, [prev |-> rs[i].prev, body |-> b]) IN
           /\ ~Linked(f) => \A known : VerifyError(f, known) = "ErrPrevHash"
           /\ Linked(f) => Verifies(f) /\ WantPrev(f) # WantPrev(rs) /\ Len(f) = Len(rs)
                           /\ Hash(f[Len(rs)]) # WantPrev(rs) /\ Len(rs) \in DOMAIN f
<1> DEFINE r == [prev |-> rs[i].prev, body |-> b]
           f == ReplaceAt(rs, i, r)
<1>1. Len(rs) \in Nat /\ DOMAIN rs = 1..Len(rs)
  OBVIOUS
<1>2. r \in Record /\ r.prev = rs[i].prev /\ r.body = b
  <2>1. rs[i] \in Record
    OBVIOUS
  <2>2. QED
    BY <2>1 DEF Record
<1> HIDE DEF r
<1>3. Len(f) = Len(rs) /\ DOMAIN f = DOMAIN rs /\ \A k \in DOMAIN f : f[k] = IF k = i THEN r ELSE rs[k]
  BY <1>2 DEF ReplaceAt
<1> HIDE DEF f
<1>4. \A j \in DOMAIN rs : Hash(rs[j]) # Hash(r)
  <2>1. ASSUME NEW j \in DOMAIN rs, Hash(rs[j]) = Hash(r) PROVE FALSE
    <3>1. rs[j] \in Record
      BY <1>1
    <3>2. Len(rs[j].prev) = Len(rs[i].prev) /\ rs[j].body = b
      BY <1>2, <2>1, <3>1, SameBody
    <3>3. j = i
      BY <1>1, <3>2, Heights DEF Verifies
    <3>4. QED
      BY <3>2, <3>3
  <2>2. QED
    BY <2>1
<1>5. AllTrusted(f)
  BY <1>2, <1>3 DEF Verifies, AllTrusted
<1>6. NoRepeatedRecord(f)
  BY <1>3, <1>4 DEF Verifies, NoRepeatedRecord
<1>7. NoFork(f)
  BY <1>2, <1>3 DEF Verifies, NoFork
<1>8. SeqContiguous(f)
  BY <1>2, <1>3 DEF Verifies, SeqContiguous
<1>9. ASSUME Linked(f) PROVE i = Len(rs)
  <2>1. SUFFICES ASSUME i # Len(rs) PROVE FALSE
    OBVIOUS
  <2>2. i + 1 \in DOMAIN rs /\ i + 1 # 1 /\ (i + 1) - 1 = i /\ i + 1 # i
    BY <1>1, <2>1
  <2>3. rs[i + 1].prev = Hash(rs[i]) /\ f[i + 1].prev = Hash(f[i])
    BY <1>3, <1>9, <2>2 DEF Verifies, Linked
  <2>4. Hash(rs[i]) = Hash(r)
    BY <1>3, <2>2, <2>3
  <2>5. QED
    BY <1>4, <2>4
<1>10. ASSUME Linked(f)
       PROVE  Verifies(f) /\ WantPrev(f) # WantPrev(rs) /\ Hash(f[Len(rs)]) # WantPrev(rs)
  <2>1. i = Len(rs)
    BY <1>9, <1>10
  <2>2. \A j \in DOMAIN rs : j # i => rs[j].body.payload # b.payload
    <3>1. ASSUME NEW j \in DOMAIN rs, j # i PROVE rs[j].body.payload \in Used(RemoveAt(rs, i))
      <4>1. j \in 1..(Len(rs) - 1) /\ j < i
        BY <1>1, <2>1, <3>1
      <4>2. j \in DOMAIN RemoveAt(rs, i) /\ RemoveAt(rs, i)[j] = rs[j]
        BY <1>1, <4>1, RemoveAtIs
      <4>3. QED
        BY <4>2 DEF Used
    <3>2. QED
      BY <3>1
  <2>3. NoRepeatedPayload(f)
    BY <1>2, <1>3, <2>2 DEF Verifies, NoRepeatedPayload
  <2>4. TimeOrdered(f)
    <3>1. ASSUME NEW k \in DOMAIN f, k > 1 PROVE f[k - 1].body.time <= f[k].body.time
      <4>1. k - 1 \in DOMAIN f /\ k - 1 # i
        BY <1>1, <1>3, <2>1, <3>1
      <4>2. QED
        BY <1>2, <1>3, <3>1, <4>1 DEF Verifies, TimeOrdered
    <3>2. QED
      BY <3>1 DEF TimeOrdered
  <2>5. WantPrev(f) = Hash(r) /\ WantPrev(rs) = Hash(rs[i]) /\ f[Len(rs)] = r
    <3>1. f # << >> /\ rs # << >>
      BY <1>3
    <3>2. QED
      BY <1>3, <2>1, <3>1 DEF WantPrev
  <2>6. QED
    BY <1>4, <1>5, <1>6, <1>7, <1>8, <1>10, <2>3, <2>4, <2>5 DEF Verifies
<1>11. ASSUME ~Linked(f), NEW known PROVE VerifyError(f, known) = "ErrPrevHash"
  BY <1>5, <1>6, <1>7, <1>8, <1>11, VerifySays
<1>12. Len(rs) \in DOMAIN f
  BY <1>1, <1>3
<1>13. QED
  BY <1>3, <1>10, <1>11, <1>12 DEF f, r

(* A record that follows a genuine chain passes the checks of its place.    *)
LEMMA Extended ==
    ASSUME NEW rs \in Seq(Record), Verifies(rs), NEW b \in Content, b.key \in Trusted, b.seq = Len(rs),
           NEW f, f = Append(rs, [prev |-> WantPrev(rs), body |-> b])
    PROVE  /\ AllTrusted(f) /\ NoRepeatedRecord(f) /\ NoFork(f) /\ SeqContiguous(f) /\ Linked(f)
           /\ DOMAIN f = 1..(Len(rs) + 1) /\ f[Len(rs) + 1].body = b /\ \A k \in DOMAIN rs : f[k] = rs[k]
<1> DEFINE n == Len(rs)
           r == [prev |-> WantPrev(rs), body |-> b]
<1>1. n \in Nat /\ DOMAIN rs = 1..n /\ n + 1 \notin DOMAIN rs
  OBVIOUS
<1>2. r.prev = WantPrev(rs) /\ r.body = b /\ r \in Record /\ Len(r.prev) = n
  <2>1. WantPrev(rs) \in Seq(Content) /\ Len(WantPrev(rs)) = n
    BY HeadOf DEF Verifies
  <2>2. QED
    BY <2>1 DEF Record
<1> HIDE DEF r
<1>3. DOMAIN f = 1..(n + 1) /\ f[n + 1] = r /\ \A k \in 1..n : f[k] = rs[k]
  BY <1>1, <1>2 DEF r
<1>4. \A k \in DOMAIN f : k = n + 1 \/ k \in DOMAIN rs
  BY <1>1, <1>3
<1>5. \A j \in DOMAIN rs : Len(rs[j].prev) # Len(r.prev)
  <2>1. ASSUME NEW j \in DOMAIN rs PROVE Len(rs[j].prev) # n
    BY <1>1, Heights DEF Verifies
  <2>2. QED
    BY <1>2, <2>1
<1>6. \A j \in DOMAIN rs : Hash(rs[j]) # Hash(r) /\ rs[j].prev # r.prev
  <2>1. ASSUME NEW j \in DOMAIN rs PROVE Hash(rs[j]) # Hash(r)
    <3>1. rs[j] \in Record
      BY <1>1
    <3>2. QED
      BY <1>2, <1>5, <3>1, SameBody
  <2>2. QED
    BY <1>5, <2>1
<1> HIDE DEF n
<1>7. AllTrusted(f)
  BY <1>1, <1>2, <1>3, <1>4 DEF Verifies, AllTrusted
<1>8. NoRepeatedRecord(f)
  BY <1>1, <1>3, <1>4, <1>6 DEF Verifies, NoRepeatedRecord
<1>9. NoFork(f)
  BY <1>1, <1>3, <1>4, <1>6 DEF Verifies, NoFork
<1>10. SeqContiguous(f)
  <2>1. ASSUME NEW k \in DOMAIN f PROVE f[k].body.seq = k - 1
    <3>1. CASE k = n + 1
      BY <1>1, <1>2, <1>3, <3>1 DEF n
    <3>2. CASE k \in DOMAIN rs
      BY <1>1, <1>3, <3>2 DEF Verifies, SeqContiguous
    <3>3. QED
      BY <1>4, <3>1, <3>2
  <2>2. QED
    BY <2>1 DEF SeqContiguous
<1>11. Linked(f)
  <2>1. ASSUME NEW k \in DOMAIN f PROVE f[k].prev = IF k = 1 THEN GenesisPrev ELSE Hash(f[k - 1])
    <3>1. CASE k = n + 1 /\ n = 0
      <4>1. rs = << >>
        BY <3>1 DEF n
      <4>2. QED
        BY <1>2, <1>3, <3>1, <4>1 DEF WantPrev
    <3>2. CASE k = n + 1 /\ n # 0
      <4>1. rs # << >> /\ n \in DOMAIN rs /\ k # 1 /\ k - 1 = n
        BY <1>1, <3>2 DEF n
      <4>2. WantPrev(rs) = Hash(rs[n])
        BY <4>1 DEF WantPrev, n
      <4>3. QED
        BY <1>1, <1>2, <1>3, <3>2, <4>1, <4>2
    <3>3. CASE k \in DOMAIN rs
      <4>1. k # 1 => k - 1 \in 1..n
        BY <1>1, <3>3
      <4>2. QED
        BY <1>1, <1>3, <3>3, <4>1 DEF Verifies, Linked
    <3>4. QED
      BY <1>4, <3>1, <3>2, <3>3
  <2>2. QED
    BY <2>1 DEF Linked
<1>12. QED
  BY <1>1, <1>2, <1>3, <1>7, <1>8, <1>9, <1>10, <1>11 DEF n

LEMMA ReplaySays ==
    ASSUME NEW rs \in Seq(Record), Verifies(rs), NEW b \in Content, b.key \in Trusted, b.seq = Len(rs), NEW known
    PROVE  LET f == Append(rs, [prev |-> WantPrev(rs), body |-> b]) IN
           /\ b.payload \in Used(rs) => VerifyError(f, known) = "ErrReplay"
           /\ b.payload \notin Used(rs) /\ rs # << >> /\ b.time < Last(rs).body.time => VerifyError(f, known) = "ErrTime"
<1> DEFINE f == Append(rs, [prev |-> WantPrev(rs), body |-> b])
           n == Len(rs)
<1>0. f = Append(rs, [prev |-> WantPrev(rs), body |-> b])
  OBVIOUS
<1> HIDE DEF f
<1>1. /\ AllTrusted(f) /\ NoRepeatedRecord(f) /\ NoFork(f) /\ SeqContiguous(f) /\ Linked(f)
      /\ DOMAIN f = 1..(n + 1) /\ f[n + 1].body = b /\ \A k \in DOMAIN rs : f[k] = rs[k]
  <2>1. \A g : g = Append(rs, [prev |-> WantPrev(rs), body |-> b]) =>
          /\ AllTrusted(g) /\ NoRepeatedRecord(g) /\ NoFork(g) /\ SeqContiguous(g) /\ Linked(g)
          /\ DOMAIN g = 1..(n + 1) /\ g[n + 1].body = b /\ \A k \in DOMAIN rs : g[k] = rs[k]
    BY Extended
  <2>2. QED
    BY <1>0, <2>1
<1>2. n \in Nat /\ DOMAIN rs = 1..n
  OBVIOUS
<1>3. ASSUME b.payload \in Used(rs) PROVE VerifyError(f, known) = "ErrReplay"
  <2>1. PICK i \in DOMAIN rs : rs[i].body.payload = b.payload
    BY <1>3 DEF Used
  <2>2. i \in DOMAIN f /\ n + 1 \in DOMAIN f /\ i # n + 1 /\ f[i].body.payload = f[n + 1].body.payload
    BY <1>1, <1>2, <2>1
  <2>3. ~NoRepeatedPayload(f)
    BY <2>2 DEF NoRepeatedPayload
  <2>4. QED
    BY <1>1, <2>3, VerifySays
<1>4. ASSUME b.payload \notin Used(rs), rs # << >>, b.time < Last(rs).body.time
      PROVE  VerifyError(f, known) = "ErrTime"
  <2>1. \A i \in DOMAIN rs : rs[i].body.payload # b.payload
    BY <1>4 DEF Used
  <2>2. \A k \in DOMAIN f : k = n + 1 \/ k \in DOMAIN rs
    BY <1>1, <1>2
  <2>3. NoRepeatedPayload(f)
    BY <1>1, <2>1, <2>2 DEF Verifies, NoRepeatedPayload
  <2>4. n \in DOMAIN rs /\ n + 1 \in DOMAIN f /\ n + 1 > 1 /\ (n + 1) - 1 = n /\ rs[n] \in Record
    BY <1>1, <1>2, <1>4
  <2>5. rs[n].body.time \in Nat /\ b.time \in Nat /\ ~(rs[n].body.time <= b.time)
    BY <1>4, <2>4 DEF Record, Content, Last
  <2>6. ~TimeOrdered(f)
    <3>1. f[(n + 1) - 1] = rs[n] /\ f[n + 1].body = b
      BY <1>1, <2>4
    <3>2. QED
      BY <2>4, <2>5, <3>1 DEF TimeOrdered
  <2>7. QED
    BY <1>1, <2>3, <2>6, VerifySays
<1>5. QED
  BY <1>3, <1>4 DEF f

LEMMA ForgeSays ==
    ASSUME NEW rs \in Seq(Record), NEW b \in Content, b.key \notin Trusted, NEW known
    PROVE  VerifyError(Append(rs, [prev |-> WantPrev(rs), body |-> b]), known) = "ErrSignature"
<1> DEFINE f == Append(rs, [prev |-> WantPrev(rs), body |-> b])
<1>1. Len(rs) + 1 \in DOMAIN f /\ f[Len(rs) + 1].body = b
  OBVIOUS
<1> HIDE DEF f
<1>2. ~AllTrusted(f)
  BY <1>1 DEF AllTrusted
<1>3. QED
  BY <1>2, VerifySays DEF f

-----------------------------------------------------------------------------
(* The edits are made to a genuine chain, and it verifies.                  *)
GenuineInv ==
    /\ genuine \in Seq(Record) /\ Verifies(genuine)
    /\ edit = "none" => file = genuine

EditsInv == GenuineInv /\ EditIsNamed /\ AnchorSeesEveryEdit

LEMMA EmptyVerifies == Verifies(<< >>)
  BY DEF Verifies, AllTrusted, NoRepeatedRecord, NoFork, SeqContiguous, Linked, NoRepeatedPayload, TimeOrdered

(* A chain that grew is what Verify and every older anchor of it accept.    *)
LEMMA GrownIsAccepted ==
    ASSUME NEW rs \in Seq(Record), Verifies(rs)
    PROVE  /\ VerifyError(rs, {}) = "ok"
           /\ \A n \in DOMAIN rs : VerifyError(rs, {HeadAnchor(SubSeq(rs, 1, n))}) = "ok"
<1>1. VerifyError(rs, {}) = "ok"
  BY VerifySays
<1>2. ASSUME NEW n \in DOMAIN rs PROVE VerifyError(rs, {HeadAnchor(SubSeq(rs, 1, n))}) = "ok"
  <2> DEFINE young == SubSeq(rs, 1, n)
             a == HeadAnchor(young)
  <2>1. Len(young) = n /\ young # << >> /\ young[n] = rs[n] /\ n \in Nat /\ Len(rs) \in Nat /\ n <= Len(rs)
    OBVIOUS
  <2>2. a.length = n /\ a.head = Hash(rs[n])
    BY <2>1 DEF HeadAnchor, WantPrev
  <2> HIDE DEF a
  <2>3. ~TruncatedBy(rs, a) /\ ~ForkedBy(rs, a)
    BY <2>1, <2>2 DEF TruncatedBy, ForkedBy
  <2>4. \A x \in {a} : ~TruncatedBy(rs, x) /\ ~ForkedBy(rs, x)
    BY <2>3
  <2>5. VerifyError(rs, {a}) = "ok"
    BY <2>4, VerifySays
  <2>6. QED
    BY <2>5 DEF a
<1>3. QED
  BY <1>1, <1>2

LEMMA EditsBegin == EditsInit => EditsInv
<1> SUFFICES ASSUME EditsInit PROVE EditsInv
  OBVIOUS
<1>1. genuine = << >> /\ file = << >> /\ edit = "none" /\ genuine \in Seq(Record)
  BY DEF EditsInit
<1>2. GenuineInv
  BY <1>1, EmptyVerifies DEF GenuineInv
<1>3. VerifyError(file, {}) = "ok" /\ \A n \in DOMAIN file : VerifyError(file, {HeadAnchor(SubSeq(file, 1, n))}) = "ok"
  BY <1>1, EmptyVerifies, GrownIsAccepted
<1>4. QED
  BY <1>1, <1>2, <1>3 DEF EditsInv, EditIsNamed, AnchorSeesEveryEdit, Named

(* An edit that has an error of its own, whatever is known of the chain.    *)
LEMMA NamedEdit ==
    ASSUME EditsInv, NEW name, NEW changed, Edit(name, changed),
           name \in DOMAIN Named \ {"none", "alter", "truncate"},
           \A known : VerifyError(changed, known) = Named[name]
    PROVE  EditsInv'
<1>1. edit' = name /\ file' = changed /\ genuine' = genuine
  BY DEF Edit
<1>2. Named[name] # "ok"
  BY DEF Named
<1>3. VerifyError(file, {})' = Named[name] /\ VerifyError(file, {HeadAnchor(genuine)})' = Named[name]
  BY <1>1
<1>4. QED
  BY <1>1, <1>2, <1>3 DEF EditsInv, GenuineInv, EditIsNamed, AnchorSeesEveryEdit

LEMMA EditsSteps == EditsInv /\ [EditsNext]_editVars => EditsInv'
<1> SUFFICES ASSUME EditsInv, [EditsNext]_editVars PROVE EditsInv'
  OBVIOUS
<1>1. CASE UNCHANGED editVars
  BY <1>1 DEF editVars, EditsInv, GenuineInv, EditIsNamed, AnchorSeesEveryEdit
<1>2. CASE Grow
  <2>1. PICK b \in Bodies(Len(file), Trusted) :
          /\ file' = Append(file, [prev |-> WantPrev(file), body |-> b])
          /\ Verifies(file') /\ genuine' = file' /\ edit' = edit /\ edit = "none" /\ file = genuine
    BY <1>2 DEF Grow, EditsInv, GenuineInv
  <2>2. file \in Seq(Record) /\ Len(file) \in Nat /\ Linked(file)
    BY <2>1 DEF EditsInv, GenuineInv, Verifies
  <2>3. file' \in Seq(Record)
    <3>1. b \in Content
      BY <2>2, KeysAssumption, BodiesAreContents
    <3>2. [prev |-> WantPrev(file), body |-> b] \in Record
      BY <2>2, <3>1, HeadOf DEF Record
    <3>3. QED
      BY <2>1, <2>2, <3>2
  <2>4. /\ VerifyError(file', {}) = "ok"
        /\ \A n \in DOMAIN file' : VerifyError(file', {HeadAnchor(SubSeq(file', 1, n))}) = "ok"
    BY <2>1, <2>3, GrownIsAccepted
  <2>5. GenuineInv'
    BY <2>1, <2>3 DEF GenuineInv
  <2>6. edit' = "none" /\ Named["none"] = "ok"
    BY <2>1 DEF Named
  <2>7. QED
    BY <2>4, <2>5, <2>6 DEF EditsInv, EditIsNamed, AnchorSeesEveryEdit
<1>3. CASE edit = "none"
  <2> DEFINE rs == genuine
  <2>1. /\ file = rs /\ rs \in Seq(Record) /\ Verifies(rs)
        /\ Len(rs) \in Nat /\ DOMAIN rs = 1..Len(rs)
    BY <1>3 DEF EditsInv, GenuineInv
  <2>2. CASE Truncate
    <3>1. PICK n \in 0..(Len(rs) - 1) : Edit("truncate", SubSeq(rs, 1, n))
      BY <2>1, <2>2 DEF Truncate
    <3>2. edit' = "truncate" /\ file' = SubSeq(rs, 1, n) /\ genuine' = genuine
      BY <3>1 DEF Edit
    <3>3. Verifies(file') /\ Len(file') = n
      BY <2>1, <3>2, TruncateSays
    <3>4. VerifyError(file', {}) = "ok"
      BY <3>3, VerifySays
    <3>5. VerifyError(file', {HeadAnchor(genuine')}) # "ok"
      <4>1. TruncatedBy(file', HeadAnchor(genuine'))
        BY <2>1, <3>2, <3>3 DEF TruncatedBy, HeadAnchor
      <4>2. QED
        BY <3>3, <4>1, VerifySays
    <3>6. QED
      BY <2>1, <3>2, <3>4, <3>5 DEF EditsInv, GenuineInv, EditIsNamed, AnchorSeesEveryEdit, Named
  <2>3. CASE RemoveOne
    <3>1. PICK i \in 1..(Len(rs) - 1) : Edit("remove", RemoveAt(rs, i))
      BY <2>1, <2>3 DEF RemoveOne
    <3>2. \A known : VerifyError(RemoveAt(rs, i), known) = "ErrSequence"
      BY <2>1, RemoveSays
    <3>3. QED
      BY <3>1, <3>2, NamedEdit DEF Named
  <2>4. CASE Duplicate
    <3>1. PICK i \in DOMAIN rs, at \in 1..(Len(rs) + 1) : Edit("duplicate", InsertAt(rs, at, rs[i]))
      BY <2>1, <2>4 DEF Duplicate
    <3>2. \A known : VerifyError(InsertAt(rs, at, rs[i]), known) = "ErrReplay"
      BY <2>1, DuplicateSays
    <3>3. QED
      BY <3>1, <3>2, NamedEdit DEF Named
  <2>5. CASE Swap
    <3>1. PICK i \in DOMAIN rs, j \in DOMAIN rs :
            i < j /\ Edit("swap", ReplaceAt(ReplaceAt(rs, i, rs[j]), j, rs[i]))
      BY <2>1, <2>5 DEF Swap
    <3>2. \A known : VerifyError(ReplaceAt(ReplaceAt(rs, i, rs[j]), j, rs[i]), known) = "ErrSequence"
      BY <2>1, <3>1, SwapSays
    <3>3. QED
      BY <3>1, <3>2, NamedEdit DEF Named
  <2>6. CASE Fork
    <3>0. PICK i \in DOMAIN rs, at \in 1..(Len(rs) + 1) :
            \E b \in Bodies(i - 1, Trusted) :
              /\ b # rs[i].body
              /\ Edit("fork", InsertAt(rs, at, [prev |-> rs[i].prev, body |-> b]))
      BY <2>1, <2>6 DEF Fork
    <3>1. PICK b \in Bodies(i - 1, Trusted) :
              /\ b # rs[i].body
              /\ Edit("fork", InsertAt(rs, at, [prev |-> rs[i].prev, body |-> b]))
      BY <3>0
    <3>2. b \in Content /\ b.key \in Trusted
      BY <2>1, KeysAssumption, BodiesAreContents
    <3>3. \A known : VerifyError(InsertAt(rs, at, [prev |-> rs[i].prev, body |-> b]), known) = "ErrFork"
      BY <2>1, <3>1, <3>2, ForkSays
    <3>4. QED
      BY <3>1, <3>3, NamedEdit DEF Named
  <2>7. CASE Alter
    <3>0. PICK i \in DOMAIN rs : \E b \in Bodies(i - 1, Trusted) :
            /\ b # rs[i].body
            /\ b.payload \notin Used(RemoveAt(rs, i))
            /\ i > 1 => rs[i - 1].body.time <= b.time
            /\ Edit("alter", ReplaceAt(rs, i, [prev |-> rs[i].prev, body |-> b]))
      BY <2>1, <2>7 DEF Alter
    <3>1. PICK b \in Bodies(i - 1, Trusted) :
            /\ b # rs[i].body
            /\ b.payload \notin Used(RemoveAt(rs, i))
            /\ i > 1 => rs[i - 1].body.time <= b.time
            /\ Edit("alter", ReplaceAt(rs, i, [prev |-> rs[i].prev, body |-> b]))
      BY <3>0
    <3>2. b \in Content /\ b.key \in Trusted /\ b.seq = i - 1
      BY <2>1, KeysAssumption, BodiesAreContents
    <3>3. edit' = "alter" /\ file' = ReplaceAt(rs, i, [prev |-> rs[i].prev, body |-> b]) /\ genuine' = genuine
      BY <3>1 DEF Edit
    <3>4. /\ ~Linked(file') => \A known : VerifyError(file', known) = "ErrPrevHash"
          /\ Linked(file') => /\ Verifies(file') /\ Len(file') = Len(rs)
                              /\ Hash(file'[Len(rs)]) # WantPrev(rs) /\ Len(rs) \in DOMAIN file'
      BY <2>1, <3>1, <3>2, <3>3, AlterSays
    <3>5. Linked(file') => /\ VerifyError(file', {}) = "ok"
                           /\ VerifyError(file', {HeadAnchor(genuine')}) = "ErrFork"
      <4>1. ASSUME Linked(file') PROVE ~TruncatedBy(file', HeadAnchor(rs)) /\ ForkedBy(file', HeadAnchor(rs))
        BY <2>1, <3>4, <4>1 DEF TruncatedBy, ForkedBy, HeadAnchor
      <4>2. QED
        BY <3>3, <3>4, <4>1, VerifySays
    <3>6. EditIsNamed'
      BY <3>3, <3>4, <3>5 DEF EditIsNamed, Named
    <3>7. AnchorSeesEveryEdit'
      BY <3>3, <3>4, <3>5 DEF AnchorSeesEveryEdit
    <3>8. QED
      BY <2>1, <3>3, <3>6, <3>7 DEF EditsInv, GenuineInv
  <2>8. CASE Replay
    <3>1. PICK b \in Bodies(Len(rs), Trusted) :
            b.payload \in Used(rs) /\ Edit("replay", Append(rs, [prev |-> WantPrev(rs), body |-> b]))
      BY <2>1, <2>8 DEF Replay
    <3>2. b \in Content /\ b.key \in Trusted /\ b.seq = Len(rs)
      BY <2>1, KeysAssumption, BodiesAreContents
    <3>3. \A known : VerifyError(Append(rs, [prev |-> WantPrev(rs), body |-> b]), known) = "ErrReplay"
      BY <2>1, <3>1, <3>2, ReplaySays
    <3>4. QED
      BY <3>1, <3>3, NamedEdit DEF Named
  <2>9. CASE Backdate
    <3>1. PICK b \in Bodies(Len(rs), Trusted) :
            /\ b.payload \notin Used(rs) /\ rs # << >> /\ b.time < Last(rs).body.time
            /\ Edit("backdate", Append(rs, [prev |-> WantPrev(rs), body |-> b]))
      BY <2>1, <2>9 DEF Backdate
    <3>2. b \in Content /\ b.key \in Trusted /\ b.seq = Len(rs)
      BY <2>1, KeysAssumption, BodiesAreContents
    <3>3. \A known : VerifyError(Append(rs, [prev |-> WantPrev(rs), body |-> b]), known) = "ErrTime"
      BY <2>1, <3>1, <3>2, ReplaySays
    <3>4. QED
      BY <3>1, <3>3, NamedEdit DEF Named
  <2>10. CASE Forge
    <3>1. PICK b \in Bodies(Len(rs), Keys \ Trusted) :
            Edit("forge", Append(rs, [prev |-> WantPrev(rs), body |-> b]))
      BY <2>1, <2>10 DEF Forge
    <3>2. b \in Content /\ b.key \notin Trusted
      BY <2>1, BodiesAreContents
    <3>3. \A known : VerifyError(Append(rs, [prev |-> WantPrev(rs), body |-> b]), known) = "ErrSignature"
      BY <2>1, <3>2, ForgeSays
    <3>4. QED
      BY <3>1, <3>3, NamedEdit DEF Named
  <2>11. QED
    BY <1>1, <1>2, <2>2, <2>3, <2>4, <2>5, <2>6, <2>7, <2>8, <2>9, <2>10 DEF EditsNext
<1>4. CASE edit # "none" /\ EditsNext
  BY <1>4 DEF EditsNext, Grow, Truncate, RemoveOne, Duplicate, Swap, Fork, Alter, Replay, Backdate, Forge, Edit
<1>5. QED
  BY <1>1, <1>3, <1>4

-----------------------------------------------------------------------------
(* The AUR: every answered chunk has all that the AUR held of its names at  *)
(* one time, and every page was a log of the AUR's; so what the check says  *)
(* of a package was so while it asked.                                      *)

LEMMA Quotient ==
    ASSUME NEW n \in Nat, NEW c \in Nat \ {0}, NEW a \in Nat, a < n
    PROVE  (a \div c) + 1 \in 1..((n + c - 1) \div c)
<1>1. PICK q \in Int : q = a \div c
  BY SMT
<1>2. PICK m \in Int : m = (n + c - 1) \div c
  BY SMT
<1>3. c * q <= a /\ a < c * q + c /\ q \in Int
  BY <1>1, SMT
<1>4. c * m <= n + c - 1 /\ n + c - 1 < c * m + c
  BY <1>2, SMT
<1>5. q >= 0
  BY <1>3, SMT
<1>6. ASSUME m <= q PROVE FALSE
  <2>1. c * m <= c * q
    BY <1>1, <1>2, <1>6, SMT
  <2>2. PICK x \in Int : x = c * m
    BY <1>2, SMT
  <2>3. PICK y \in Int : y = c * q
    BY <1>1, SMT
  <2>4. QED
    BY <1>3, <1>4, <2>1, <2>2, <2>3, SMT
<1>7. QED
  BY <1>1, <1>2, <1>5, <1>6, SMT

(* An honest answer has every record of the asked names.                    *)
LEMMA Onto ==
    ASSUME NEW S, IsFiniteSet(S), NEW f \in SetToSeqs(S)
    PROVE  f \in Seq(S) /\ \A r \in S : \E i \in DOMAIN f : f[i] = r
<1> DEFINE n == Cardinality(S)
<1>1. n \in Nat /\ ExistsBijection(1..n, S)
  BY FS_CardinalityType
<1>2. f \in [1..n -> S] /\ \A i, j \in 1..n : i # j => f[i] # f[j]
  BY DEF SetToSeqs
<1> HIDE DEF n
<1>3. f \in Injection(1..n, S)
  BY <1>2 DEF Injection, IsInjective
<1>4. IsFiniteSet(1..n) /\ Cardinality(1..n) = n
  BY <1>1, FS_Interval
<1>5. f \in Surjection(1..n, S)
  BY <1>3, <1>4, FS_Injection DEF n
<1>6. QED
  BY <1>1, <1>2, <1>5 DEF Surjection

(* What the AUR may hold or answer.                                         *)
AurRecords == (UNION {a.index : a \in AurStates}) \cup UNION {i.inquiry.strays : i \in Inquiries}
Responses == [kind : {"answer"} \cup Refusals, results : Seq(AurRecords)]

LEMMA PlacesAre ==
    ASSUME NEW rs \in Seq(Responses), NEW x
    PROVE  x \in Places(rs) <=> \E k \in DOMAIN rs : \E i \in DOMAIN rs[k].results : x = <<k, i>>
  BY DEF Places

LEMMA PlaceTyped ==
    ASSUME NEW rs \in Seq(Responses), NEW x \in Places(rs)
    PROVE  x[1] \in Nat /\ x[2] \in Nat /\ x = <<x[1], x[2]>>
<1>1. PICK k \in DOMAIN rs : \E i \in DOMAIN rs[k].results : x = <<k, i>>
  BY PlacesAre
<1>2. PICK i \in DOMAIN rs[k].results : x = <<k, i>>
  BY <1>1
<1>3. rs[k].results \in Seq(AurRecords) /\ k \in Nat
  <2>1. rs[k] \in Responses /\ k \in Nat
    OBVIOUS
  <2>2. QED
    BY <2>1 DEF Responses
<1>4. i \in Nat
  BY <1>3
<1>5. QED
  BY <1>2, <1>3, <1>4

(* Of some results one came first.                                          *)
LEMMA FirstPlace ==
    ASSUME NEW rs \in Seq(Responses), NEW S \in SUBSET Places(rs), S # {}
    PROVE  \E x \in S : \A y \in S : ~Before(y, x)
<1> DEFINE K == {x[1] : x \in S}
<1>1. K \subseteq Nat /\ K # {}
  BY PlaceTyped
<1> HIDE DEF K
<1>2. PICK k \in K : \A l \in K : k <= l
  BY <1>1, Least
<1> DEFINE I == {x[2] : x \in {y \in S : y[1] = k}}
<1>3. I \subseteq Nat /\ I # {}
  BY PlaceTyped DEF K
<1> HIDE DEF I
<1>4. PICK i \in I : \A j \in I : i <= j
  BY <1>3, Least
<1>5. PICK x \in S : x[1] = k /\ x[2] = i
  BY DEF I
<1>6. ASSUME NEW y \in S, Before(y, x) PROVE FALSE
  <2>1. y[1] \in Nat /\ y[2] \in Nat /\ y[1] \in K /\ (y[1] = k => y[2] \in I)
    BY PlaceTyped DEF K, I
  <2>2. k \in Nat /\ i \in Nat
    BY <1>1, <1>2, <1>3, <1>4
  <2>3. k <= y[1] /\ (y[1] = k => i <= y[2])
    BY <1>2, <1>4, <2>1
  <2>4. y[1] < k \/ (y[1] = k /\ y[2] < i)
    BY <1>5, <1>6 DEF Before
  <2>5. QED
    BY <2>1, <2>2, <2>3, <2>4
<1>7. QED
  BY <1>6

(* Info has a record of a package's own name exactly where a result has the *)
(* name, and then it is that result.                                        *)
LEMMA OwnRecord ==
    ASSUME NEW rs \in Seq(Responses), NEW p
    PROVE  /\ HasRecord(Info(rs), p) <=> \E x \in Places(rs) : At(rs, x).name = p.name
           /\ HasRecord(Info(rs), p) =>
                 \E x \in Places(rs) : At(rs, x).name = p.name /\ Info(rs)[p.name] = At(rs, x)
<1> DEFINE keys == UNION {{At(rs, x).name, At(rs, x).base} : x \in Places(rs)}
           named(key) == {x \in Places(rs) : At(rs, x).name = key}
           built(key) == {x \in Places(rs) : At(rs, x).base = key}
           first(key) == CHOOSE x \in built(key) : \A y \in built(key) : ~Before(y, x)
           info == Info(rs)
<1>1. /\ DOMAIN info = keys
      /\ \A key \in keys : info[key] = At(rs, IF named(key) # {} THEN CHOOSE x \in named(key) : TRUE ELSE first(key))
  BY DEF Info
<1>2. ASSUME NEW key \in keys PROVE named(key) = {} => first(key) \in Places(rs)
  <2>1. named(key) = {} => built(key) \in SUBSET Places(rs) /\ built(key) # {}
    OBVIOUS
  <2>2. named(key) = {} => \E x \in built(key) : \A y \in built(key) : ~Before(y, x)
    <3> HIDE DEF built, named
    <3>1. QED
      BY <2>1, FirstPlace
  <2>3. named(key) = {} => first(key) \in built(key)
    <3> HIDE DEF built, named
    <3>1. QED
      BY <2>2
  <2>4. QED
    BY <2>3
<1> HIDE DEF info, first
<1>3. ASSUME p.name \in DOMAIN info, info[p.name].name = p.name
      PROVE  \E x \in Places(rs) : At(rs, x).name = p.name /\ info[p.name] = At(rs, x)
  <2>1. p.name \in keys
    BY <1>1, <1>3
  <2> HIDE DEF keys
  <2>2. CASE named(p.name) # {}
    <3>1. PICK x \in Places(rs) : info[p.name] = At(rs, x)
      BY <1>1, <2>1, <2>2
    <3>2. QED
      BY <1>3, <3>1
  <2>3. CASE named(p.name) = {}
    <3>1. info[p.name] = At(rs, first(p.name)) /\ first(p.name) \in Places(rs)
      BY <1>1, <1>2, <2>1, <2>3
    <3>2. QED
      BY <1>3, <3>1
  <2>4. QED
    BY <2>2, <2>3
<1>4. ASSUME NEW x \in Places(rs), At(rs, x).name = p.name
      PROVE  p.name \in DOMAIN info /\ info[p.name].name = p.name
  <2>1. p.name \in keys /\ named(p.name) # {}
    BY <1>4
  <2> HIDE DEF keys
  <2>2. PICK y \in named(p.name) : info[p.name] = At(rs, y)
    BY <1>1, <2>1
  <2>3. QED
    BY <1>1, <2>1, <2>2
<1>5. QED
  BY <1>3, <1>4 DEF HasRecord, info

UpstreamTyped ==
    /\ IsInquiry(inquiry) /\ inquiry.strays \subseteq AurRecords
    /\ aur \in seen /\ seen \subseteq AurStates /\ ahead \in Seq(AurStates)
    /\ asked \in [responses : Seq(Responses), pages : {asked.pages}]
    /\ asked.responses = <<>> => DOMAIN asked.pages = {}

(* Each chunk that was answered is a chunk, and the answer has all that the *)
(* AUR held of its names at one time.                                       *)
Complete(k) ==
    \E a \in seen : \A r \in a.index : r.name \in NameChunks[k] =>
        \E i \in DOMAIN asked.responses[k].results : asked.responses[k].results[i] = r

CompleteInv ==
    \A k \in DOMAIN asked.responses :
        k \in DOMAIN NameChunks /\ (UsableAnswer(asked.responses[k]) => Complete(k))

(* A record of an asked name is one the AUR held, or the answers fail.      *)
Told(x) == At(asked.responses, x).name \in UNION Range(NameChunks) =>
               \E a \in seen : At(asked.responses, x) \in a.index

ToldInv == InfoFails(asked.responses) \/ \A x \in Places(asked.responses) : Told(x)

(* A page is a log of the AUR's, or it failed.                              *)
PagesInv ==
    \A b \in DOMAIN asked.pages :
        asked.pages[b] = Log("failed", <<>>) \/ \E a \in seen : asked.pages[b] = a.logs[b]

UpstreamInv == UpstreamTyped /\ CompleteInv /\ ToldInv /\ PagesInv /\ ProvenanceIsTrue

(* ProvenanceIsTrue of one package and its results.                         *)
TrueOf(p, results) ==
    LET records == UNION {{r \in a.index : r.name = p.name} : a \in seen}
        without(base) == \E a \in seen : \A r \in a.index : r.name = p.name => r.base # base
        logs == {a.logs[p.base] : a \in seen} IN
    /\ (\E r \in results : r.rule = "aur-absent") => \E a \in seen : \A r \in a.index : r.name # p.name
    /\ (\E r \in results : r.severity = "critical") => without(p.base) /\ \E l \in logs : ForMalware(l)
    /\ results = {} =>
           \E r \in records :
               /\ r.maintainer = r.submitter /\ r.maintainer # Unset
               /\ \/ r.base = p.base
                  \/ \E l \in logs : l.kind \in {"log", "no-branch"}
                                    /\ ~(ForMalware(l) /\ \E s \in Range(l.rows) : HistoryRemoval(s))

LEMMA PerPackage ==
    ProvenanceIsTrue <=>
        (~Open => \A p \in ForeignPackages : TrueOf(p, {r \in said : r.subject = p.name}))
  BY DEF ProvenanceIsTrue, TrueOf

-----------------------------------------------------------------------------
(* Every foreign package is asked about in a chunk.                         *)
LEMMA EveryNameIsAsked ==
    ASSUME IsInquiry(inquiry), NEW p \in ForeignPackages
    PROVE  \E k \in DOMAIN NameChunks : p.name \in NameChunks[k]
<1>1. PICK i \in ForeignAt : p = inquiry.packages[i]
  BY DEF ForeignPackages
<1>2. ForeignAt \subseteq 1..Len(inquiry.packages) /\ Len(inquiry.packages) \in Nat
  BY DEF ForeignAt, IsInquiry
<1>3. IsFiniteSet(ForeignAt)
  <2>1. IsFiniteSet(1..Len(inquiry.packages))
    BY <1>2, FS_Interval
  <2>2. QED
    BY <1>2, <2>1, FS_Subset
<1> DEFINE n == Cardinality(ForeignAt)
           before == {j \in ForeignAt : j < i}
<1>4. n \in Nat
  BY <1>3, FS_CardinalityType
<1>5. Place(i) \in Nat /\ Place(i) < n
  <2>1. before \subseteq ForeignAt \ {i}
    BY <1>2
  <2>2. IsFiniteSet(ForeignAt \ {i}) /\ Cardinality(ForeignAt \ {i}) = n - 1
    BY <1>3, FS_RemoveElement
  <2>3. IsFiniteSet(before) /\ Cardinality(before) <= n - 1
    BY <2>1, <2>2, FS_Subset
  <2>4. Cardinality(before) \in Nat
    BY <2>3, FS_CardinalityType
  <2>5. Place(i) = Cardinality(before)
    BY DEF Place
  <2> HIDE DEF before, n
  <2>6. QED
    BY <1>4, <2>3, <2>4, <2>5
<1> DEFINE k == (Place(i) \div ChunkSize) + 1
<1>6. k \in 1..((n + ChunkSize - 1) \div ChunkSize)
  BY <1>4, <1>5, Quotient, InquiriesAssumption
<1>7. k - 1 = Place(i) \div ChunkSize
  <2>1. Place(i) \div ChunkSize \in Int
    BY <1>5, InquiriesAssumption
  <2>2. QED
    BY <2>1
<1>8. k \in DOMAIN NameChunks
  BY <1>6 DEF NameChunks
<1> HIDE DEF k
<1>9. NameChunks[k] = {inquiry.packages[m].name : m \in {j \in ForeignAt : Place(j) \div ChunkSize = k - 1}}
  BY <1>6 DEF NameChunks
<1>10. QED
  BY <1>1, <1>7, <1>8, <1>9

LEMMA OneOfAName ==
    ASSUME IsInquiry(inquiry), NEW p \in ForeignPackages, NEW q \in ForeignPackages, p.name = q.name
    PROVE  p = q
  BY DEF IsInquiry, ForeignPackages, ForeignAt

-----------------------------------------------------------------------------
(* What a page says, and what an own record says.                           *)
LEMMA TombstoneSays ==
    ASSUME NEW page
    PROVE  LET t == Tombstone(page) IN
           /\ t.malware => ForMalware(page)
           /\ ~t.failed => page.kind \in {"log", "no-branch"}
           /\ ~t.failed /\ ~t.malware => ~(ForMalware(page) /\ \E s \in Range(page.rows) : HistoryRemoval(s))
<1> DEFINE t == Tombstone(page)
<1>1. CASE page.kind = "no-branch"
  <2>1. t = Clean
    BY <1>1 DEF Tombstone
  <2>2. QED
    BY <1>1, <2>1 DEF Clean, ForMalware, Removed
<1>2. CASE page.kind # "no-branch" /\ ParseFails(page)
  <2>1. t = Failed
    BY <1>2 DEF Tombstone
  <2>2. t.failed /\ ~t.malware
    BY <2>1 DEF Failed, Clean
  <2>3. QED
    BY <2>2
<1>3. CASE page.kind # "no-branch" /\ ~ParseFails(page)
  <2>1. page.kind = "log"
    BY <1>3 DEF ParseFails
  <2>2. CASE (\A s \in Range(page.rows) : AnchoredRemoval(s)) /\ (\E s \in Range(page.rows) : HistoryRemoval(s))
    <3>1. t = [Clean EXCEPT !.found = TRUE, !.malware = \E s \in Range(page.rows) : IsMalwareRemoval(s)]
      BY <1>3, <2>2 DEF Tombstone
    <3>2. t.malware <=> \E s \in Range(page.rows) : IsMalwareRemoval(s)
      BY <3>1 DEF Clean
    <3>3. QED
      BY <2>1, <2>2, <3>2 DEF ForMalware, Removed
  <2>3. CASE ~((\A s \in Range(page.rows) : AnchoredRemoval(s)) /\ (\E s \in Range(page.rows) : HistoryRemoval(s)))
    <3>1. t \in {Clean, Failed}
      BY <1>3, <2>3 DEF Tombstone
    <3>2. ~t.malware
      BY <3>1 DEF Clean, Failed
    <3>3. QED
      BY <2>1, <2>3, <3>2 DEF ForMalware, Removed
  <2>4. QED
    BY <2>2, <2>3
<1>4. QED
  BY <1>1, <1>2, <1>3

(* Nothing is said of an identity only where there is one and it is the     *)
(* submitter's.                                                             *)
LEMMA IdentitySays ==
    ASSUME NEW p, NEW meta, Identity(p, meta) = {}
    PROVE  meta.maintainer = meta.submitter /\ meta.maintainer # Unset
<1>1. meta.maintainer # Unset
  <2>1. meta.maintainer = Unset => Result("aur-orphaned", p.name, "suspicious") \in Identity(p, meta)
    BY DEF Identity, Result
  <2>2. QED
    BY <2>1
<1>2. meta.submitter # Unset
  <2>1. meta.submitter = Unset => Result("aur-submitter-mismatch", p.name, "gap") \in Identity(p, meta)
    BY DEF Identity, Result
  <2>2. QED
    BY <2>1
<1>3. meta.maintainer = meta.submitter
  <2>1. Unset \notin {meta.submitter, meta.maintainer} /\ meta.maintainer # meta.submitter =>
            Result("aur-submitter-mismatch", p.name, "info") \in Identity(p, meta)
    BY DEF Identity, Result
  <2>2. QED
    BY <1>1, <1>2, <2>1
<1>4. QED
  BY <1>1, <1>3

(* What the check says of one package.                                      *)
PageOf(p) == IF NeedsLog(Info(asked.responses), p) THEN Tombstone(asked.pages[p.base]) ELSE Clean

SaysOf(p) ==
    LET info == Info(asked.responses) IN
    IF HasRecord(info, p) THEN DeclaredBase(p, info[p.name], PageOf(p)) \cup Identity(p, info[p.name])
    ELSE Absent(p, PageOf(p))

Checked == inquiry.network /\ Answered /\ Missing = {}

LEMMA SaysUnion == Provenance(Info(asked.responses), asked.pages) = UNION {SaysOf(p) : p \in ForeignPackages}
  BY DEF Provenance, SaysOf, PageOf

LEMMA AbsentSays ==
    ASSUME NEW p, NEW t
    PROVE  LET s == Absent(p, t) IN
           /\ \A r \in s : r.subject = p.name
           /\ s # {}
           /\ (\E r \in s : r.severity = "critical") => t.malware
<1> DEFINE s == Absent(p, t)
<1>1. CASE t.failed
  <2>1. Absent(p, t) = {Result("aur-absent", p.name, "suspicious"), Result("aur-tombstone", p.name, "gap")}
    BY <1>1 DEF Absent
  <2> HIDE DEF s
  <2>2. QED
    BY <1>1, <2>1 DEF Result, s
<1>2. CASE ~t.failed /\ t.malware
  <2>1. Absent(p, t) = {Result("aur-tombstone", p.name, "critical")}
    BY <1>2 DEF Absent
  <2> HIDE DEF s
  <2>2. QED
    BY <1>2, <2>1 DEF Result, s
<1>3. CASE ~t.failed /\ ~t.malware
  <2>1. Absent(p, t) = {Result("aur-absent", p.name, "suspicious")}
    BY <1>3 DEF Absent
  <2> HIDE DEF s
  <2>2. QED
    BY <1>3, <2>1 DEF Result, s
<1>4. QED
  BY <1>1, <1>2, <1>3

LEMMA DeclaredBaseSays ==
    ASSUME NEW p, NEW meta, NEW t
    PROVE  LET s == DeclaredBase(p, meta, t) IN
           /\ \A r \in s : r.subject = p.name /\ r.rule # "aur-absent"
           /\ (\E r \in s : r.severity = "critical") => t.malware /\ meta.base # p.base
           /\ s = {} => Unset \notin {meta.base, p.base} /\ (meta.base # p.base => ~t.failed /\ ~t.malware)
<1> DEFINE s == DeclaredBase(p, meta, t)
<1>1. CASE Unset \in {meta.base, p.base}
  <2>1. DeclaredBase(p, meta, t) = {Result("aur-tombstone", p.name, "gap")}
    BY <1>1 DEF DeclaredBase
  <2> HIDE DEF s
  <2>2. \A r \in s : r.subject = p.name /\ r.rule = "aur-tombstone" /\ r.severity = "gap"
    BY <2>1 DEF Result, s
  <2>3. s # {}
    BY <2>1 DEF s
  <2>4. QED
    BY <1>1, <2>2, <2>3 DEF s
<1>2. CASE Unset \notin {meta.base, p.base} /\ meta.base = p.base
  <2>1. DeclaredBase(p, meta, t) = {}
    BY <1>2 DEF DeclaredBase
  <2> HIDE DEF s
  <2>2. QED
    BY <1>2, <2>1 DEF Result, s
<1>3. CASE Unset \notin {meta.base, p.base} /\ meta.base # p.base /\ t.failed
  <2>1. DeclaredBase(p, meta, t) = {Result("aur-tombstone", p.name, "gap")}
    BY <1>3 DEF DeclaredBase
  <2> HIDE DEF s
  <2>2. \A r \in s : r.subject = p.name /\ r.rule = "aur-tombstone" /\ r.severity = "gap"
    BY <2>1 DEF Result, s
  <2>3. s # {}
    BY <2>1 DEF s
  <2>4. QED
    BY <1>3, <2>2, <2>3 DEF s
<1>4. CASE Unset \notin {meta.base, p.base} /\ meta.base # p.base /\ ~t.failed /\ t.malware
  <2>1. DeclaredBase(p, meta, t) = {Result("aur-tombstone", p.name, "critical")}
    BY <1>4 DEF DeclaredBase
  <2> HIDE DEF s
  <2>2. \A r \in s : r.subject = p.name /\ r.rule = "aur-tombstone" /\ r.severity = "critical"
    BY <2>1 DEF Result, s
  <2>3. s # {}
    BY <2>1 DEF s
  <2>4. QED
    BY <1>4, <2>2, <2>3 DEF s
<1>5. CASE Unset \notin {meta.base, p.base} /\ meta.base # p.base /\ ~t.failed /\ ~t.malware
  <2>1. DeclaredBase(p, meta, t) = {}
    BY <1>5 DEF DeclaredBase
  <2> HIDE DEF s
  <2>2. QED
    BY <1>5, <2>1 DEF Result, s
<1>6. QED
  BY <1>1, <1>2, <1>3, <1>4, <1>5

LEMMA IdentityRules ==
    ASSUME NEW p, NEW meta
    PROVE  \A r \in Identity(p, meta) :
              r.subject = p.name /\ r.rule # "aur-absent" /\ r.severity # "critical"
  BY DEF Identity, Result

LEMMA SaysSubject ==
    ASSUME NEW p
    PROVE  \A r \in SaysOf(p) : r.subject = p.name
<1> DEFINE meta == Info(asked.responses)[p.name]
           t == PageOf(p)
<1>1. SaysOf(p) = IF HasRecord(Info(asked.responses), p) THEN DeclaredBase(p, meta, t) \cup Identity(p, meta)
                  ELSE Absent(p, t)
  BY DEF SaysOf
<1> HIDE DEF meta, t
<1>2. QED
  BY <1>1, AbsentSays, DeclaredBaseSays, IdentityRules

(* The page a package's results rest on is one the AUR had, or failed.      *)
LEMMA PageSays ==
    ASSUME UpstreamInv, Checked, NEW p \in ForeignPackages, NeedsLog(Info(asked.responses), p)
    PROVE  LET t == PageOf(p) IN
           /\ t.malware => \E a \in seen : ForMalware(a.logs[p.base])
           /\ ~t.failed => \E a \in seen :
                 /\ a.logs[p.base].kind \in {"log", "no-branch"}
                 /\ ~t.malware => ~(ForMalware(a.logs[p.base]) /\ \E s \in Range(a.logs[p.base].rows) : HistoryRemoval(s))
<1> DEFINE page == asked.pages[p.base]
<1>1. PageOf(p) = Tombstone(page)
  BY DEF PageOf
<1>2. p.base \in DOMAIN asked.pages
  BY DEF Checked, Missing
<1>3. page = Log("failed", <<>>) \/ \E a \in seen : page = a.logs[p.base]
  BY <1>2 DEF UpstreamInv, PagesInv
<1> HIDE DEF page
<1>4. CASE page = Log("failed", <<>>)
  <2>1. page.kind # "no-branch" /\ ParseFails(page)
    BY <1>4 DEF Log, ParseFails
  <2>2. Tombstone(page) = Failed
    BY <2>1 DEF Tombstone
  <2>3. QED
    BY <1>1, <2>2 DEF Failed, Clean
<1>5. CASE \E a \in seen : page = a.logs[p.base]
  BY <1>1, <1>5, TombstoneSays
<1>6. QED
  BY <1>3, <1>4, <1>5

LEMMA ForeignFinite == IsInquiry(inquiry) => Cardinality(ForeignAt) \in Nat
<1>1. SUFFICES ASSUME IsInquiry(inquiry) PROVE Cardinality(ForeignAt) \in Nat
  OBVIOUS
<1>2. ForeignAt \subseteq 1..Len(inquiry.packages) /\ Len(inquiry.packages) \in Nat
  BY <1>1 DEF ForeignAt, IsInquiry
<1>3. IsFiniteSet(1..Len(inquiry.packages))
  BY <1>2, FS_Interval
<1>4. IsFiniteSet(ForeignAt)
  BY <1>2, <1>3, FS_Subset
<1>5. QED
  BY <1>4, FS_CardinalityType

(* The state of the AUR at which a package was answered: what it had of the *)
(* name is what the check took for its record, and it had it at a time.     *)
LEMMA RecordSays ==
    ASSUME UpstreamInv, Checked, NEW p \in ForeignPackages
    PROVE  LET info == Info(asked.responses) IN
           /\ ~HasRecord(info, p) => \E a \in seen : \A r \in a.index : r.name # p.name
           /\ HasRecord(info, p) =>
                 /\ \E a \in seen : \A r \in a.index : r.name = p.name => r = info[p.name]
                 /\ \E a \in seen : info[p.name] \in a.index
                 /\ info[p.name].name = p.name
<1> DEFINE rs == asked.responses
           info == Info(rs)
<1>1. rs \in Seq(Responses)
  BY DEF UpstreamInv, UpstreamTyped
<1>2. ~InfoFails(rs) /\ Len(rs) = Len(NameChunks)
  BY DEF Checked, Answered
<1>3. PICK k \in DOMAIN NameChunks : p.name \in NameChunks[k]
  BY EveryNameIsAsked DEF UpstreamInv, UpstreamTyped
<1>4. k \in DOMAIN rs
  <2> DEFINE n == (Cardinality(ForeignAt) + ChunkSize - 1) \div ChunkSize
  <2>1. DOMAIN NameChunks = 1..n
    BY DEF NameChunks
  <2>2. DOMAIN NameChunks = DOMAIN rs
    <3>1. DOMAIN rs = 1..Len(rs)
      BY <1>1
    <3>2. \A j \in DOMAIN rs : j \in DOMAIN NameChunks
      BY DEF UpstreamInv, CompleteInv
    <3>3. n \in Int
      BY ForeignFinite, InquiriesAssumption DEF UpstreamInv, UpstreamTyped
    <3>4. Len(NameChunks) = n
      <4>1. k \in 1..n
        BY <1>3, <2>1
      <4>2. n \in Nat
        BY <3>3, <4>1
      <4> HIDE DEF n
      <4>3. QED
        BY <2>1, <4>2
    <3>5. QED
      BY <1>2, <2>1, <3>1, <3>4
  <2>3. QED
    BY <1>3, <2>2
<1>5. UsableAnswer(rs[k])
  BY <1>2, <1>4 DEF InfoFails
<1>6. PICK a \in seen : \A r \in a.index : r.name \in NameChunks[k] =>
          \E i \in DOMAIN rs[k].results : rs[k].results[i] = r
  BY <1>4, <1>5 DEF UpstreamInv, CompleteInv, Complete
<1>7. ASSUME NEW r \in a.index, r.name = p.name
      PROVE  \E x \in Places(rs) : At(rs, x) = r
  <2>1. PICK i \in DOMAIN rs[k].results : rs[k].results[i] = r
    BY <1>3, <1>6, <1>7
  <2>2. <<k, i>> \in Places(rs) /\ At(rs, <<k, i>>) = r
    BY <1>4, <2>1 DEF Places, At
  <2>3. QED
    BY <2>2
<1>8. \A x, y \in Places(rs) : At(rs, x).name = At(rs, y).name => x = y
  BY <1>2 DEF InfoFails
<1>9. CASE ~HasRecord(info, p)
  <2> HIDE DEF rs
  <2>1. \A r \in a.index : r.name # p.name
    BY <1>1, <1>7, <1>9, OwnRecord
  <2>2. QED
    BY <1>9, <2>1 DEF rs
<1>10. CASE HasRecord(info, p)
  <2> HIDE DEF rs
  <2>1. PICK x \in Places(rs) : At(rs, x).name = p.name /\ info[p.name] = At(rs, x)
    BY <1>1, <1>10, OwnRecord
  <2>2. \A r \in a.index : r.name = p.name => r = info[p.name]
    BY <1>7, <1>8, <2>1
  <2>3. p.name \in UNION Range(NameChunks)
    BY <1>3 DEF Range
  <2>4. \E b \in seen : info[p.name] \in b.index
    BY <1>2, <2>1, <2>3 DEF UpstreamInv, ToldInv, Told, rs
  <2>5. QED
    BY <1>10, <2>1, <2>2, <2>4 DEF rs
<1>11. QED
  BY <1>9, <1>10

LEMMA CheckedIsTrue ==
    ASSUME UpstreamInv, Checked, NEW p \in ForeignPackages, NEW results,
           SaysOf(p) \subseteq results, results \subseteq SaysOf(p) \cup SyncCoverageGaps
    PROVE  TrueOf(p, results)
<1> DEFINE info == Info(asked.responses)
           meta == info[p.name]
           t == PageOf(p)
<1>1. SaysOf(p) = IF HasRecord(info, p) THEN DeclaredBase(p, meta, t) \cup Identity(p, meta) ELSE Absent(p, t)
  BY DEF SaysOf
<1>2. \A r \in SyncCoverageGaps : r.rule # "aur-absent" /\ r.severity # "critical"
  BY DEF SyncCoverageGaps, Result
<1>3. ~t.failed \/ t.malware => NeedsLog(info, p) \/ t = Clean
  BY DEF PageOf
<1>4. CASE ~HasRecord(info, p)
  <2>1. SaysOf(p) = Absent(p, t) /\ NeedsLog(info, p)
    BY <1>1, <1>4 DEF NeedsLog
  <2>2. PICK a \in seen : \A r \in a.index : r.name # p.name
    BY <1>4, RecordSays
  <2>3. (\E r \in results : r.severity = "critical") => \E b \in seen : ForMalware(b.logs[p.base])
    <3>1. (\E r \in results : r.severity = "critical") => t.malware
      <4> HIDE DEF t
      <4>1. QED
        BY <1>2, <2>1, AbsentSays
    <3>2. QED
      BY <2>1, <3>1, PageSays
  <2>4. results # {}
    <3> HIDE DEF t
    <3>1. QED
      BY <2>1, AbsentSays
  <2>5. QED
    BY <2>2, <2>3, <2>4 DEF TrueOf
<1>5. CASE HasRecord(info, p)
  <2>1. SaysOf(p) = DeclaredBase(p, meta, t) \cup Identity(p, meta)
    BY <1>1, <1>5
  <2>2. PICK a \in seen : \A r \in a.index : r.name = p.name => r = meta
    BY <1>5, RecordSays
  <2>3. PICK b \in seen : meta \in b.index
    BY <1>5, RecordSays
  <2>4. meta.name = p.name
    BY <1>5 DEF HasRecord
  <2>5. NeedsLog(info, p) <=> Unset \notin {meta.base, p.base} /\ meta.base # p.base
    BY <1>5 DEF NeedsLog
  <2>6. ~(\E r \in results : r.rule = "aur-absent")
    <3> HIDE DEF t, meta
    <3>1. QED
      BY <1>2, <2>1, DeclaredBaseSays, IdentityRules
  <2>7. ASSUME \E r \in results : r.severity = "critical"
        PROVE  /\ \E c \in seen : \A r \in c.index : r.name = p.name => r.base # p.base
               /\ \E c \in seen : ForMalware(c.logs[p.base])
    <3>1. t.malware /\ meta.base # p.base
      <4> HIDE DEF t, meta
      <4>1. QED
        BY <1>2, <2>1, <2>7, DeclaredBaseSays, IdentityRules
    <3>2. NeedsLog(info, p)
      BY <3>1 DEF PageOf, Clean
    <3>3. QED
      BY <2>2, <3>1, <3>2, PageSays
  <2>8. ASSUME results = {}
        PROVE  /\ meta.maintainer = meta.submitter /\ meta.maintainer # Unset
               /\ \/ meta.base = p.base
                  \/ \E c \in seen :
                        /\ c.logs[p.base].kind \in {"log", "no-branch"}
                        /\ ~(ForMalware(c.logs[p.base]) /\ \E s \in Range(c.logs[p.base].rows) : HistoryRemoval(s))
    <3>1. DeclaredBase(p, meta, t) = {} /\ Identity(p, meta) = {}
      BY <2>1, <2>8
    <3>2. Unset \notin {meta.base, p.base} /\ (meta.base # p.base => ~t.failed /\ ~t.malware)
      <4> HIDE DEF t, meta
      <4>1. QED
        BY <3>1, DeclaredBaseSays
    <3>3. meta.maintainer = meta.submitter /\ meta.maintainer # Unset
      <4> HIDE DEF t, meta
      <4>1. QED
        BY <3>1, IdentitySays
    <3>4. CASE meta.base # p.base
      BY <2>5, <3>2, <3>3, <3>4, PageSays
    <3>5. QED
      BY <3>3, <3>4
  <2> HIDE DEF meta
  <2>9. results = {} => meta \in UNION {{r \in c.index : r.name = p.name} : c \in seen}
    BY <2>3, <2>4
  <2>10. QED
    BY <2>6, <2>7, <2>8, <2>9 DEF TrueOf
<1>6. QED
  BY <1>4, <1>5

LEMMA ChunkCount ==
    ASSUME IsInquiry(inquiry)
    PROVE  Len(NameChunks) \in Nat /\ DOMAIN NameChunks = 1..Len(NameChunks)
<1> DEFINE c == Cardinality(ForeignAt)
           n == (c + ChunkSize - 1) \div ChunkSize
<1>1. c \in Nat /\ ChunkSize \in Nat \ {0}
  BY ForeignFinite, InquiriesAssumption
<1> HIDE DEF c
<1>2. n \in Nat
  <2>1. c + ChunkSize - 1 \in Nat
    BY <1>1
  <2>2. QED
    BY <1>1, <2>1
<1>3. DOMAIN NameChunks = 1..n
  BY DEF NameChunks, c
<1> HIDE DEF n
<1>4. QED
  BY <1>2, <1>3

(* Asking spends faults, and nothing else of an inquiry.                    *)
LEMMA InquiryStays ==
    ASSUME IsInquiry(inquiry), inquiry' = inquiry \/ inquiry' = [inquiry EXCEPT !.faults = @ - 1]
    PROVE  /\ IsInquiry(inquiry)' /\ inquiry'.strays = inquiry.strays
           /\ NameChunks' = NameChunks /\ ForeignPackages' = ForeignPackages
<1>1. /\ DOMAIN inquiry' = DOMAIN inquiry
      /\ inquiry'.packages = inquiry.packages
      /\ inquiry'.strays = inquiry.strays
      /\ inquiry'.repositories = inquiry.repositories
  BY DEF IsInquiry
<1>2. IsInquiry(inquiry)'
  BY <1>1 DEF IsInquiry
<1>3. ForeignAt' = ForeignAt
  BY <1>1 DEF ForeignAt, IsForeign
<1>4. ForeignPackages' = ForeignPackages
  BY <1>1, <1>3 DEF ForeignPackages
<1>5. NameChunks' = NameChunks
  BY <1>1, <1>3 DEF NameChunks, Place
<1>6. QED
  BY <1>1, <1>2, <1>4, <1>5

LEMMA UpstreamBegins == UpstreamInit => UpstreamInv
<1>1. SUFFICES ASSUME UpstreamInit PROVE UpstreamInv
  OBVIOUS
<1>2. PICK i \in Inquiries : inquiry = i.inquiry /\ aur = Head(i.aur) /\ ahead = Tail(i.aur)
  BY <1>1 DEF UpstreamInit
<1>3. IsInquiry(inquiry) /\ i.aur \in Seq(AurStates) /\ i.aur # <<>>
  BY <1>2, InquiriesAssumption
<1>4. aur \in AurStates /\ ahead \in Seq(AurStates)
  BY <1>2, <1>3
<1>5. inquiry.strays \subseteq AurRecords
  <2>1. i.inquiry.strays \subseteq AurRecords
    BY DEF AurRecords
  <2>2. QED
    BY <1>2, <2>1
<1>6. asked.responses = <<>> /\ DOMAIN asked.pages = {} /\ seen = {aur}
  BY <1>1 DEF UpstreamInit
<1>7. asked \in [responses : Seq(Responses), pages : {asked.pages}]
  <2>1. <<>> \in Seq(Responses)
    OBVIOUS
  <2>2. QED
    BY <1>1, <2>1 DEF UpstreamInit
<1>8. UpstreamTyped
  BY <1>3, <1>4, <1>5, <1>6, <1>7 DEF UpstreamTyped
<1>9. CompleteInv /\ ToldInv /\ PagesInv
  BY <1>6 DEF CompleteInv, ToldInv, PagesInv, Places
<1>10. ProvenanceIsTrue
  BY <1>1 DEF UpstreamInit, ProvenanceIsTrue, Open
<1>11. QED
  BY <1>8, <1>9, <1>10 DEF UpstreamInv

-----------------------------------------------------------------------------
(* What an answer holds: all there is of the chunk, or it is not usable; and*)
(* nothing about an asked name that the AUR does not have, or it is one too *)
(* many.                                                                    *)
LEMMA AnswerSays ==
    ASSUME UpstreamInv, NEW chunk, NEW response \in Answers(chunk)
    PROVE  /\ response \in Responses
           /\ UsableAnswer(response) => \A r \in aur.index : r.name \in chunk =>
                  \E i \in DOMAIN response.results : response.results[i] = r
           /\ UsableAnswer(response) => \A i \in DOMAIN response.results :
                  LET r == response.results[i] IN
                  \/ r \in aur.index
                  \/ r.name \notin UNION Range(NameChunks)
                  \/ \E x \in Places(asked.responses) : At(asked.responses, x).name = r.name
                  \/ \E j \in DOMAIN response.results : j # i /\ response.results[j].name = r.name
<1> DEFINE H == {r \in aur.index : r.name \in chunk}
<1>1. aur \in AurStates /\ IsFiniteSet(aur.index) /\ aur.index \subseteq AurRecords
  BY InquiriesAssumption DEF UpstreamInv, UpstreamTyped, AurRecords
<1>2. IsFiniteSet(H) /\ H \subseteq AurRecords
  BY <1>1, FS_Subset
<1>3. Honest(chunk) = SetToSeqs(H)
  BY DEF Honest
<1>4. \A s \in Honest(chunk) : s \in Seq(H) /\ \A r \in H : \E i \in DOMAIN s : s[i] = r
  <2> HIDE DEF H
  <2>1. QED
    BY <1>2, <1>3, Onto
<1>5. \A s \in Seq(H) : s \in Seq(AurRecords)
  BY <1>2
<1>6. CASE \E k \in Refusals : response = Answer(k, <<>>)
  <2>1. response.kind \in Refusals /\ response.results = <<>> /\ response \in Responses
    <3>1. <<>> \in Seq(AurRecords)
      OBVIOUS
    <3>2. QED
      BY <1>6, <3>1 DEF Answer, Responses
  <2>2. ~UsableAnswer(response)
    BY <2>1 DEF Refusals, UsableAnswer
  <2>3. QED
    BY <2>1, <2>2
<1>7. CASE \E s \in Honest(chunk) : response = Answer("answer", s)
  <2>1. PICK s \in Honest(chunk) : response = Answer("answer", s)
    BY <1>7
  <2>2. response.results = s /\ s \in Seq(H) /\ s \in Seq(AurRecords)
    BY <1>4, <1>5, <2>1 DEF Answer
  <2>3. response \in Responses
    BY <2>1, <2>2 DEF Answer, Responses
  <2>4. \A i \in DOMAIN s : s[i] \in H
    BY <2>2
  <2>5. QED
    BY <1>4, <2>2, <2>3, <2>4
<1>8. CASE \E s \in Honest(chunk), r \in Strays(chunk) : response = Answer("answer", Append(s, r))
  <2>1. PICK s \in Honest(chunk), r \in Strays(chunk) : response = Answer("answer", Append(s, r))
    BY <1>8
  <2>2. s \in Seq(H) /\ s \in Seq(AurRecords) /\ r \in AurRecords
    BY <1>4, <1>5 DEF Strays, UpstreamInv, UpstreamTyped
  <2> DEFINE t == Append(s, r)
  <2>3. /\ t \in Seq(AurRecords) /\ Len(s) \in Nat /\ DOMAIN s = 1..Len(s) /\ DOMAIN t = 1..(Len(s) + 1)
        /\ \A i \in DOMAIN s : t[i] = s[i]
        /\ t[Len(s) + 1] = r
    BY <2>2
  <2> HIDE DEF t
  <2>4. response.results = t /\ response \in Responses
    BY <2>1, <2>3 DEF Answer, Responses, t
  <2>5. ASSUME NEW q \in H PROVE \E i \in DOMAIN t : t[i] = q
    <3>1. PICK i \in DOMAIN s : s[i] = q
      BY <1>4
    <3>2. i \in DOMAIN t /\ t[i] = q
      BY <2>3, <3>1
    <3>3. QED
      BY <3>2
  <2>6. r.name \in UNION Range(NameChunks) =>
            \/ r.base = Unset
            \/ \E x \in Places(asked.responses) : At(asked.responses, x).name = r.name
            \/ \E q \in H : q.name = r.name
    BY DEF Strays
  <2>7. UsableAnswer(response) => r.base # Unset
    BY <2>3, <2>4 DEF UsableAnswer
  <2>8. ASSUME NEW q \in H, q.name = r.name
        PROVE  \E j \in DOMAIN t : j # Len(s) + 1 /\ t[j].name = r.name
    <3>1. PICK j \in DOMAIN s : s[j] = q
      BY <1>4
    <3>2. j \in DOMAIN t /\ j # Len(s) + 1 /\ t[j] = q
      BY <2>3, <3>1
    <3>3. QED
      BY <2>8, <3>2
  <2>9. ASSUME UsableAnswer(response), NEW i \in DOMAIN t
        PROVE  \/ t[i] \in aur.index
               \/ t[i].name \notin UNION Range(NameChunks)
               \/ \E x \in Places(asked.responses) : At(asked.responses, x).name = t[i].name
               \/ \E j \in DOMAIN t : j # i /\ t[j].name = t[i].name
    <3>1. CASE i = Len(s) + 1
      BY <2>3, <2>6, <2>7, <2>8, <2>9, <3>1
    <3>2. CASE i # Len(s) + 1
      <4>1. i \in DOMAIN s
        BY <2>3, <3>2
      <4>2. t[i] \in H
        BY <2>2, <2>3, <4>1
      <4>3. QED
        BY <4>2
    <3>3. QED
      BY <3>1, <3>2
  <2>10. QED
    BY <2>4, <2>5, <2>9
<1>9. QED
  BY <1>6, <1>7, <1>8 DEF Answers

LEMMA InfoAnswers ==
    ASSUME UpstreamInv, AskInfo
    PROVE  UpstreamInv'
<1> DEFINE rs == asked.responses
           n == Len(rs)
           k == n + 1
<1>1. PICK response \in Answers(NameChunks[k]) :
          asked' = [asked EXCEPT !.responses = Append(@, response)] /\ Spent(Wrong(response))
  BY DEF AskInfo
<1>2. UNCHANGED <<aur, ahead, seen, said>> /\ Open
  BY DEF AskInfo
<1>3. IsInquiry(inquiry) /\ rs \in Seq(Responses) /\ aur \in seen
  BY DEF UpstreamInv, UpstreamTyped
<1>4. response \in Responses
  BY AnswerSays
<1>5. /\ asked'.responses = Append(rs, response) /\ asked'.pages = asked.pages
      /\ asked' \in [responses : Seq(Responses), pages : {asked'.pages}]
  <2>1. Append(rs, response) \in Seq(Responses)
    BY <1>3, <1>4
  <2>2. asked \in [responses : Seq(Responses), pages : {asked.pages}]
    BY DEF UpstreamInv, UpstreamTyped
  <2>3. QED
    BY <1>1, <2>1, <2>2
<1>6. inquiry' = inquiry \/ inquiry' = [inquiry EXCEPT !.faults = @ - 1]
  BY <1>1 DEF Spent
<1>7. /\ IsInquiry(inquiry)' /\ inquiry'.strays = inquiry.strays
      /\ NameChunks' = NameChunks /\ ForeignPackages' = ForeignPackages
  BY <1>3, <1>6, InquiryStays
<1> DEFINE rt == asked'.responses
<1>8. /\ n \in Nat /\ DOMAIN rs = 1..n /\ DOMAIN rt = 1..k /\ rt \in Seq(Responses)
      /\ \A j \in DOMAIN rs : rt[j] = rs[j]
      /\ rt[k] = response /\ k \in DOMAIN rt /\ k \notin DOMAIN rs
  BY <1>3, <1>4, <1>5
<1> HIDE DEF rt
<1>9. k \in DOMAIN NameChunks
  <2>1. \A j \in 1..n : j \in DOMAIN NameChunks
    BY <1>8 DEF UpstreamInv, CompleteInv
  <2>2. n # Len(NameChunks)
    BY DEF AskInfo, InfoOver
  <2>3. Len(NameChunks) \in Nat /\ DOMAIN NameChunks = 1..Len(NameChunks)
    BY <1>3, ChunkCount
  <2>4. n \in Nat
    BY <1>8
  <2> HIDE DEF n
  <2>5. n <= Len(NameChunks)
    <3>1. n = 0 \/ n \in 1..n
      BY <2>4
    <3>2. QED
      BY <2>1, <2>3, <2>4, <3>1
  <2>6. PICK m \in Nat : m = Len(NameChunks)
    BY <2>3
  <2>7. n + 1 \in 1..m
    BY <2>2, <2>4, <2>5, <2>6
  <2>8. QED
    BY <2>3, <2>6, <2>7
<1>10. UpstreamTyped'
  <2>1. asked'.responses # <<>>
    BY <1>8 DEF rt
  <2>2. QED
    BY <1>2, <1>5, <1>7, <2>1 DEF UpstreamInv, UpstreamTyped
<1>11. CompleteInv'
  <2>1. ASSUME NEW j \in DOMAIN rt, UsableAnswer(rt[j])
        PROVE  \E a \in seen : \A r \in a.index : r.name \in NameChunks[j] =>
                   \E i \in DOMAIN rt[j].results : rt[j].results[i] = r
    <3>1. CASE j = k
      <4>1. \A r \in aur.index : r.name \in NameChunks[k] =>
                \E i \in DOMAIN response.results : response.results[i] = r
        BY <1>8, <2>1, <3>1, AnswerSays
      <4>2. QED
        BY <1>3, <1>8, <3>1, <4>1
    <3>2. CASE j # k
      <4>1. j \in DOMAIN rs /\ rt[j] = rs[j]
        BY <1>8, <3>2
      <4>2. QED
        BY <2>1, <4>1 DEF UpstreamInv, CompleteInv, Complete
    <3>3. QED
      BY <3>1, <3>2
  <2>2. \A j \in DOMAIN rt : j \in DOMAIN NameChunks
    BY <1>8, <1>9 DEF UpstreamInv, CompleteInv
  <2>3. QED
    BY <1>2, <1>7, <2>1, <2>2 DEF CompleteInv, Complete, rt
<1>12. ToldInv'
  <2>1. \A x \in Places(rs) : x \in Places(rt) /\ At(rt, x) = At(rs, x) /\ x[1] # k
    BY <1>8 DEF Places, At
  <2>2. ASSUME InfoFails(rs) PROVE InfoFails(rt)
    <3>1. CASE \E j \in DOMAIN rs : ~UsableAnswer(rs[j])
      <4>1. PICK j \in DOMAIN rs : ~UsableAnswer(rs[j])
        BY <3>1
      <4>2. j \in DOMAIN rt /\ rt[j] = rs[j]
        BY <1>8
      <4>3. QED
        BY <4>1, <4>2 DEF InfoFails
    <3>2. CASE \E x, y \in Places(rs) : x # y /\ At(rs, x).name = At(rs, y).name
      BY <2>1, <3>2 DEF InfoFails
    <3>3. QED
      BY <2>2, <3>1, <3>2 DEF InfoFails
  <2>3. ASSUME ~InfoFails(rt), NEW x \in Places(rt), At(rt, x).name \in UNION Range(NameChunks)
        PROVE  \E a \in seen : At(rt, x) \in a.index
    <3>1. PICK j \in DOMAIN rt : \E i \in DOMAIN rt[j].results : x = <<j, i>>
      BY <1>8, PlacesAre
    <3>2. PICK i \in DOMAIN rt[j].results : x = <<j, i>>
      BY <3>1
    <3>3. CASE j # k
      <4>1. j \in DOMAIN rs /\ rt[j] = rs[j]
        BY <1>8, <3>3
      <4>2. x \in Places(rs) /\ At(rt, x) = At(rs, x)
        <5>1. x \in Places(rs)
          BY <1>3, <3>2, <4>1, PlacesAre
        <5>2. QED
          BY <2>1, <5>1
      <4>3. ~InfoFails(rs)
        BY <2>2, <2>3
      <4>4. QED
        BY <2>3, <4>2, <4>3 DEF UpstreamInv, ToldInv, Told
    <3>4. CASE j = k
      <4>1. UsableAnswer(response)
        BY <1>8, <2>3 DEF InfoFails
      <4>2. At(rt, x) = response.results[i] /\ i \in DOMAIN response.results
        BY <1>8, <3>2, <3>4 DEF At
      <4> DEFINE r == response.results[i]
      <4>3. \/ r \in aur.index
            \/ r.name \notin UNION Range(NameChunks)
            \/ \E y \in Places(rs) : At(rs, y).name = r.name
            \/ \E l \in DOMAIN response.results : l # i /\ response.results[l].name = r.name
        BY <4>1, <4>2, AnswerSays
      <4> HIDE DEF r
      <4>4. At(rt, x) = r
        BY <4>2 DEF r
      <4>5. ASSUME NEW y \in Places(rs), At(rs, y).name = r.name PROVE FALSE
        <5>1. y \in Places(rt) /\ At(rt, y).name = At(rt, x).name /\ y # x
          BY <2>1, <3>2, <3>4, <4>4, <4>5
        <5>2. QED
          BY <2>3, <5>1 DEF InfoFails
      <4>6. ASSUME NEW l \in DOMAIN response.results, l # i, response.results[l].name = r.name PROVE FALSE
        <5>1. <<k, l>> \in Places(rt) /\ At(rt, <<k, l>>) = response.results[l]
          BY <1>8 DEF Places, At
        <5>2. <<k, l>> # x
          BY <3>2, <4>6
        <5>3. QED
          BY <2>3, <4>4, <4>6, <5>1, <5>2 DEF InfoFails
      <4>7. r \in aur.index
        BY <2>3, <4>3, <4>4, <4>5, <4>6
      <4>8. QED
        BY <1>3, <4>4, <4>7
    <3>5. QED
      BY <3>3, <3>4
  <2>4. QED
    BY <1>2, <1>7, <2>3 DEF ToldInv, Told, rt
<1>13. PagesInv'
  BY <1>2, <1>5 DEF UpstreamInv, PagesInv
<1>14. ProvenanceIsTrue'
  BY <1>2 DEF ProvenanceIsTrue, Open
<1>15. QED
  BY <1>10, <1>11, <1>12, <1>13, <1>14 DEF UpstreamInv

LEMMA LogAnswers ==
    ASSUME UpstreamInv, AskLog
    PROVE  UpstreamInv'
<1>1. PICK base \in Missing, fails \in BOOLEAN :
          /\ asked' = [asked EXCEPT !.pages = WithPage(base, IF fails THEN Log("failed", <<>>) ELSE aur.logs[base])]
          /\ Spent(fails)
  BY DEF AskLog
<1> DEFINE page == IF fails THEN Log("failed", <<>>) ELSE aur.logs[base]
           pages == WithPage(base, page)
<1>2. UNCHANGED <<aur, ahead, seen, said>> /\ Open /\ aur \in seen
  BY DEF AskLog, UpstreamInv, UpstreamTyped
<1>3. /\ DOMAIN pages = {base} \cup DOMAIN asked.pages
      /\ pages[base] = page
      /\ \A b \in DOMAIN asked.pages : b # base => pages[b] = asked.pages[b]
  BY DEF WithPage
<1> HIDE DEF page, pages
<1>4. /\ asked'.responses = asked.responses /\ asked'.pages = pages
      /\ asked' \in [responses : Seq(Responses), pages : {asked'.pages}]
  <2>1. asked \in [responses : Seq(Responses), pages : {asked.pages}]
    BY DEF UpstreamInv, UpstreamTyped
  <2>2. QED
    BY <1>1, <2>1 DEF page, pages
<1>5. /\ IsInquiry(inquiry)' /\ inquiry'.strays = inquiry.strays
      /\ NameChunks' = NameChunks /\ ForeignPackages' = ForeignPackages
  BY <1>1, InquiryStays DEF Spent, UpstreamInv, UpstreamTyped
<1>6. asked.responses # <<>>
  <2>1. PICK p \in ForeignPackages : TRUE
    BY <1>1 DEF Missing
  <2>2. PICK k \in DOMAIN NameChunks : TRUE
    BY EveryNameIsAsked DEF UpstreamInv, UpstreamTyped
  <2>3. Len(NameChunks) \in Nat /\ DOMAIN NameChunks = 1..Len(NameChunks)
    BY ChunkCount DEF UpstreamInv, UpstreamTyped
  <2>4. Len(asked.responses) = Len(NameChunks)
    BY DEF AskLog, Answered
  <2>5. Len(asked.responses) # 0
    BY <2>2, <2>3, <2>4
  <2>6. QED
    BY <2>5
<1>7. UpstreamTyped'
  BY <1>2, <1>4, <1>5, <1>6 DEF UpstreamInv, UpstreamTyped
<1>8. CompleteInv' /\ ToldInv'
  BY <1>2, <1>4, <1>5 DEF UpstreamInv, CompleteInv, Complete, ToldInv, Told
<1>9. PagesInv'
  BY <1>2, <1>3, <1>4 DEF UpstreamInv, PagesInv, page
<1>10. ProvenanceIsTrue'
  BY <1>2 DEF ProvenanceIsTrue, Open
<1>11. QED
  BY <1>7, <1>8, <1>9, <1>10 DEF UpstreamInv

LEMMA PartsStay ==
    ASSUME UpstreamTyped /\ CompleteInv /\ ToldInv /\ PagesInv, UNCHANGED <<inquiry, aur, ahead, seen, asked>>
    PROVE  (UpstreamTyped /\ CompleteInv /\ ToldInv /\ PagesInv)'
<1>1. NameChunks' = NameChunks
  BY DEF NameChunks, ForeignAt, IsForeign, Place
<1>2. UpstreamTyped'
  BY DEF UpstreamTyped
<1>3. CompleteInv'
  BY <1>1 DEF CompleteInv, Complete
<1>4. ToldInv'
  BY <1>1 DEF ToldInv, Told
<1>5. PagesInv'
  BY DEF PagesInv
<1>6. QED
  BY <1>2, <1>3, <1>4, <1>5

LEMMA ConclusionIsTrue ==
    ASSUME UpstreamInv, Conclude
    PROVE  UpstreamInv'
<1>1. UNCHANGED <<inquiry, aur, ahead, seen, asked>>
  BY DEF Conclude
<1>2. UpstreamTyped' /\ CompleteInv' /\ ToldInv' /\ PagesInv'
  <2>1. UNCHANGED <<inquiry, aur, ahead, seen, asked>>
    BY <1>1
  <2>2. QED
    BY <2>1, PartsStay DEF UpstreamInv
<1>3. ASSUME NEW p \in ForeignPackages
      PROVE  TrueOf(p, {r \in said' : r.subject = p.name})
  <2> DEFINE results == {r \in said' : r.subject = p.name}
  <2>1. CASE inquiry.network /\ Answered
    <3>1. Checked
      BY <2>1 DEF Conclude, Checked
    <3>2. said' = SyncCoverageGaps \cup UNION {SaysOf(q) : q \in ForeignPackages}
      BY <2>1, SaysUnion DEF Conclude
    <3>3. SaysOf(p) \subseteq results
      BY <3>2, SaysSubject
    <3>4. results \subseteq SaysOf(p) \cup SyncCoverageGaps
      <4>1. ASSUME NEW r \in results, r \notin SyncCoverageGaps PROVE r \in SaysOf(p)
        <5>1. PICK q \in ForeignPackages : r \in SaysOf(q)
          BY <3>2, <4>1
        <5>2. q = p
          BY <5>1, SaysSubject, OneOfAName DEF UpstreamInv, UpstreamTyped
        <5>3. QED
          BY <5>1, <5>2
      <4>2. QED
        BY <4>1
    <3> HIDE DEF results
    <3>5. QED
      BY <3>1, <3>3, <3>4, CheckedIsTrue DEF results
  <2>2. CASE ~(inquiry.network /\ Answered)
    <3>1. said' = SyncCoverageGaps \cup Unanswered
      BY <2>2 DEF Conclude
    <3>2. \A r \in said' : r.rule # "aur-absent" /\ r.severity # "critical"
      BY <3>1 DEF SyncCoverageGaps, Unanswered, Result
    <3>3. Result("aur-provenance", p.name, "gap") \in results
      BY <3>1 DEF Unanswered, Result
    <3>4. QED
      BY <3>2, <3>3 DEF TrueOf
  <2>3. QED
    BY <2>1, <2>2
<1>4. ProvenanceIsTrue'
  BY <1>1, <1>3, PerPackage DEF ProvenanceIsTrue, TrueOf, ForeignPackages, ForeignAt, IsForeign
<1>5. QED
  BY <1>2, <1>4 DEF UpstreamInv

LEMMA ChangesAreSeen ==
    ASSUME UpstreamInv, AurChanges
    PROVE  UpstreamInv'
<1>1. /\ aur' = Head(ahead) /\ ahead' = Tail(ahead) /\ ahead # <<>> /\ UNCHANGED <<inquiry, asked, said>> /\ Open
      /\ seen' = IF asked.responses = <<>> THEN {aur'} ELSE seen \cup {aur'}
  BY DEF AurChanges
<1>2. aur' \in AurStates /\ ahead' \in Seq(AurStates) /\ aur' \in seen' /\ seen' \subseteq AurStates
  BY <1>1 DEF UpstreamInv, UpstreamTyped
<1>3. NameChunks' = NameChunks
  BY <1>1 DEF NameChunks, ForeignAt, IsForeign, Place
<1>4. UpstreamTyped'
  BY <1>1, <1>2 DEF UpstreamInv, UpstreamTyped
<1>5. CASE asked.responses = <<>>
  <2>1. CompleteInv' /\ ToldInv'
    BY <1>1, <1>5 DEF CompleteInv, ToldInv, Places
  <2>2. PagesInv'
    BY <1>1, <1>5 DEF UpstreamInv, UpstreamTyped, PagesInv
  <2>3. QED
    BY <1>1, <1>4, <2>1, <2>2 DEF UpstreamInv, ProvenanceIsTrue, Open
<1>6. CASE asked.responses # <<>>
  <2>1. seen \subseteq seen'
    BY <1>1, <1>6
  <2>2. CompleteInv'
    <3>1. \A k \in DOMAIN asked.responses : Complete(k) => Complete(k)'
      BY <1>1, <1>3, <2>1 DEF Complete
    <3>2. QED
      BY <1>1, <1>3, <3>1 DEF UpstreamInv, CompleteInv
  <2>3. ToldInv'
    <3>1. \A x \in Places(asked.responses) : Told(x) => Told(x)'
      BY <1>1, <1>3, <2>1 DEF Told
    <3>2. QED
      BY <1>1, <3>1 DEF UpstreamInv, ToldInv
  <2>4. PagesInv'
    BY <1>1, <2>1 DEF UpstreamInv, PagesInv
  <2>5. QED
    BY <1>1, <1>4, <2>2, <2>3, <2>4 DEF UpstreamInv, ProvenanceIsTrue, Open
<1>7. QED
  BY <1>5, <1>6

LEMMA UpstreamSteps == UpstreamInv /\ [UpstreamNext]_upstreamVars => UpstreamInv'
<1>1. SUFFICES ASSUME UpstreamInv, [UpstreamNext]_upstreamVars PROVE UpstreamInv'
  OBVIOUS
<1>2. CASE UNCHANGED upstreamVars
  <2>1. ProvenanceIsTrue'
    BY <1>1, <1>2 DEF upstreamVars, UpstreamInv, ProvenanceIsTrue, Open, ForeignPackages, ForeignAt, IsForeign
  <2>2. QED
    BY <1>1, <1>2, <2>1, PartsStay DEF upstreamVars, UpstreamInv
<1>3. QED
  BY <1>1, <1>2, InfoAnswers, LogAnswers, ConclusionIsTrue, ChangesAreSeen DEF UpstreamNext

-----------------------------------------------------------------------------
(* Correlation: what is said of a cluster rests on its members and the host *)
(* alone, and what takes a member's instant or a package's date away is what*)
(* makes it a gap.                                                          *)

CorrelationInv ==
    /\ IsHost(host) /\ planted \subseteq Range(host.surfaces)
    /\ verdict = {} \/ verdict = Correlate(host, planted)

LEMMA CorrelationBegins == CorrelationInit => CorrelationInv
  BY HostsAssumption DEF CorrelationInit, CorrelationInv

LEMMA HostStays ==
    ASSUME CorrelationInv, [CorrelationNext]_correlationVars
    PROVE  CorrelationInv'
<1>1. CASE UNCHANGED correlationVars
  BY <1>1 DEF CorrelationInv, correlationVars
<1>2. CASE Plant
  BY <1>2 DEF CorrelationInv, Plant
<1>3. CASE Lose
  <2>1. IsHost(host) /\ verdict' = Correlate(host', planted')
    BY <1>3 DEF CorrelationInv, Lose
  <2>2. DOMAIN host' = DOMAIN host /\ host'.surfaces = host.surfaces
        /\ host'.mtime \in [Paths -> Nat] /\ host'.date \in [Pkgs -> Nat]
    <3>1. CASE \E x \in Paths : host' = [host EXCEPT !.lose = @ - 1, !.mtime[x] = Unknown]
      BY <2>1, <3>1 DEF IsHost, Unknown
    <3>2. CASE \E p \in Pkgs : host' = [host EXCEPT !.lose = @ - 1, !.date[p] = Unknown]
      BY <2>1, <3>2 DEF IsHost, Unknown
    <3>3. CASE host' = [host EXCEPT !.lose = @ - 1, !.offered = {}]
      BY <2>1, <3>3 DEF IsHost
    <3>4. QED
      BY <1>3, <3>1, <3>2, <3>3 DEF Lose
  <2>3. IsHost(host)'
    BY <2>1, <2>2 DEF IsHost
  <2>4. planted' \subseteq Range(host'.surfaces)
    BY <1>3, <2>2 DEF CorrelationInv, Lose
  <2>5. QED
    BY <2>1, <2>3, <2>4 DEF CorrelationInv
<1>4. QED
  BY <1>1, <1>2, <1>3 DEF CorrelationNext

(* The instant of a fact.                                                   *)
TimeOf(h, f) ==
    IF f.target # NoPath /\ h.mtime[f.target] # Unknown THEN h.mtime[f.target] ELSE h.mtime[f.path]

IsFactOf(h, f) ==
    /\ f.path \in Paths /\ f.target \in Paths \cup {NoPath}
    /\ f.time = TimeOf(h, f)

LEMMA FactIs ==
    ASSUME NEW h, IsHost(h), NEW n \in DOMAIN h.surfaces
    PROVE  IsFactOf(h, Fact(h, h.surfaces[n]))
<1> DEFINE i == h.surfaces[n]
           f == Fact(h, i)
<1>1. i.path \in Paths /\ i.target \in Paths \cup {NoPath}
  <2>1. i \in Surfaces
    BY DEF IsHost
  <2> HIDE DEF i
  <2>2. QED
    BY <2>1 DEF Surfaces
<1> HIDE DEF i
<1>2. /\ f.path = i.path /\ f.target = i.target
      /\ f.time = IF TimedBy(h, i) = NoPath THEN Unknown ELSE h.mtime[TimedBy(h, i)]
  BY DEF Fact
<1>3. f.time = TimeOf(h, f)
  BY <1>1, <1>2, PathsAssumption DEF TimedBy, TimeOf
<1>4. QED
  BY <1>1, <1>2, <1>3 DEF IsFactOf, i

(* A cluster of the verdict is one of facts of this host.                   *)
LEMMA ClusterIs ==
    ASSUME NEW h, IsHost(h), NEW holds, NEW c \in Correlate(h, holds)
    PROVE  \E cl : /\ \A f \in cl : IsFactOf(h, f)
                   /\ c.members = {Bare(f) : f \in cl}
                   /\ c.critical = IsCritical(h, cl) /\ c.gap = IsGap(h, cl)
<1> DEFINE facts == Facts(h, holds)
           groups == {x \in Groups(h, facts) : Cardinality(x) >= 2}
           verdictOf(cl) == [members |-> {Bare(f) : f \in cl}, critical |-> IsCritical(h, cl), gap |-> IsGap(h, cl)]
<1>1. \A k \in DOMAIN facts : IsFactOf(h, facts[k])
  BY FactIs DEF Facts
<1>2. \A g \in Groups(h, facts) : g \subseteq DOMAIN facts
  BY DEF Groups
<1> HIDE DEF facts
<1>3. PICK cl \in {{facts[i] : i \in g} : g \in groups} : c = verdictOf(cl)
  BY DEF Correlate, facts
<1>4. PICK g \in groups : cl = {facts[i] : i \in g}
  BY <1>3
<1>5. \A f \in cl : IsFactOf(h, f)
  BY <1>1, <1>2, <1>4
<1>6. QED
  BY <1>3, <1>5

(* What a group's span and its masquerades rest on.                         *)
LEMMA SameMembersSame ==
    ASSUME NEW c, NEW d, {Bare(f) : f \in c} = {Bare(f) : f \in d}
    PROVE  /\ Spans(c) <=> Spans(d)
           /\ Masquerades(c) <=> Masquerades(d)
           /\ \A f \in c : \E g \in d : g.path = f.path /\ g.target = f.target
<1>1. \A f, g : Bare(f) = Bare(g) => f.family = g.family /\ f.path = g.path /\ f.target = g.target
  BY DEF Bare
<1>2. /\ \A f \in c : \E g \in d : Bare(f) = Bare(g)
      /\ \A g \in d : \E f \in c : Bare(f) = Bare(g)
  <2>1. \A f \in c : Bare(f) \in {Bare(g) : g \in d}
    OBVIOUS
  <2>2. \A g \in d : Bare(g) \in {Bare(f) : f \in c}
    OBVIOUS
  <2>3. QED
    BY <2>1, <2>2
<1>3. {f.family : f \in c} = {f.family : f \in d}
  BY <1>1, <1>2
<1>4. Spans(c) <=> Spans(d)
  BY <1>3 DEF Spans
<1>5. \A f, g : f.path = g.path /\ f.target = g.target => PathsOf(f) = PathsOf(g)
  BY DEF PathsOf
<1>6. Masquerades(c) <=> Masquerades(d)
  BY <1>1, <1>2, <1>5 DEF Masquerades
<1>7. QED
  BY <1>1, <1>2, <1>4, <1>6

(* A loss, and that it leaves the facts it touches no instant at all.       *)
Lost(h, k) ==
    \/ \E x \in Paths : k = [h EXCEPT !.lose = @ - 1, !.mtime[x] = Unknown]
    \/ \E p \in Pkgs : k = [h EXCEPT !.lose = @ - 1, !.date[p] = Unknown]
    \/ k = [h EXCEPT !.lose = @ - 1, !.offered = {}]

UntimedFacts(h, k, d) ==
    \A f \in d : (\E x \in PathsOf(f) : h.mtime[x] # k.mtime[x]) => \A y \in PathsOf(f) : k.mtime[y] = Unknown

FactsOf(h, c) == \A f \in c : IsFactOf(h, f)
MembersOf(c) == {Bare(f) : f \in c}

(* What pointed at a package still does, or it is known what is missing.    *)
LEMMA LossIsSeen ==
    ASSUME NEW h, NEW k, IsHost(h), IsHost(k),
           NEW c, NEW d, FactsOf(h, c), FactsOf(k, d), MembersOf(c) = MembersOf(d),
           Strong(h, c) # {}, Strong(k, d) = {}, Lost(h, k), UntimedFacts(h, k, d)
    PROVE  Unattributed(k, d)
<1>1. PICK f \in c : Attributed(h, f) # {}
  BY DEF Strong
<1>2. PICK p \in Attributed(h, f) : TRUE
  BY <1>1
<1>3. PICK g \in d : g.path = f.path /\ g.target = f.target
  <2>1. \A e \in c : \E g \in d : g.path = e.path /\ g.target = e.target
    BY SameMembersSame DEF MembersOf
  <2>2. QED
    BY <2>1
<1>4. PathsOf(g) = PathsOf(f)
  BY <1>3 DEF PathsOf
<1>5. p \notin Attributed(k, g)
  BY <1>2, <1>3 DEF Strong
<1>6. /\ f.path \in Paths /\ f.target \in Paths \cup {NoPath}
      /\ f.time = TimeOf(h, f) /\ g.time = TimeOf(k, g)
  BY <1>3 DEF IsFactOf, FactsOf
<1>7. g.path \in PathsOf(g) /\ (g.target # NoPath => g.target \in PathsOf(g))
  BY <1>3, <1>6, PathsAssumption DEF PathsOf
<1>8. CASE k = [h EXCEPT !.lose = @ - 1, !.offered = {}]
  <2>1. k.offered = {}
    BY <1>8 DEF IsHost
  <2>2. QED
    BY <2>1 DEF Unattributed, SyncKnown
<1>9. ASSUME NEW q \in Pkgs, k = [h EXCEPT !.lose = @ - 1, !.date[q] = Unknown]
      PROVE  Unattributed(k, d)
  <2>1. /\ k.mtime = h.mtime /\ k.offered = h.offered /\ k.date[q] = Unknown
        /\ \A r \in Pkgs : r # q => k.date[r] = h.date[r]
    BY <1>9 DEF IsHost
  <2>2. ForeignOf(k) = ForeignOf(h)
    BY <2>1 DEF ForeignOf, SyncKnown
  <2>3. CASE q \in ForeignOf(k)
    BY <2>1, <2>3 DEF Unattributed
  <2>4. CASE q \notin ForeignOf(k)
    <3>1. p \in ForeignOf(h) /\ p \in Pkgs
      BY <1>2 DEF Attributed, ForeignOf
    <3>2. k.date[p] = h.date[p] /\ p \in ForeignOf(k)
      BY <2>1, <2>2, <2>4, <3>1
    <3>3. g.time = f.time
      BY <1>3, <1>6, <2>1 DEF TimeOf
    <3>4. p \in Attributed(k, g)
      BY <1>2, <1>4, <3>2, <3>3 DEF Attributed
    <3>5. QED
      BY <1>5, <3>4
  <2>5. QED
    BY <2>3, <2>4
<1>10. ASSUME NEW x \in Paths, k = [h EXCEPT !.lose = @ - 1, !.mtime[x] = Unknown]
       PROVE  Unattributed(k, d)
  <2>1. /\ k.date = h.date /\ k.offered = h.offered /\ k.mtime[x] = Unknown
        /\ \A y \in Paths : y # x => k.mtime[y] = h.mtime[y]
    BY <1>10 DEF IsHost
  <2>2. CASE \A y \in PathsOf(g) : k.mtime[y] = h.mtime[y]
    <3>1. g.time = f.time
      BY <1>3, <1>6, <1>7, <2>2 DEF TimeOf
    <3>2. p \in Attributed(k, g)
      BY <1>2, <1>4, <2>1, <3>1 DEF Attributed, ForeignOf, SyncKnown
    <3>3. QED
      BY <1>5, <3>2
  <2>3. CASE ~ \A y \in PathsOf(g) : k.mtime[y] = h.mtime[y]
    <3>1. \A y \in PathsOf(g) : k.mtime[y] = Unknown
      BY <2>3 DEF UntimedFacts
    <3>2. g.time = Unknown
      BY <1>6, <1>7, <3>1 DEF TimeOf
    <3>3. QED
      BY <3>2 DEF Unattributed
  <2>4. QED
    BY <2>2, <2>3
<1>11. QED
  BY <1>8, <1>9, <1>10 DEF Lost

GapOrCritical ==
    planted' = planted =>
        \A c \in verdict : c.critical /\ Untimed(c) =>
            \A d \in verdict' : d.members = c.members => d.critical \/ d.gap

LEMMA InabilityStep ==
    ASSUME CorrelationInv, [CorrelationNext]_correlationVars
    PROVE  [GapOrCritical]_correlationVars
<1>1. SUFFICES ASSUME Lose, NEW c \in verdict, c.critical, Untimed(c), NEW d \in verdict', d.members = c.members
               PROVE  d.critical \/ d.gap
  <2>1. CASE Plant
    BY <2>1 DEF Plant, GapOrCritical
  <2>2. CASE Lose
    BY <2>2 DEF GapOrCritical
  <2>3. QED
    BY <2>1, <2>2 DEF CorrelationNext
<1>2. PICK k : k = host'
  OBVIOUS
<1>3. IsHost(host) /\ IsHost(k) /\ c \in Correlate(host, planted) /\ d \in Correlate(k, planted)
  <2>1. IsHost(host) /\ IsHost(k)
    BY <1>2, HostStays DEF CorrelationInv
  <2>2. verdict' = Correlate(k, planted) /\ verdict = Correlate(host, planted)
    BY <1>1, <1>2 DEF Lose, CorrelationInv
  <2>3. QED
    BY <2>1, <2>2
<1>4. PICK cl : /\ \A f \in cl : IsFactOf(host, f)
                /\ c.members = {Bare(f) : f \in cl}
                /\ c.critical = IsCritical(host, cl) /\ c.gap = IsGap(host, cl)
  BY <1>3, ClusterIs
<1>5. PICK dl : /\ \A f \in dl : IsFactOf(k, f)
                /\ d.members = {Bare(f) : f \in dl}
                /\ d.critical = IsCritical(k, dl) /\ d.gap = IsGap(k, dl)
  BY <1>3, ClusterIs
<1>6. {Bare(f) : f \in cl} = {Bare(f) : f \in dl}
  BY <1>1, <1>4, <1>5
<1>7. Spans(cl) /\ Masquerades(cl) /\ Strong(host, cl) # {}
  BY <1>1, <1>4 DEF IsCritical
<1>8. Spans(dl) /\ Masquerades(dl)
  BY <1>6, <1>7, SameMembersSame
<1>9. CASE Strong(k, dl) # {}
  BY <1>5, <1>8, <1>9 DEF IsCritical
<1>10. CASE Strong(k, dl) = {}
  <2>1. Lost(host, k)
    BY <1>1, <1>2 DEF Lose, Lost
  <2>2. ASSUME NEW f \in dl, NEW x \in PathsOf(f), host.mtime[x] # k.mtime[x]
        PROVE  \A y \in PathsOf(f) : k.mtime[y] = Unknown
    <3>1. Bare(f) \in c.members /\ PathsOf(Bare(f)) = PathsOf(f)
      BY <1>1, <1>5 DEF Bare, PathsOf
    <3>2. QED
      BY <1>1, <1>2, <2>2, <3>1 DEF Untimed
  <2>3. Unattributed(k, dl)
    <3>1. UntimedFacts(host, k, dl)
      BY <2>2 DEF UntimedFacts
    <3>2. FactsOf(host, cl) /\ FactsOf(k, dl) /\ MembersOf(cl) = MembersOf(dl)
      BY <1>4, <1>5, <1>6 DEF FactsOf, MembersOf
    <3>3. QED
      BY <1>3, <1>7, <1>10, <2>1, <3>1, <3>2, LossIsSeen
  <2>4. QED
    BY <1>5, <1>8, <2>3 DEF IsGap
<1>11. QED
  BY <1>9, <1>10

-----------------------------------------------------------------------------
(* The groups of a union-find are the classes of what was joined.           *)

(* Nothing hangs on what comes after it.                                    *)
Hangs(parent, D) == parent \in [D -> D] /\ \A i \in D : parent[i] <= i

(* What the roots of a forest are.                                          *)
RootedAs(parent, D, r) ==
    \A i \in D : r[i] \in D /\ r[i] = IF parent[i] = i THEN i ELSE r[parent[i]]

(* They are one function.                                                   *)
LEMMA OneRooting ==
    ASSUME NEW D \in SUBSET (Nat \ {0}), NEW parent, Hangs(parent, D),
           NEW r, NEW s, RootedAs(parent, D, r), RootedAs(parent, D, s)
    PROVE  \A i \in D : r[i] = s[i]
<1> DEFINE Bad == {i \in D : r[i] # s[i]}
<1>1. SUFFICES ASSUME Bad # {} PROVE FALSE
  OBVIOUS
<1>2. Bad \subseteq Nat
  OBVIOUS
<1>3. PICK m \in Bad : \A k \in Bad : m <= k
  <2> HIDE DEF Bad
  <2> QED
    BY <1>1, <1>2, Least
<1>4. m \in D /\ r[m] # s[m]
  BY <1>3
<1>5. parent[m] \in D /\ parent[m] <= m /\ parent[m] \in Nat /\ m \in Nat
  BY <1>4 DEF Hangs
<1>6. r[m] = IF parent[m] = m THEN m ELSE r[parent[m]]
  BY <1>4 DEF RootedAs
<1>7. s[m] = IF parent[m] = m THEN m ELSE s[parent[m]]
  BY <1>4 DEF RootedAs
<1>8. parent[m] # m /\ r[parent[m]] # s[parent[m]]
  BY <1>4, <1>6, <1>7
<1>9. parent[m] \in Bad
  BY <1>5, <1>8
<1>10. m <= parent[m]
  BY <1>3, <1>9
<1>11. QED
  BY <1>5, <1>8, <1>10

(* Climbing from i: there is such a function, and it is one.                *)
IsClimb(up, parent, i, n) ==
    up = [k \in 0..n |-> IF k = 0 THEN i ELSE parent[up[k - 1]]]

LEMMA Climb ==
    ASSUME NEW D \in SUBSET (Nat \ {0}), NEW parent, Hangs(parent, D), NEW i \in D
    PROVE  \E up : /\ IsClimb(up, parent, i, i) /\ Find(parent, i) = up[i]
                   /\ \A k \in 0..i : up[k] \in D
<1> DEFINE Next0(u) == [k \in 0..i |-> IF k = 0 THEN i ELSE parent[u[k - 1]]]
           R == CHOOSE u : u = Next0(u)
           Steps == [k \in 1..i |-> parent]
<1>1. i \in Nat /\ i # 0 /\ parent \in [D -> D]
  BY DEF Hangs
<1>2. PICK f \in [0..i -> D] : Iterates(f, i, i, Steps)
  <2>1. Steps \in [1..i -> [D -> D]]
    BY <1>1
  <2> HIDE DEF Steps
  <2>2. QED
    BY <1>1, <2>1, IterateExists
<1>3. f = Next0(f)
  <2>1. ASSUME NEW k \in 0..i PROVE f[k] = IF k = 0 THEN i ELSE parent[f[k - 1]]
    <3>1. k # 0 => k \in 1..i
      BY <1>1
    <3>2. f[k] = IF k = 0 THEN i ELSE Steps[k][f[k - 1]]
      <4> HIDE DEF Steps
      <4> QED
        BY <1>2 DEF Iterates
    <3>3. QED
      BY <3>1, <3>2
  <2>2. f = [k \in 0..i |-> f[k]]
    BY <1>2
  <2>3. QED
    BY <2>1, <2>2
<1>4. R = Next0(R)
  BY <1>3
<1>5. Find(parent, i) = R[i]
  BY DEF Find
<1> HIDE DEF R
<1>6. IsClimb(R, parent, i, i)
  BY <1>4 DEF IsClimb
<1> DEFINE P == {k \in 0..i : R[k] \in D}
<1>7. 0 \in P
  <2>1. 0 \in 0..i
    BY <1>1
  <2>2. R[0] = i
    BY <1>6, <2>1 DEF IsClimb
  <2>3. QED
    BY <2>1, <2>2
<1>8. ASSUME NEW k \in Nat, k < i, k \in P PROVE k + 1 \in P
  <2>1. k + 1 \in 0..i /\ k + 1 # 0 /\ (k + 1) - 1 = k
    BY <1>1, <1>8
  <2>2. R[k + 1] = parent[R[k]]
    BY <1>6, <2>1 DEF IsClimb
  <2>3. QED
    BY <1>1, <1>8, <2>1, <2>2
<1>9. \A k \in 0..i : k \in P
  <2> HIDE DEF P
  <2> QED
    BY <1>1, <1>7, <1>8, Along
<1>10. QED
  BY <1>5, <1>6, <1>9

(* Climbing ends at a root.                                                 *)
LEMMA ClimbEnds ==
    ASSUME NEW D \in SUBSET (Nat \ {0}), NEW parent, Hangs(parent, D), NEW i \in D,
           NEW up, IsClimb(up, parent, i, i), \A k \in 0..i : up[k] \in D
    PROVE  parent[up[i]] = up[i]
<1>1. i \in Nat /\ i # 0 /\ parent \in [D -> D] /\ D \subseteq Nat
  BY DEF Hangs
<1> DEFINE P == {k \in 0..i : parent[up[k]] = up[k] \/ up[k] <= i - k}
<1>2. 0 \in P
  BY <1>1 DEF IsClimb
<1>3. ASSUME NEW k \in Nat, k < i, k \in P PROVE k + 1 \in P
  <2>1. k + 1 \in 0..i /\ k + 1 # 0 /\ (k + 1) - 1 = k /\ k \in 0..i
    BY <1>1, <1>3
  <2>2. up[k + 1] = parent[up[k]]
    BY <2>1 DEF IsClimb
  <2>3. up[k] \in D /\ up[k] \in Nat /\ parent[up[k]] \in D /\ parent[up[k]] \in Nat /\ parent[up[k]] <= up[k]
    BY <1>1, <2>1 DEF Hangs
  <2>4. CASE parent[up[k]] = up[k]
    BY <2>1, <2>2, <2>4
  <2>5. CASE parent[up[k]] # up[k]
    <3>1. up[k] <= i - k
      BY <1>3, <2>5
    <3>2. up[k + 1] <= i - (k + 1)
      BY <1>1, <2>2, <2>3, <2>5, <3>1
    <3>3. QED
      BY <2>1, <3>2
  <2>6. QED
    BY <2>4, <2>5
<1>4. \A k \in 0..i : k \in P
  <2> HIDE DEF P
  <2> QED
    BY <1>1, <1>2, <1>3, Along
<1>5. i \in 0..i /\ i \in P
  BY <1>1, <1>4
<1>6. up[i] \in D /\ up[i] \in Nat /\ up[i] # 0
  BY <1>1, <1>5
<1>7. QED
  BY <1>1, <1>5, <1>6

(* What Find says is the root.                                              *)
LEMMA FindIs ==
    ASSUME NEW D \in SUBSET (Nat \ {0}), NEW parent, Hangs(parent, D), NEW i \in D
    PROVE  /\ Find(parent, i) \in D
           /\ parent[Find(parent, i)] = Find(parent, i)
           /\ Find(parent, i) = IF parent[i] = i THEN i ELSE Find(parent, parent[i])
<1>1. PICK up : /\ IsClimb(up, parent, i, i) /\ Find(parent, i) = up[i]
                /\ \A k \in 0..i : up[k] \in D
  BY Climb
<1>2. i \in Nat /\ i # 0 /\ parent \in [D -> D] /\ parent[i] \in D /\ parent[i] <= i /\ parent[i] \in Nat
  BY DEF Hangs
<1>3. parent[up[i]] = up[i]
  BY <1>1, ClimbEnds
<1>4. \A k \in 0..i : up[k] = IF k = 0 THEN i ELSE parent[up[k - 1]]
  BY <1>1 DEF IsClimb
<1>5. ASSUME parent[i] = i PROVE up[i] = i
  <2> DEFINE P == {k \in 0..i : up[k] = i}
  <2>1. 0 \in P
    BY <1>2, <1>4
  <2>2. ASSUME NEW k \in Nat, k < i, k \in P PROVE k + 1 \in P
    <3>1. k + 1 \in 0..i /\ k + 1 # 0 /\ (k + 1) - 1 = k
      BY <1>2, <2>2
    <3>2. QED
      BY <1>4, <1>5, <2>2, <3>1
  <2>3. \A k \in 0..i : k \in P
    <3> HIDE DEF P
    <3> QED
      BY <1>2, <2>1, <2>2, Along
  <2>4. QED
    BY <1>2, <2>3
<1>6. ASSUME parent[i] # i PROVE up[i] = Find(parent, parent[i])
  <2> DEFINE j == parent[i]
  <2>1. PICK vp : /\ IsClimb(vp, parent, j, j) /\ Find(parent, j) = vp[j]
                  /\ \A k \in 0..j : vp[k] \in D
    BY <1>2, Climb
  <2>2. parent[vp[j]] = vp[j]
    BY <1>2, <2>1, ClimbEnds
  <2>3. j < i /\ j \in Nat
    BY <1>2, <1>6
  <2>4. \A k \in 0..j : vp[k] = IF k = 0 THEN j ELSE parent[vp[k - 1]]
    BY <2>1 DEF IsClimb
  <2> DEFINE P == {k \in 0..(i - 1) : up[k + 1] = IF k <= j THEN vp[k] ELSE vp[j]}
  <2>5. 0 \in P
    <3>1. 1 \in 0..i /\ up[1] = parent[up[0]] /\ up[0] = i /\ vp[0] = j /\ 0 \in 0..(i - 1)
      BY <1>2, <1>4, <2>3, <2>4
    <3>2. up[0 + 1] = vp[0]
      BY <3>1
    <3>3. QED
      BY <2>3, <3>1, <3>2
  <2>6. ASSUME NEW k \in Nat, k < i - 1, k \in P PROVE k + 1 \in P
    <3>1. k + 2 \in 0..i /\ k + 2 # 0 /\ (k + 2) - 1 = k + 1 /\ k + 1 \in 0..(i - 1)
          /\ (k + 1) + 1 = k + 2 /\ (k + 1) - 1 = k
      BY <1>2, <2>6
    <3>2. up[k + 2] = parent[up[k + 1]]
      BY <1>4, <3>1
    <3>3. CASE k + 1 <= j
      <4>1. k + 1 \in 0..j /\ k + 1 # 0 /\ k <= j
        BY <2>3, <2>6, <3>3
      <4>2. vp[k + 1] = parent[vp[k]]
        BY <2>4, <3>1, <4>1
      <4>3. up[k + 1] = vp[k]
        BY <2>6, <4>1
      <4>4. up[k + 2] = vp[k + 1]
        BY <3>2, <4>2, <4>3
      <4>5. QED
        BY <3>1, <3>3, <4>4
    <3>4. CASE ~(k + 1 <= j)
      <4>1. k >= j
        BY <2>3, <2>6, <3>4
      <4>2. up[k + 1] = vp[j]
        <5>1. CASE k = j
          BY <2>3, <2>6, <5>1
        <5>2. CASE k # j
          BY <2>3, <2>6, <4>1, <5>2
        <5>3. QED
          BY <5>1, <5>2
      <4>3. up[k + 2] = vp[j]
        BY <2>2, <3>2, <4>2
      <4>4. QED
        BY <3>1, <3>4, <4>3
    <3>5. QED
      BY <3>3, <3>4
  <2>7. i - 1 \in Nat
    BY <1>2
  <2>8. \A k \in 0..(i - 1) : k \in P
    <3> HIDE DEF P
    <3> QED
      BY <2>5, <2>6, <2>7, Along
  <2>9. i - 1 \in P /\ (i - 1) + 1 = i
    BY <1>2, <2>7, <2>8
  <2>10. up[i] = vp[j]
    <3>1. CASE i - 1 = j
      BY <2>3, <2>9, <3>1
    <3>2. CASE i - 1 # j
      <4>1. ~(i - 1 <= j)
        BY <1>2, <2>3, <3>2
      <4>2. QED
        BY <2>9, <4>1
    <3>3. QED
      BY <3>1, <3>2
  <2>11. QED
    BY <2>1, <2>10
<1>7. i \in 0..i
  BY <1>2
<1>8. QED
  BY <1>1, <1>3, <1>5, <1>6, <1>7

LEMMA Rooted ==
    ASSUME NEW D \in SUBSET (Nat \ {0}), NEW parent, Hangs(parent, D)
    PROVE  RootedAs(parent, D, [i \in D |-> Find(parent, i)])
<1>1. ASSUME NEW i \in D
      PROVE  /\ Find(parent, i) \in D /\ parent[i] \in D
             /\ Find(parent, i) = IF parent[i] = i THEN i ELSE Find(parent, parent[i])
  BY FindIs DEF Hangs
<1>2. QED
  BY <1>1 DEF RootedAs

(* Merging makes one of two groups and leaves the others.                   *)
Joint(p, ri, rj, to) == IF p \in {ri, rj} THEN to ELSE p

MergedAs(new, parent, i, j, D) ==
    \E to \in {Find(parent, i), Find(parent, j)} : \A k \in D :
        Find(new, k) = Joint(Find(parent, k), Find(parent, i), Find(parent, j), to)

LEMMA MergeIs ==
    ASSUME NEW D \in SUBSET (Nat \ {0}), NEW parent, Hangs(parent, D), NEW i \in D, NEW j \in D
    PROVE  Hangs(Merge(parent, i, j), D) /\ MergedAs(Merge(parent, i, j), parent, i, j, D)
<1> DEFINE ri == Find(parent, i)
           rj == Find(parent, j)
<1>1. /\ ri \in D /\ parent[ri] = ri /\ rj \in D /\ parent[rj] = rj
      /\ parent \in [D -> D] /\ D \subseteq Nat
  BY FindIs DEF Hangs
<1>2. PICK to, from : /\ {to, from} = {ri, rj} /\ to <= from
                      /\ Merge(parent, i, j) = [parent EXCEPT ![from] = to]
  <2>1. Merge(parent, i, j) = IF ri < rj THEN [parent EXCEPT ![rj] = ri] ELSE [parent EXCEPT ![ri] = rj]
    BY DEF Merge
  <2> HIDE DEF ri, rj
  <2>2. CASE ri < rj
    <3>1. {ri, rj} = {ri, rj} /\ ri <= rj /\ Merge(parent, i, j) = [parent EXCEPT ![rj] = ri]
      BY <1>1, <2>1, <2>2
    <3>2. QED
      BY <3>1
  <2>3. CASE ~(ri < rj)
    <3>1. {rj, ri} = {ri, rj} /\ rj <= ri /\ Merge(parent, i, j) = [parent EXCEPT ![ri] = rj]
      BY <1>1, <2>1, <2>3
    <3>2. QED
      BY <3>1
  <2>4. QED
    BY <2>2, <2>3
<1> DEFINE m == Merge(parent, i, j)
           G == [k \in D |-> Joint(Find(parent, k), ri, rj, to)]
<1>3. /\ to \in D /\ from \in D /\ parent[to] = to /\ parent[from] = from
      /\ to \in {ri, rj} /\ from \in {ri, rj} /\ \A x : x \in {ri, rj} <=> x \in {to, from}
  <2> HIDE DEF ri, rj
  <2> QED
    BY <1>1, <1>2
<1> HIDE DEF ri, rj
<1>4. m \in [D -> D] /\ m[from] = to /\ \A k \in D : k # from => m[k] = parent[k]
  <2> HIDE DEF m
  <2>1. m = [parent EXCEPT ![from] = to]
    BY <1>2 DEF m
  <2> QED
    BY <1>1, <1>3, <2>1
<1> HIDE DEF m
<1>5. Hangs(m, D)
  <2>1. ASSUME NEW k \in D PROVE m[k] <= k
    <3>1. parent[k] <= k
      BY DEF Hangs
    <3>2. QED
      BY <1>2, <1>4, <3>1
  <2>2. QED
    BY <1>4, <2>1 DEF Hangs
<1>6. ASSUME NEW k \in D
      PROVE  /\ Find(parent, k) \in D /\ parent[k] \in D
             /\ Find(parent, k) = IF parent[k] = k THEN k ELSE Find(parent, parent[k])
  BY FindIs DEF Hangs
<1>7. RootedAs(m, D, G)
  <2>1. ASSUME NEW k \in D PROVE G[k] \in D
    <3>1. G[k] = Joint(Find(parent, k), ri, rj, to)
      OBVIOUS
    <3> HIDE DEF G
    <3> QED
      BY <1>3, <1>6, <3>1 DEF Joint
  <2>2. ASSUME NEW k \in D PROVE G[k] = IF m[k] = k THEN k ELSE G[m[k]]
    <3>0. \A x \in D : G[x] = Joint(Find(parent, x), ri, rj, to)
      OBVIOUS
    <3> HIDE DEF G
    <3>1. Find(parent, to) = to /\ Find(parent, from) = from
      BY <1>3, <1>6
    <3>2. G[to] = to /\ G[from] = to
      BY <1>3, <3>0, <3>1 DEF Joint
    <3>3. CASE k = from
      BY <1>3, <1>4, <3>2, <3>3
    <3>4. CASE k # from
      <4>1. m[k] = parent[k]
        BY <1>4, <3>4
      <4>2. CASE parent[k] = k
        <5>1. Find(parent, k) = k
          BY <1>6, <4>2
        <5>2. G[k] = k
          BY <1>3, <3>0, <3>4, <5>1 DEF Joint
        <5>3. QED
          BY <4>1, <4>2, <5>2
      <4>3. CASE parent[k] # k
        <5>1. parent[k] \in D /\ Find(parent, k) = Find(parent, parent[k])
          BY <1>6, <4>3
        <5>2. G[k] = G[parent[k]]
          BY <3>0, <5>1
        <5>3. QED
          BY <4>1, <4>3, <5>2
      <4>4. QED
        BY <4>2, <4>3
    <3>5. QED
      BY <3>3, <3>4
  <2> HIDE DEF G
  <2>3. QED
    BY <2>1, <2>2 DEF RootedAs
<1>8. RootedAs(m, D, [k \in D |-> Find(m, k)])
  BY <1>5, Rooted
<1>9. ASSUME NEW k \in D PROVE Find(m, k) = Joint(Find(parent, k), ri, rj, to)
  <2> DEFINE F == [x \in D |-> Find(m, x)]
  <2>1. F[k] = Find(m, k) /\ G[k] = Joint(Find(parent, k), ri, rj, to)
    OBVIOUS
  <2>2. F[k] = G[k]
    <3> HIDE DEF F, G
    <3>1. RootedAs(m, D, F)
      BY <1>8 DEF F
    <3> QED
      BY <1>5, <1>7, <3>1, OneRooting
  <2>3. QED
    BY <2>1, <2>2
<1>10. MergedAs(m, parent, i, j, D)
  BY <1>3, <1>9 DEF MergedAs, ri, rj
<1>11. QED
  BY <1>5, <1>10 DEF m

(* The facts of a host, each at its place.                                  *)
IsFacts(h, facts) == IsHost(h) /\ facts = [k \in DOMAIN facts |-> facts[k]] /\ DOMAIN facts \subseteq 1..Len(h.surfaces)

AreJoined(h, facts, i, j) == i < j /\ Joined(h, facts[i], facts[j])

(* What is joined has one value of q.                                       *)
KeepsJoins(h, facts, q) ==
    \A i, j \in DOMAIN facts : AreJoined(h, facts, i, j) => q[i] = q[j]

(* Each pair of places is looked at.                                        *)
LEMMA PairsAre ==
    ASSUME NEW n \in Nat
    PROVE  /\ Len(Pairs(n)) \in Nat /\ DOMAIN Pairs(n) = 1..Len(Pairs(n))
           /\ \A i, j \in 1..n : \E k \in 1..Len(Pairs(n)) : Pairs(n)[k] = <<i, j>>
<1>1. PICK N \in Int : N = n * n
  BY SMT
<1>2. N >= 0
  BY <1>1, SMT
<1> DEFINE pair(k) == <<((k - 1) \div n) + 1, ((k - 1) % n) + 1>>
<1>3. Pairs(n) = [k \in 1..N |-> pair(k)]
  BY <1>1 DEF Pairs
<1>4. Len(Pairs(n)) = N /\ DOMAIN Pairs(n) = 1..N
  <2> HIDE DEF pair
  <2> QED
    BY <1>2, <1>3
<1>5. ASSUME NEW i \in 1..n, NEW j \in 1..n
      PROVE  \E k \in 1..N : Pairs(n)[k] = <<i, j>>
  <2>1. PICK x \in Int : x = (i - 1) * n
    BY SMT
  <2> DEFINE k == x + j
  <2>2. x >= 0
    BY <2>1, SMT
  <2>3. x + n <= N
    <3>1. i * n <= n * n
      BY SMT
    <3>2. x + n = i * n
      BY <2>1, SMT
    <3>3. QED
      BY <1>1, <3>1, <3>2
  <2>4. k \in 1..N /\ k - 1 = x + (j - 1) /\ 0 <= j - 1 /\ j - 1 < n /\ k - 1 \in Nat
    BY <2>2, <2>3
  <2>5. (k - 1) \div n = i - 1 /\ (k - 1) % n = j - 1
    BY <2>1, <2>4, SMT
  <2>6. Pairs(n)[k] = <<((k - 1) \div n) + 1, ((k - 1) % n) + 1>>
    BY <1>3, <2>4
  <2> HIDE DEF k
  <2>7. QED
    BY <2>4, <2>5, <2>6
<1>6. \A i, j \in 1..n : \E k \in 1..N : Pairs(n)[k] = <<i, j>>
  BY <1>5
<1>7. Len(Pairs(n)) \in Nat /\ DOMAIN Pairs(n) = 1..Len(Pairs(n))
  BY <1>2, <1>4
<1>8. QED
  BY <1>4, <1>6, <1>7, Zenon

(* What is known of the forest after n pairs.                               *)
After(h, facts, q, parent, n) ==
    /\ Hangs(parent, DOMAIN facts)
    /\ \A m \in 1..n : Joins(h, facts, Pairs(Len(h.surfaces))[m]) =>
           Find(parent, Pairs(Len(h.surfaces))[m][1]) = Find(parent, Pairs(Len(h.surfaces))[m][2])
    /\ \A k, l \in DOMAIN facts : Find(parent, k) = Find(parent, l) => q[k] = q[l]

LEMMA AfterNone ==
    ASSUME NEW h, NEW facts, IsFacts(h, facts), NEW q
    PROVE  After(h, facts, q, [i \in DOMAIN facts |-> i], 0)
<1> DEFINE D == DOMAIN facts
           id == [i \in D |-> i]
<1>1. D \in SUBSET (Nat \ {0})
  BY DEF IsFacts, IsHost
<1> HIDE DEF D
<1>2. Hangs(id, D)
  BY <1>1 DEF Hangs
<1>3. \A k \in D : Find(id, k) = k
  <2> TAKE k \in D
  <2>1. id[k] = k
    OBVIOUS
  <2> HIDE DEF id
  <2>2. QED
    BY <1>1, <1>2, <2>1, FindIs
<1>4. 1..0 = {}
  OBVIOUS
<1>5. QED
  BY <1>2, <1>3, <1>4 DEF After, D

LEMMA AfterOne ==
    ASSUME NEW h, NEW facts, IsFacts(h, facts), NEW q, KeepsJoins(h, facts, q),
           NEW parent, NEW n \in Nat, After(h, facts, q, parent, n),
           NEW pr, pr = Pairs(Len(h.surfaces))[n + 1]
    PROVE  After(h, facts, q, IF Joins(h, facts, pr) THEN Merge(parent, pr[1], pr[2]) ELSE parent, n + 1)
<1> DEFINE D == DOMAIN facts
           P == Pairs(Len(h.surfaces))
<1>1. D \in SUBSET (Nat \ {0})
  BY DEF IsFacts, IsHost
<1>2. \A m \in 1..(n + 1) : m \in 1..n \/ m = n + 1
  OBVIOUS
<1>3. CASE ~Joins(h, facts, pr)
  BY <1>2, <1>3 DEF After
<1>4. CASE Joins(h, facts, pr)
  <2> DEFINE i == pr[1]
             j == pr[2]
             new == Merge(parent, i, j)
  <2>1. i \in D /\ j \in D /\ AreJoined(h, facts, i, j)
    BY <1>4 DEF Joins, AreJoined
  <2>2. q[i] = q[j]
    BY <2>1 DEF KeepsJoins
  <2> HIDE DEF D, i, j, new, P
  <2>3. Hangs(parent, D)
    BY DEF After, D
  <2>4. Hangs(new, D) /\ MergedAs(new, parent, i, j, D)
    BY <1>1, <2>1, <2>3, MergeIs DEF new
  <2>5. PICK to \in {Find(parent, i), Find(parent, j)} : \A k \in D :
               Find(new, k) = Joint(Find(parent, k), Find(parent, i), Find(parent, j), to)
    BY <2>4 DEF MergedAs
  <2>6. \A k, l \in D : Find(parent, k) = Find(parent, l) => q[k] = q[l]
    BY DEF After, D
  <2>7. ASSUME NEW k \in D, NEW l \in D, Find(new, k) = Find(new, l) PROVE q[k] = q[l]
    <3>1. /\ Find(new, k) = Joint(Find(parent, k), Find(parent, i), Find(parent, j), to)
          /\ Find(new, l) = Joint(Find(parent, l), Find(parent, i), Find(parent, j), to)
      BY <2>5
    <3>2. \/ Find(parent, k) = Find(parent, l)
          \/ Find(parent, k) \in {Find(parent, i), Find(parent, j)} /\ Find(parent, l) \in {Find(parent, i), Find(parent, j)}
      BY <2>7, <3>1 DEF Joint
    <3>3. Find(parent, k) \in {Find(parent, i), Find(parent, j)} => q[k] = q[i]
      BY <2>1, <2>2, <2>6
    <3>4. Find(parent, l) \in {Find(parent, i), Find(parent, j)} => q[l] = q[i]
      BY <2>1, <2>2, <2>6
    <3>5. QED
      BY <2>6, <3>2, <3>3, <3>4
  <2>8. ASSUME NEW m \in 1..(n + 1), Joins(h, facts, P[m])
        PROVE  Find(new, P[m][1]) = Find(new, P[m][2])
    <3>1. P[m][1] \in D /\ P[m][2] \in D
      BY <2>8 DEF Joins, D
    <3>2. Find(parent, P[m][1]) = Find(parent, P[m][2]) \/ (P[m][1] = i /\ P[m][2] = j)
      <4>1. CASE m \in 1..n
        BY <2>8, <4>1 DEF After, P
      <4>2. CASE m = n + 1
        BY <4>2 DEF P, i, j
      <4>3. QED
        BY <1>2, <4>1, <4>2
    <3>3. CASE Find(parent, P[m][1]) = Find(parent, P[m][2])
      BY <2>5, <3>1, <3>3
    <3>4. CASE P[m][1] = i /\ P[m][2] = j
      <4>1. Find(new, i) = to /\ Find(new, j) = to
        BY <2>1, <2>5 DEF Joint
      <4>2. QED
        BY <3>4, <4>1
    <3>5. QED
      BY <3>2, <3>3, <3>4
  <2>9. After(h, facts, q, new, n + 1)
    BY <2>4, <2>7, <2>8 DEF After, D, P
  <2>10. QED
    BY <1>4, <2>9 DEF new, i, j
<1>5. QED
  BY <1>3, <1>4

LEMMA ForestAfter ==
    ASSUME NEW h, NEW facts, IsFacts(h, facts), NEW q, KeepsJoins(h, facts, q)
    PROVE  After(h, facts, q, Forest(h, facts), Len(Pairs(Len(h.surfaces))))
<1> DEFINE D == DOMAIN facts
           P == Pairs(Len(h.surfaces))
           N == Len(P)
           base == [i \in D |-> i]
           To(n, p) == IF Joins(h, facts, P[n]) THEN Merge(p, P[n][1], P[n][2]) ELSE p
           T == {p \in [D -> D] : Hangs(p, D)}
           Next0(a) == [n \in 0..N |-> IF n = 0 THEN base ELSE To(n, a[n - 1])]
           R == CHOOSE a : a = Next0(a)
           Steps == [n \in 1..N |-> [p \in T |-> To(n, p)]]
<1>1. D \in SUBSET (Nat \ {0}) /\ Len(h.surfaces) \in Nat
  BY DEF IsFacts, IsHost
<1>2. N \in Nat
  BY <1>1, PairsAre
<1> HIDE DEF D, P, N
<1>3. ASSUME NEW n \in 1..N, NEW p \in T PROVE To(n, p) \in T
  <2>1. CASE ~Joins(h, facts, P[n])
    BY <2>1
  <2>2. CASE Joins(h, facts, P[n])
    <3>1. P[n][1] \in D /\ P[n][2] \in D
      BY <2>2 DEF Joins, D
    <3>2. Hangs(Merge(p, P[n][1], P[n][2]), D)
      BY <1>1, <3>1, MergeIs
    <3>3. Merge(p, P[n][1], P[n][2]) \in [D -> D]
      BY <3>2 DEF Hangs
    <3>4. QED
      BY <2>2, <3>2, <3>3
  <2>3. QED
    BY <2>1, <2>2
<1>4. base \in T
  <2>1. base \in [D -> D] /\ \A i \in D : base[i] <= i
    BY <1>1
  <2> HIDE DEF base
  <2>2. QED
    BY <2>1 DEF Hangs
<1> HIDE DEF To, T, base
<1>5. PICK f \in [0..N -> T] : Iterates(f, N, base, Steps)
  <2>1. Steps \in [1..N -> [T -> T]]
    BY <1>3
  <2> HIDE DEF Steps
  <2>2. QED
    BY <1>2, <1>4, <2>1, IterateExists
<1>6. f = Next0(f)
  <2>1. ASSUME NEW n \in 0..N PROVE f[n] = IF n = 0 THEN base ELSE To(n, f[n - 1])
    <3>1. n # 0 => n \in 1..N /\ f[n - 1] \in T
      BY <1>2
    <3>2. f[n] = IF n = 0 THEN base ELSE Steps[n][f[n - 1]]
      <4> HIDE DEF Steps
      <4> QED
        BY <1>5 DEF Iterates
    <3>3. n # 0 => Steps[n][f[n - 1]] = To(n, f[n - 1])
      BY <3>1
    <3>4. QED
      BY <3>2, <3>3
  <2>2. f = [n \in 0..N |-> f[n]]
    BY <1>5
  <2>3. QED
    BY <2>1, <2>2
<1>7. R = Next0(R)
  BY <1>6
<1>8. Forest(h, facts) = R[N]
  BY DEF Forest, R, N, P, To, D, base
<1> HIDE DEF R
<1>9. \A n \in 0..N : R[n] = IF n = 0 THEN base ELSE To(n, R[n - 1])
  BY <1>7
<1> DEFINE S == {n \in 0..N : After(h, facts, q, R[n], n)}
<1>10. 0 \in S
  <2>1. 0 \in 0..N /\ R[0] = base
    BY <1>2, <1>9
  <2>2. QED
    BY <2>1, AfterNone DEF base, D
<1>11. ASSUME NEW n \in Nat, n < N, n \in S PROVE n + 1 \in S
  <2>1. n + 1 \in 0..N /\ n + 1 # 0 /\ (n + 1) - 1 = n
    BY <1>2, <1>11
  <2>2. R[n + 1] = To(n + 1, R[n])
    BY <1>9, <2>1
  <2>3. After(h, facts, q, To(n + 1, R[n]), n + 1)
    BY <1>11, AfterOne DEF To, P
  <2>4. QED
    BY <2>1, <2>2, <2>3
<1>12. \A n \in 0..N : n \in S
  <2> HIDE DEF S
  <2> QED
    BY <1>2, <1>10, <1>11, Along
<1>13. After(h, facts, q, R[N], N)
  BY <1>2, <1>12
<1>14. QED
  BY <1>8, <1>13 DEF N, P

-----------------------------------------------------------------------------
(* What more evidence does to a group.                                      *)
LEMMA FactsAre ==
    ASSUME NEW h, IsHost(h), NEW holds
    PROVE  IsFacts(h, Facts(h, holds)) /\ \A k \in DOMAIN Facts(h, holds) : IsFactOf(h, Facts(h, holds)[k])
<1>1. DOMAIN h.surfaces = 1..Len(h.surfaces)
  BY DEF IsHost
<1>2. \A k \in DOMAIN Facts(h, holds) : k \in DOMAIN h.surfaces /\ Facts(h, holds)[k] = Fact(h, h.surfaces[k])
  BY DEF Facts
<1>3. Facts(h, holds) = [k \in DOMAIN Facts(h, holds) |-> Facts(h, holds)[k]]
  BY DEF Facts
<1>4. IsFacts(h, Facts(h, holds))
  BY <1>1, <1>2, <1>3 DEF IsFacts
<1>5. QED
  BY <1>2, <1>4, FactIs

(* What is a fact stays one: another of a suppressing hook stands for it.   *)
LEMMA StillAFact ==
    ASSUME NEW h, IsHost(h), NEW old, NEW new, old \subseteq new, new \subseteq Range(h.surfaces),
           NEW k \in DOMAIN Facts(h, old)
    PROVE  \E n \in DOMAIN Facts(h, new) : Facts(h, new)[n] = Facts(h, old)[k]
<1> DEFINE i == h.surfaces[k]
<1>1. /\ k \in DOMAIN h.surfaces /\ i \in old /\ IsFact(i) /\ ~IsSecond(old, i)
      /\ Facts(h, old)[k] = Fact(h, i)
  BY DEF Facts
<1>2. ASSUME NEW n \in DOMAIN h.surfaces, h.surfaces[n] \in new, IsFact(h.surfaces[n]), ~IsSecond(new, h.surfaces[n])
      PROVE  n \in DOMAIN Facts(h, new) /\ Facts(h, new)[n] = Fact(h, h.surfaces[n])
  BY <1>2 DEF Facts
<1>3. CASE ~IsSecond(new, i)
  BY <1>1, <1>2, <1>3
<1>4. CASE IsSecond(new, i)
  <2>1. PICK x \in new : i.family = "suppression" /\ x.family = "hook" /\ x.path = i.path /\ IsFact(x)
    BY <1>4 DEF IsSecond
  <2>2. PICK n \in DOMAIN h.surfaces : x = h.surfaces[n]
    BY <2>1 DEF Range
  <2>3. ~IsSecond(new, x)
    BY <2>1 DEF IsSecond
  <2>4. x.target = NoPath /\ i.target = NoPath
    BY <1>1, <2>1, <2>2 DEF IsHost
  <2>5. Fact(h, x) = Fact(h, i)
    <3>1. Family(x) = Family(i)
      BY <2>1 DEF Family
    <3>2. TimedBy(h, x) = TimedBy(h, i)
      BY <2>1, <2>4 DEF TimedBy
    <3>3. QED
      BY <2>1, <2>4, <3>1, <3>2 DEF Fact
  <2>6. QED
    BY <1>1, <1>2, <2>1, <2>2, <2>3, <2>5
<1>5. QED
  BY <1>3, <1>4

LEMMA JoinedBack ==
    ASSUME NEW h, NEW f, NEW g, IsFactOf(h, f), IsFactOf(h, g), Joined(h, f, g)
    PROVE  Joined(h, g, f)
<1>1. /\ f.path \in Paths /\ g.path \in Paths /\ NoPath \notin Paths
      /\ f.target \in Paths \cup {NoPath} /\ g.target \in Paths \cup {NoPath}
  BY PathsAssumption DEF IsFactOf
<1>2. CASE f.target # NoPath /\ f.target \in PathsOf(g)
  <2>1. f.target = g.path \/ (f.target = g.target /\ g.target # NoPath)
    BY <1>2 DEF PathsOf
  <2>2. f.target \in PathsOf(f)
    BY <1>2 DEF PathsOf
  <2>3. QED
    BY <1>2, <2>1, <2>2 DEF Joined
<1>3. CASE g.target # NoPath /\ g.target = f.path
  <2>1. g.target \in PathsOf(f)
    BY <1>3 DEF PathsOf
  <2>2. QED
    BY <1>3, <2>1 DEF Joined
<1>4. CASE SharedOwnedDir(f, g)
  <2>1. SharedOwnedDir(g, f)
    BY <1>4 DEF SharedOwnedDir
  <2>2. QED
    BY <2>1 DEF Joined
<1>5. CASE Attributed(h, f) \cap Attributed(h, g) # {}
  <2>1. Attributed(h, g) \cap Attributed(h, f) # {}
    BY <1>5
  <2>2. QED
    BY <2>1 DEF Joined
<1>6. QED
  BY <1>2, <1>3, <1>4, <1>5 DEF Joined

(* In its forest, facts that share a key have one root.                     *)
OneRoot(h, facts) == KeepsJoins(h, facts, [k \in DOMAIN facts |-> Find(Forest(h, facts), k)])

LEMMA JoinedTogether ==
    ASSUME NEW h, NEW facts, IsFacts(h, facts)
    PROVE  OneRoot(h, facts)
<1> DEFINE q == [k \in DOMAIN facts |-> 0]
           L == Len(h.surfaces)
           F == Forest(h, facts)
<1>1. KeepsJoins(h, facts, q)
  BY DEF KeepsJoins
<1>2. After(h, facts, q, F, Len(Pairs(L)))
  <2> HIDE DEF q
  <2> QED
    BY <1>1, ForestAfter
<1>3. L \in Nat /\ DOMAIN facts \subseteq 1..L
  BY DEF IsFacts, IsHost
<1> HIDE DEF q, L, F
<1>4. ASSUME NEW i \in DOMAIN facts, NEW j \in DOMAIN facts, AreJoined(h, facts, i, j)
      PROVE  Find(F, i) = Find(F, j)
  <2>1. PICK m \in 1..Len(Pairs(L)) : Pairs(L)[m] = <<i, j>>
    BY <1>3, PairsAre
  <2>2. Joins(h, facts, Pairs(L)[m])
    BY <1>4, <2>1 DEF Joins, AreJoined
  <2>3. QED
    BY <1>2, <2>1, <2>2 DEF After, L
<1>5. QED
  BY <1>4 DEF OneRoot, KeepsJoins, F

(* The facts of a group.                                                    *)
FactsIn(facts, g) == {facts[i] : i \in g}

LEMMA GroupGrows ==
    ASSUME NEW h, IsHost(h), NEW old, NEW new, old \subseteq new, new \subseteq Range(h.surfaces),
           NEW g \in Groups(h, Facts(h, old))
    PROVE  \E d \in Groups(h, Facts(h, new)) :
               FactsIn(Facts(h, old), g) \subseteq FactsIn(Facts(h, new), d)
<1> DEFINE f == Facts(h, old)
           e == Facts(h, new)
           D == DOMAIN f
           E == DOMAIN e
           root == [k \in D |-> Find(Forest(h, f), k)]
           Root == [k \in E |-> Find(Forest(h, e), k)]
<1>1. IsFacts(h, f) /\ IsFacts(h, e) /\ (\A k \in D : IsFactOf(h, f[k])) /\ \A k \in E : IsFactOf(h, e[k])
  BY FactsAre
<1>2. \A k \in D : \E n \in E : e[n] = f[k]
  BY StillAFact
<1>3. D \subseteq Nat /\ E \subseteq Nat
  BY <1>1 DEF IsFacts, IsHost
<1>4. g \in {{i \in D : root[i] = r} : r \in Range(root)}
  BY DEF Groups
<1>5. Groups(h, e) = {{i \in E : Root[i] = r} : r \in Range(Root)}
  BY DEF Groups
<1>6. KeepsJoins(h, e, Root)
  BY <1>1, JoinedTogether DEF OneRoot
<1> HIDE DEF f, e
<1> DEFINE to == [k \in D |-> CHOOSE n \in E : e[n] = f[k]]
<1>7. \A k \in D : to[k] \in E /\ e[to[k]] = f[k]
  BY <1>2
<1> HIDE DEF to
<1> DEFINE q == [k \in D |-> Root[to[k]]]
<1> HIDE DEF D, E, Root
<1>8. KeepsJoins(h, f, q)
  <2>1. ASSUME NEW i \in D, NEW j \in D, AreJoined(h, f, i, j) PROVE q[i] = q[j]
    <3>1. /\ to[i] \in E /\ to[j] \in E /\ e[to[i]] = f[i] /\ e[to[j]] = f[j]
          /\ q[i] = Root[to[i]] /\ q[j] = Root[to[j]]
      BY <1>7
    <3>2. Joined(h, f[i], f[j]) /\ Joined(h, f[j], f[i])
      BY <1>1, <2>1, JoinedBack DEF AreJoined
    <3>3. to[i] \in Nat /\ to[j] \in Nat
      BY <1>3, <3>1
    <3>4. to[i] < to[j] \/ to[j] < to[i] \/ to[i] = to[j]
      BY <3>3
    <3>5. CASE to[i] < to[j]
      <4>1. AreJoined(h, e, to[i], to[j])
        BY <3>1, <3>2, <3>5 DEF AreJoined
      <4>2. QED
        BY <1>6, <3>1, <4>1 DEF KeepsJoins, E
    <3>6. CASE to[j] < to[i]
      <4>1. AreJoined(h, e, to[j], to[i])
        BY <3>1, <3>2, <3>6 DEF AreJoined
      <4>2. QED
        BY <1>6, <3>1, <4>1 DEF KeepsJoins, E
    <3>7. CASE to[i] = to[j]
      BY <3>1, <3>7
    <3>8. QED
      BY <3>4, <3>5, <3>6, <3>7
  <2> HIDE DEF q
  <2>2. QED
    BY <2>1 DEF KeepsJoins, D
<1>9. \A k, l \in D : root[k] = root[l] => q[k] = q[l]
  <2>1. After(h, f, q, Forest(h, f), Len(Pairs(Len(h.surfaces))))
    <3> HIDE DEF q
    <3> QED
      BY <1>1, <1>8, ForestAfter
  <2> HIDE DEF q
  <2>2. \A k, l \in D : Find(Forest(h, f), k) = Find(Forest(h, f), l) => q[k] = q[l]
    BY <2>1 DEF After, D
  <2>3. QED
    BY <2>2
<1>10. PICK i0 \in D : g = {i \in D : root[i] = root[i0]}
  <2>1. PICK r \in Range(root) : g = {i \in D : root[i] = r}
    BY <1>4
  <2>2. PICK i0 \in D : r = root[i0]
    BY <2>1 DEF Range
  <2>3. QED
    BY <2>1, <2>2
<1> DEFINE d == {n \in E : Root[n] = Root[to[i0]]}
<1>11. d \in Groups(h, e)
  <2>1. Root[to[i0]] \in Range(Root)
    <3>1. to[i0] \in DOMAIN Root
      BY <1>7, <1>10 DEF Root
    <3>2. QED
      BY <3>1 DEF Range
  <2>2. QED
    BY <1>5, <2>1
<1>12. ASSUME NEW x \in FactsIn(f, g) PROVE x \in FactsIn(e, d)
  <2>1. PICK i \in g : x = f[i]
    BY <1>12 DEF FactsIn
  <2>2. i \in D /\ root[i] = root[i0]
    BY <1>10, <2>1
  <2> HIDE DEF root
  <2>3. q[i] = q[i0]
    BY <1>9, <1>10, <2>2
  <2>4. to[i] \in d /\ e[to[i]] = x
    BY <1>7, <1>10, <2>1, <2>2, <2>3
  <2>5. QED
    BY <2>4 DEF FactsIn
<1>13. QED
  BY <1>11, <1>12 DEF f, e

(* A finite set's image under a function is finite, and a set of two        *)
(* different things has two.                                                *)
LEMMA ImageIsFinite ==
    ASSUME NEW S, IsFiniteSet(S), NEW m, DOMAIN m = S, m = [x \in S |-> m[x]]
    PROVE  IsFiniteSet({m[x] : x \in S})
<1> DEFINE T == {m[x] : x \in S}
<1>1. m \in Surjection(S, T)
  <2>1. m \in [S -> T]
    OBVIOUS
  <2>2. \A t \in T : \E s \in S : m[s] = t
    OBVIOUS
  <2>3. QED
    BY <2>1, <2>2 DEF Surjection
<1> HIDE DEF T
<1>2. IsFiniteSet(T)
  BY <1>1, FS_Surjection
<1>3. QED
  BY <1>2 DEF T

LEMMA TwoAreTwo ==
    ASSUME NEW S, IsFiniteSet(S), NEW x \in S, NEW y \in S, x # y
    PROVE  Cardinality(S) >= 2
<1>1. IsFiniteSet({x}) /\ Cardinality({x}) = 1
  BY FS_Singleton
<1>2. Cardinality({x} \cup {y}) = IF y \in {x} THEN Cardinality({x}) ELSE Cardinality({x}) + 1
  BY <1>1, FS_AddElement
<1>3. y \notin {x}
  OBVIOUS
<1>4. Cardinality({x} \cup {y}) = 2
  BY <1>1, <1>2, <1>3
<1>5. {x} \cup {y} \in SUBSET S
  OBVIOUS
<1>6. Cardinality({x} \cup {y}) <= Cardinality(S)
  BY <1>5, FS_Subset
<1>7. Cardinality(S) \in Nat
  BY FS_CardinalityType
<1>8. QED
  BY <1>4, <1>6, <1>7

(* What spans two families in a group does so in one that has it.           *)
LEMMA TwoFamilies ==
    ASSUME NEW c, IsFiniteSet(c)
    PROVE  Spans(c) <=> \E a, b \in c : a.family # b.family
<1> DEFINE S == {f.family : f \in c}
<1>1. IsFiniteSet(S)
  <2> DEFINE m == [f \in c |-> f.family]
  <2>1. DOMAIN m = c /\ m = [x \in c |-> m[x]]
    OBVIOUS
  <2>2. S = {m[x] : x \in c}
    OBVIOUS
  <2> HIDE DEF m, S
  <2>3. IsFiniteSet({m[x] : x \in c})
    BY <2>1, ImageIsFinite
  <2>4. QED
    BY <2>2, <2>3
<1> HIDE DEF S
<1>2. Cardinality(S) \in Nat
  BY <1>1, FS_CardinalityType
<1>3. ASSUME Cardinality(S) >= 2 PROVE \E x, y \in S : x # y
  <2>1. SUFFICES ASSUME \A x, y \in S : x = y PROVE FALSE
    OBVIOUS
  <2>2. CASE S = {}
    <3>1. Cardinality({}) = 0
      BY FS_EmptySet
    <3>2. Cardinality(S) = 0
      BY <2>2, <3>1
    <3>3. QED
      BY <1>3, <3>2
  <2>3. CASE S # {}
    <3>1. PICK x \in S : TRUE
      BY <2>3
    <3>2. S = {x}
      BY <2>1, <3>1
    <3>3. Cardinality({x}) = 1
      BY FS_Singleton
    <3>4. Cardinality(S) = 1
      BY <3>2, <3>3
    <3>5. QED
      BY <1>3, <3>4
  <2>4. QED
    BY <2>2, <2>3
<1>4. ASSUME NEW x \in S, NEW y \in S, x # y PROVE Cardinality(S) >= 2
  BY <1>1, <1>4, TwoAreTwo
<1>5. (\E x, y \in S : x # y) <=> \E a, b \in c : a.family # b.family
  BY DEF S
<1>6. QED
  BY <1>3, <1>4, <1>5 DEF Spans, S

(* More evidence keeps a critical cluster, in what is critical.             *)
LEMMA CriticalGrows ==
    ASSUME NEW h, IsHost(h), NEW old, NEW new, old \subseteq new, new \subseteq Range(h.surfaces),
           NEW c \in Correlate(h, old), c.critical
    PROVE  \E d \in Correlate(h, new) : c.members \subseteq d.members /\ d.critical
<1> DEFINE f == Facts(h, old)
           e == Facts(h, new)
           verdictOf(cl) == [members |-> {Bare(x) : x \in cl}, critical |-> IsCritical(h, cl), gap |-> IsGap(h, cl)]
           Big(facts) == {x \in Groups(h, facts) : Cardinality(x) >= 2}
<1>1. Correlate(h, old) = {verdictOf(cl) : cl \in {FactsIn(f, g) : g \in Big(f)}}
  BY DEF Correlate, FactsIn
<1>2. Correlate(h, new) = {verdictOf(cl) : cl \in {FactsIn(e, g) : g \in Big(e)}}
  BY DEF Correlate, FactsIn
<1>3. PICK g \in Big(f) : c = verdictOf(FactsIn(f, g))
  BY <1>1
<1>4. g \in Groups(h, f)
  BY <1>3
<1>5. PICK d \in Groups(h, e) : FactsIn(f, g) \subseteq FactsIn(e, d)
  BY <1>4, GroupGrows
<1> DEFINE cl == FactsIn(f, g)
           dl == FactsIn(e, d)
<1>6. d \subseteq 1..Len(h.surfaces) /\ Len(h.surfaces) \in Nat
  <2>1. d \subseteq DOMAIN e
    BY <1>5 DEF Groups
  <2>2. QED
    BY <2>1, FactsAre DEF IsFacts, IsHost
<1>7. IsFiniteSet(d)
  <2>1. 1 \in Int /\ Len(h.surfaces) \in Int
    BY <1>6
  <2>2. IsFiniteSet(1..Len(h.surfaces))
    BY <2>1, FS_Interval
  <2>3. d \in SUBSET (1..Len(h.surfaces))
    BY <1>6
  <2>4. QED
    BY <2>2, <2>3, FS_Subset
<1> HIDE DEF f, e
<1>8. IsFiniteSet(dl)
  <2> DEFINE m == [i \in d |-> e[i]]
  <2>1. DOMAIN m = d /\ m = [x \in d |-> m[x]]
    OBVIOUS
  <2>2. dl = {m[x] : x \in d}
    BY DEF FactsIn
  <2> HIDE DEF m, dl
  <2>3. IsFiniteSet({m[x] : x \in d})
    BY <1>7, <2>1, ImageIsFinite
  <2>4. QED
    BY <2>2, <2>3
<1>9. IsFiniteSet(cl)
  <2>1. cl \in SUBSET dl
    BY <1>5
  <2> HIDE DEF cl, dl
  <2>2. QED
    BY <1>8, <2>1, FS_Subset
<1>10. IsCritical(h, cl) /\ c.members = {Bare(x) : x \in cl}
  BY <1>3
<1>11. PICK a \in dl, b \in dl : a.family # b.family
  <2>1. \E a, b \in cl : a.family # b.family
    BY <1>9, <1>10, TwoFamilies DEF IsCritical
  <2>2. QED
    BY <1>5, <2>1
<1>12. Spans(dl)
  BY <1>8, <1>11, TwoFamilies
<1>13. Masquerades(dl) /\ Strong(h, dl) # {}
  BY <1>5, <1>10 DEF IsCritical, Masquerades, Strong
<1>14. IsCritical(h, dl)
  BY <1>12, <1>13 DEF IsCritical
<1>15. Cardinality(d) >= 2
  <2>1. PICK i \in d, j \in d : a = e[i] /\ b = e[j]
    BY <1>11 DEF FactsIn
  <2>2. i # j
    BY <1>11, <2>1
  <2>3. QED
    BY <1>7, <2>1, <2>2, TwoAreTwo
<1>16. verdictOf(dl) \in Correlate(h, new)
  BY <1>2, <1>5, <1>15
<1>17. verdictOf(dl).critical = IsCritical(h, dl) /\ verdictOf(dl).members = {Bare(x) : x \in dl}
  OBVIOUS
<1>18. c.members \subseteq verdictOf(dl).members
  BY <1>5, <1>10, <1>17
<1> HIDE DEF verdictOf
<1>19. QED
  BY <1>14, <1>16, <1>17, <1>18

NothingDissolves ==
    host' = host => \A c \in verdict : c.critical => \E d \in verdict' : c.members \subseteq d.members /\ d.critical

LEMMA EvidenceStep ==
    ASSUME CorrelationInv, CorrelationInv', [CorrelationNext]_correlationVars
    PROVE  [NothingDissolves]_correlationVars
<1>1. ASSUME host' = host, NEW c \in verdict, c.critical, CorrelationNext
      PROVE  \E d \in verdict' : c.members \subseteq d.members /\ d.critical
  <2>1. IsHost(host) /\ c \in Correlate(host, planted)
    BY <1>1 DEF CorrelationInv
  <2>2. planted \subseteq planted' /\ verdict' = Correlate(host', planted')
    BY <1>1 DEF CorrelationNext, Plant, Lose
  <2>3. planted' \subseteq Range(host'.surfaces)
    BY DEF CorrelationInv
  <2>4. PICK h, new : h = host' /\ new = planted'
    OBVIOUS
  <2>5. h = host /\ IsHost(h) /\ planted \subseteq new /\ new \subseteq Range(h.surfaces) /\ c \in Correlate(h, planted)
    BY <1>1, <2>1, <2>2, <2>3, <2>4
  <2>6. \E d \in Correlate(h, new) : c.members \subseteq d.members /\ d.critical
    BY <1>1, <2>5, CriticalGrows
  <2>7. verdict' = Correlate(h, new)
    BY <2>2, <2>4
  <2>8. QED
    BY <2>6, <2>7
<1>2. CorrelationNext \/ UNCHANGED correlationVars
  OBVIOUS
<1>3. QED
  BY <1>1, <1>2 DEF NothingDissolves

-----------------------------------------------------------------------------
(* What a log says.  The bounds aside, a file tells its transactions, each  *)
(* of the root that was named last before it, and has its stamps.           *)
Telling(lines, k) ==
    [op |-> lines[k].op, pkg |-> lines[k].pkg, version |-> lines[k].version, time |-> lines[k].time,
     root |-> RootAt(lines, k)]
Txs(lines) == {i \in DOMAIN lines : lines[i].kind = "tx"}
Tellings(f) == IF f.kind = "shut" THEN {} ELSE {Telling(f.lines, k) : k \in Txs(f.lines)}
StampsIn(lines) == {lines[k].time : k \in {i \in DOMAIN lines : Stamped(lines[i])}}
Times(f) == IF f.kind = "shut" THEN {} ELSE StampsIn(f.lines)

LEMMA MinIs ==
    ASSUME NEW S, S \subseteq Nat, S # {}
    PROVE  Min(S) \in S /\ \A x \in S : Min(S) <= x
<1>1. \E m \in S : \A x \in S : m <= x
  BY Least
<1>2. QED
  BY <1>1 DEF Min

LEMMA MaxIs ==
    ASSUME NEW n \in Nat, NEW S, S \subseteq 1..n, S # {}
    PROVE  Max(S) \in S /\ \A x \in S : x <= Max(S)
<1> DEFINE T == {n - x : x \in S}
<1>1. T \subseteq Nat /\ T # {}
  <2>1. \A x \in S : x \in Nat /\ x <= n
    OBVIOUS
  <2>2. \A x \in S : n - x \in Nat
    BY <2>1
  <2>3. QED
    BY <2>2
<1> HIDE DEF T
<1>2. PICK m \in T : \A k \in T : m <= k
  BY <1>1, Least
<1>3. PICK x0 \in S : m = n - x0
  BY <1>2 DEF T
<1>4. \A x \in S : x <= x0
  <2>1. TAKE x \in S
  <2>2. n - x \in T
    BY DEF T
  <2>3. n - x0 <= n - x
    BY <1>2, <1>3, <2>2
  <2>4. x \in Int /\ x0 \in Int
    OBVIOUS
  <2>5. QED
    BY <2>3, <2>4
<1>5. \E x \in S : \A y \in S : x >= y
  <2>1. \A y \in S : x0 >= y
    BY <1>4
  <2>2. QED
    BY <2>1
<1>6. QED
  BY <1>5 DEF Max

(* Where two files agree up to a line, its root is the same in both.        *)
LEMMA SameRoot ==
    ASSUME NEW a, NEW b, NEW k \in Nat, \A i \in 1..k : a[i] = b[i]
    PROVE  RootAt(a, k) = RootAt(b, k)
<1>1. {i \in 1..k : a[i].kind = "run"} = {i \in 1..k : b[i].kind = "run"}
  OBVIOUS
<1>2. CASE {i \in 1..k : a[i].kind = "run"} = {}
  BY <1>1, <1>2 DEF RootAt
<1>3. CASE {i \in 1..k : a[i].kind = "run"} # {}
  <2> DEFINE runs == {i \in 1..k : a[i].kind = "run"}
  <2>1. Max(runs) \in runs
    <3>1. runs \subseteq 1..k /\ runs # {}
      BY <1>3
    <3> HIDE DEF runs
    <3>2. QED
      BY <1>3, <3>1, MaxIs
  <2>2. a[Max(runs)] = b[Max(runs)]
    BY <2>1
  <2>3. RootAt(a, k) = a[Max(runs)].root /\ RootAt(b, k) = b[Max(runs)].root
    BY <1>1, <1>3 DEF RootAt
  <2>4. QED
    BY <2>2, <2>3
<1>4. QED
  BY <1>2, <1>3

LEMMA ReadableIs ==
    ASSUME NEW f, f.lines \in Seq(LogLines), f.kind # "shut"
    PROVE  \E n \in 0..Len(f.lines) : /\ Readable(f) = SubSeq(f.lines, 1, n)
                                      /\ Len(f.lines) <= MaxLines => n = Len(f.lines)
<1> DEFINE n == Min({Len(f.lines), MaxLines})
<1>1. Len(f.lines) \in Nat /\ MaxLines \in Nat
  BY LimitsAssumption
<1>2. n \in {Len(f.lines), MaxLines} /\ n <= Len(f.lines) /\ n <= MaxLines
  BY <1>1, MinIs
<1>3. Readable(f) = SubSeq(f.lines, 1, n)
  BY DEF Readable
<1> HIDE DEF n
<1>4. n \in 0..Len(f.lines) /\ (Len(f.lines) <= MaxLines => n = Len(f.lines))
  BY <1>1, <1>2
<1>5. QED
  BY <1>3, <1>4

(* A file that begins like another tells part of what it tells.             *)
Begins(a, b) ==
    /\ Len(a) \in Nat /\ Len(b) \in Nat /\ DOMAIN a = 1..Len(a) /\ DOMAIN b = 1..Len(b)
    /\ Len(a) <= Len(b) /\ \A i \in DOMAIN a : a[i] = b[i]

LEMMA TellsPart ==
    ASSUME NEW a, NEW b, Begins(a, b)
    PROVE  /\ {Telling(a, k) : k \in Txs(a)} \subseteq {Telling(b, k) : k \in Txs(b)}
           /\ StampsIn(a) \subseteq StampsIn(b)
<1>1. ASSUME NEW k \in Txs(a) PROVE k \in Txs(b) /\ Telling(a, k) = Telling(b, k)
  <2>1. k \in DOMAIN a /\ k \in DOMAIN b /\ a[k] = b[k] /\ a[k].kind = "tx"
    BY <1>1 DEF Begins, Txs
  <2>2. \A i \in 1..k : a[i] = b[i]
    BY <2>1 DEF Begins
  <2>3. RootAt(a, k) = RootAt(b, k)
    <3>1. k \in Nat
      BY <2>1 DEF Begins
    <3>2. QED
      BY <2>2, <3>1, SameRoot
  <2>4. QED
    BY <2>1, <2>3 DEF Telling, Txs
<1>2. ASSUME NEW k \in DOMAIN a PROVE k \in DOMAIN b /\ a[k] = b[k]
  BY DEF Begins
<1>3. StampsIn(a) \subseteq StampsIn(b)
  BY <1>2 DEF StampsIn
<1>4. QED
  BY <1>1, <1>3

ReadStamps(f) == {line.time : line \in {x \in Range(Readable(f)) : Stamped(x)}}

LEMMA FileSays ==
    ASSUME NEW f, f.lines \in Seq(LogLines)
    PROVE  /\ Entries(f) \subseteq Tellings(f) /\ ReadStamps(f) \subseteq Times(f)
           /\ Len(f.lines) <= MaxLines => Entries(f) = Tellings(f) /\ ReadStamps(f) = Times(f)
<1> DEFINE read == Readable(f)
<1>1. Entries(f) = {Telling(read, k) : k \in Txs(read)}
  BY DEF Entries, Telling, Txs
<1>2. ReadStamps(f) = StampsIn(read)
  BY DEF ReadStamps, StampsIn, Range
<1>3. CASE f.kind = "shut"
  <2>1. read = <<>>
    BY <1>3 DEF Readable
  <2>2. Txs(read) = {} /\ StampsIn(read) = {}
    BY <2>1 DEF Txs, StampsIn
  <2> HIDE DEF read
  <2>3. QED
    BY <1>1, <1>2, <1>3, <2>2 DEF Tellings, Times
<1>4. CASE f.kind # "shut"
  <2>1. PICK n \in 0..Len(f.lines) : read = SubSeq(f.lines, 1, n) /\ (Len(f.lines) <= MaxLines => n = Len(f.lines))
    BY <1>4, ReadableIs
  <2>2. Len(f.lines) \in Nat /\ DOMAIN f.lines = 1..Len(f.lines)
    OBVIOUS
  <2> HIDE DEF read
  <2>3. Begins(read, f.lines)
    BY <2>1, <2>2 DEF Begins
  <2>4. Len(f.lines) <= MaxLines => read = f.lines
    BY <2>1, <2>2
  <2>5. Tellings(f) = {Telling(f.lines, k) : k \in Txs(f.lines)} /\ Times(f) = StampsIn(f.lines)
    BY <1>4 DEF Tellings, Times
  <2>6. QED
    BY <1>1, <1>2, <2>3, <2>4, <2>5, TellsPart
<1>5. QED
  BY <1>3, <1>4

(* The log as a whole.                                                      *)
AllTold(l) == UNION {Tellings(l.files[i]) : i \in Discovered(l)}
AllTimes(l) == UNION {Times(l.files[i]) : i \in Discovered(l)}
ReadAt(l) == UNION {ReadStamps(l.files[i]) : i \in Kept(l)}
EntriesRead(l) == UNION {Entries(l.files[i]) : i \in Kept(l)}

LEMMA FilesAre ==
    ASSUME NEW l, NEW at, IsLog(l, at)
    PROVE  /\ Len(l.files) \in Nat \ {0} /\ DOMAIN l.files = 1..Len(l.files)
           /\ Discovered(l) \subseteq 1..Len(l.files) /\ Kept(l) \subseteq Discovered(l)
           /\ \A i \in 1..Len(l.files) : l.files[i].lines \in Seq(LogLines) /\ l.files[i].kind \in FileKinds
<1>1. l.files \in Seq(LogFiles) /\ l.files # <<>>
  BY DEF IsLog
<1>2. Len(l.files) \in Nat \ {0} /\ DOMAIN l.files = 1..Len(l.files)
  BY <1>1
<1>3. Discovered(l) \subseteq 1..Len(l.files)
  BY <1>2 DEF Discovered, Siblings
<1>4. Kept(l) \subseteq Discovered(l)
  BY DEF Kept
<1>5. ASSUME NEW i \in 1..Len(l.files) PROVE l.files[i].lines \in Seq(LogLines) /\ l.files[i].kind \in FileKinds
  <2>1. i \in DOMAIN l.files
    BY <1>2
  <2>2. l.files[i] \in LogFiles
    BY <1>1, <2>1
  <2>3. QED
    BY <2>2 DEF LogFiles
<1>6. QED
  BY <1>2, <1>3, <1>4, <1>5

LEMMA WholeIsKept ==
    ASSUME NEW l, NEW at, IsLog(l, at), Cardinality(Discovered(l)) <= MaxFiles
    PROVE  Kept(l) = Discovered(l)
<1> DEFINE D == Discovered(l)
<1>1. IsFiniteSet(D) /\ Cardinality(D) \in Nat
  <2>1. IsFiniteSet(1..Len(l.files))
    <3>1. 1 \in Int /\ Len(l.files) \in Int
      BY FilesAre
    <3>2. QED
      BY <3>1, FS_Interval
  <2>2. D \in SUBSET (1..Len(l.files))
    BY FilesAre
  <2> HIDE DEF D
  <2>3. IsFiniteSet(D)
    BY <2>1, <2>2, FS_Subset
  <2>4. QED
    BY <2>3, FS_CardinalityType
<1>2. Cardinality(D) <= MaxFiles /\ MaxFiles \in Nat
  BY LimitsAssumption
<1>3. D \subseteq Int
  BY FilesAre
<1> HIDE DEF D
<1>4. ASSUME NEW i \in D PROVE Cardinality({j \in D : j > i}) < MaxFiles
  <2> DEFINE T == {j \in D : j > i}
  <2>1. T \in SUBSET D /\ T # D
    BY <1>3, <1>4
  <2> HIDE DEF T
  <2>2. IsFiniteSet(T) /\ Cardinality(T) <= Cardinality(D) /\ Cardinality(T) # Cardinality(D)
    BY <1>1, <2>1, FS_Subset
  <2>3. Cardinality(T) \in Nat
    BY <2>2, FS_CardinalityType
  <2>4. QED
    BY <1>1, <1>2, <2>2, <2>3 DEF T
<1>5. QED
  BY <1>4 DEF Kept, D

LEMMA ReadIs ==
    ASSUME NEW l
    PROVE  /\ Read(l).entries = {e \in EntriesRead(l) : e.root = Here}
           /\ Read(l).earliest = IF ReadAt(l) = {} THEN None ELSE Min(ReadAt(l))
           /\ "foreign-root" \notin Read(l).gaps => \A e \in EntriesRead(l) : e.root = Here
<1> DEFINE files == {l.files[i] : i \in Kept(l)}
<1>1. EntriesRead(l) = UNION {Entries(f) : f \in files}
  BY DEF EntriesRead
<1>2. ReadAt(l) = UNION {ReadStamps(f) : f \in files}
  BY DEF ReadAt
<1>3. ReadAt(l) = UNION {{line.time : line \in {x \in Range(Readable(f)) : Stamped(x)}} : f \in files}
  BY <1>2 DEF ReadStamps
<1> DEFINE all == UNION {Entries(f) : f \in files}
<1>4. /\ Read(l).entries = {e \in all : e.root = Here}
      /\ {g \in {"foreign-root"} : \E e \in all : e.root # Here} \subseteq Read(l).gaps
  BY DEF Read
<1>5. Read(l).earliest = IF ReadAt(l) = {} THEN None ELSE Min(ReadAt(l))
  BY <1>3 DEF Read
<1>6. QED
  BY <1>1, <1>4, <1>5

LEMMA ReadSays ==
    ASSUME NEW l, NEW at, IsLog(l, at)
    PROVE  /\ EntriesRead(l) \subseteq AllTold(l) /\ ReadAt(l) \subseteq AllTimes(l)
           /\ Whole(l) => EntriesRead(l) = AllTold(l) /\ ReadAt(l) = AllTimes(l)
<1>1. ASSUME NEW i \in Discovered(l)
      PROVE  /\ Entries(l.files[i]) \subseteq Tellings(l.files[i]) /\ ReadStamps(l.files[i]) \subseteq Times(l.files[i])
             /\ Len(l.files[i].lines) <= MaxLines =>
                    Entries(l.files[i]) = Tellings(l.files[i]) /\ ReadStamps(l.files[i]) = Times(l.files[i])
  <2>1. l.files[i].lines \in Seq(LogLines)
    BY FilesAre
  <2>2. QED
    BY <2>1, FileSays
<1>2. Kept(l) \subseteq Discovered(l)
  BY FilesAre
<1>3. EntriesRead(l) \subseteq AllTold(l) /\ ReadAt(l) \subseteq AllTimes(l)
  BY <1>1, <1>2 DEF EntriesRead, AllTold, ReadAt, AllTimes
<1>4. ASSUME Whole(l) PROVE EntriesRead(l) = AllTold(l) /\ ReadAt(l) = AllTimes(l)
  <2>1. Kept(l) = Discovered(l)
    BY <1>4, WholeIsKept DEF Whole
  <2>2. \A i \in Discovered(l) : Entries(l.files[i]) = Tellings(l.files[i]) /\ ReadStamps(l.files[i]) = Times(l.files[i])
    BY <1>1, <1>4 DEF Whole
  <2>3. QED
    BY <2>1, <2>2 DEF EntriesRead, AllTold, ReadAt, AllTimes
<1>5. QED
  BY <1>3, <1>4

(* Every stamp is an instant up to now.                                     *)
LEMMA StampsAre ==
    ASSUME NEW l, NEW at \in Nat, IsLog(l, at)
    PROVE  \A t \in AllTimes(l) : t \in Nat \ {None} /\ t <= at
<1>1. ASSUME NEW i \in Discovered(l), NEW t \in Times(l.files[i]) PROVE t \in Nat \ {None} /\ t <= at
  <2>1. i \in DOMAIN l.files /\ l.files[i].lines \in Seq(LogLines)
    BY FilesAre
  <2>2. PICK k \in DOMAIN l.files[i].lines : t = l.files[i].lines[k].time
    BY <1>1 DEF Times, StampsIn
  <2>3. l.files[i].lines[k] \in LogLines
    BY <2>1, <2>2
  <2>4. QED
    BY <2>1, <2>2, <2>3 DEF IsLog, LogLines
<1>2. QED
  BY <1>1 DEF AllTimes

LEMMA EarliestIs ==
    ASSUME NEW l, NEW at \in Nat, IsLog(l, at)
    PROVE  Read(l).earliest \in Nat /\ Read(l).earliest <= at
<1>1. ReadAt(l) \subseteq Nat /\ \A t \in ReadAt(l) : t <= at
  BY ReadSays, StampsAre
<1>2. CASE ReadAt(l) = {}
  BY <1>2, ReadIs DEF None
<1>3. CASE ReadAt(l) # {}
  BY <1>1, <1>3, ReadIs, MinIs
<1>4. QED
  BY <1>2, <1>3

(* A log is truncated when all that is read of it is later.                 *)
LEMMA TruncatedIs ==
    ASSUME NEW l, NEW at \in Nat, IsLog(l, at), NEW m, m.earliest \in Nat, m.earliest # None
    PROVE  Truncated(m, Read(l)) <=> \A t \in ReadAt(l) : t > m.earliest
<1>1. ReadAt(l) \subseteq Nat \ {None}
  BY ReadSays, StampsAre
<1>2. CASE ReadAt(l) = {}
  BY <1>2, ReadIs DEF Truncated
<1>3. CASE ReadAt(l) # {}
  <2>1. Min(ReadAt(l)) \in ReadAt(l) /\ \A x \in ReadAt(l) : Min(ReadAt(l)) <= x
    BY <1>1, <1>3, MinIs
  <2>2. Read(l).earliest = Min(ReadAt(l))
    BY <1>3, ReadIs
  <2>3. QED
    BY <1>1, <2>1, <2>2 DEF Truncated
<1>4. QED
  BY <1>2, <1>3

-----------------------------------------------------------------------------
(* What fades: a file, or a log, that tells nothing of this root that it did*)
(* not, and has no stamp that it did not but one of after now.              *)
Silent(f, at) == Tellings(f) = {} /\ Times(f) \subseteq {at + 1}
FileFades(f2, f, at) ==
    /\ (\A e \in Tellings(f) : e.root = Here) => \A e \in Tellings(f2) : e.root = Here => e \in Tellings(f)
    /\ Times(f2) \subseteq Times(f) \cup {at + 1}
Fades(l2, l, at) ==
    /\ (\A e \in AllTold(l) : e.root = Here) => \A e \in AllTold(l2) : e.root = Here => e \in AllTold(l)
    /\ AllTimes(l2) \subseteq AllTimes(l) \cup {at + 1}

LEMMA Fading ==
    ASSUME NEW l, NEW l2, NEW at,
           \A i \in Discovered(l2) :
               Silent(l2.files[i], at) \/ \E j \in Discovered(l) : FileFades(l2.files[i], l.files[j], at)
    PROVE  Fades(l2, l, at)
<1>1. ASSUME \A e \in AllTold(l) : e.root = Here, NEW e \in AllTold(l2), e.root = Here PROVE e \in AllTold(l)
  <2>1. PICK i \in Discovered(l2) : e \in Tellings(l2.files[i])
    BY DEF AllTold
  <2>2. PICK j \in Discovered(l) : FileFades(l2.files[i], l.files[j], at)
    BY <2>1 DEF Silent
  <2>3. \A x \in Tellings(l.files[j]) : x \in AllTold(l)
    BY DEF AllTold
  <2>4. QED
    BY <1>1, <2>1, <2>2, <2>3 DEF FileFades
<1>2. ASSUME NEW t \in AllTimes(l2) PROVE t \in AllTimes(l) \cup {at + 1}
  <2>1. PICK i \in Discovered(l2) : t \in Times(l2.files[i])
    BY DEF AllTimes
  <2>2. CASE Silent(l2.files[i], at)
    BY <2>1, <2>2 DEF Silent
  <2>3. ASSUME NEW j \in Discovered(l), FileFades(l2.files[i], l.files[j], at) PROVE t \in AllTimes(l) \cup {at + 1}
    <3>1. Times(l.files[j]) \subseteq AllTimes(l)
      BY DEF AllTimes
    <3>2. QED
      BY <2>1, <2>3, <3>1 DEF FileFades
  <2>4. QED
    BY <2>2, <2>3
<1>3. QED
  BY <1>1, <1>2 DEF Fades

LEMMA SameFades == ASSUME NEW f, NEW at PROVE FileFades(f, f, at)
  BY DEF FileFades

(* The reader says no more of a log that fades: nothing more is explained,  *)
(* and what was cut stays cut.                                              *)
LEMMA LessIsRead ==
    ASSUME NEW l, NEW l2, NEW at \in Nat, NEW at2 \in Nat, IsLog(l, at), IsLog(l2, at2), Fades(l2, l, at),
           Whole(l), "foreign-root" \notin Read(l).gaps,
           NEW m, m.earliest \in Nat \ {None}, m.earliest <= at
    PROVE  /\ Read(l2).entries \subseteq Read(l).entries
           /\ Truncated(m, Read(l)) => Truncated(m, Read(l2))
<1>1. EntriesRead(l) = AllTold(l) /\ ReadAt(l) = AllTimes(l) /\ \A e \in AllTold(l) : e.root = Here
  BY ReadSays, ReadIs
<1>2. EntriesRead(l2) \subseteq AllTold(l2) /\ ReadAt(l2) \subseteq AllTimes(l2)
  BY ReadSays
<1>3. Read(l2).entries \subseteq Read(l).entries
  BY <1>1, <1>2, ReadIs DEF Fades
<1>4. ASSUME Truncated(m, Read(l)) PROVE Truncated(m, Read(l2))
  <2>1. m.earliest \in Nat /\ m.earliest # None
    OBVIOUS
  <2>2. \A t \in AllTimes(l) : t > m.earliest
    BY <1>1, <1>4, <2>1, TruncatedIs
  <2>3. \A t \in AllTimes(l2) : t > m.earliest
    BY <2>2 DEF Fades
  <2>4. \A t \in ReadAt(l2) : t > m.earliest
    BY <1>2, <2>3
  <2>5. QED
    BY <2>1, <2>4, TruncatedIs
<1>5. QED
  BY <1>3, <1>4

LEMMA IsLogIs ==
    ASSUME NEW l, NEW at, DOMAIN l = {"files", "listed"}, l.files \in Seq(LogFiles), l.files # <<>>,
           l.files[Len(l.files)].kind = "absent" => l.files[Len(l.files)].lines = <<>>,
           \A i \in DOMAIN l.files : \A k \in DOMAIN l.files[i].lines : l.files[i].lines[k].time <= at
    PROVE  IsLog(l, at)
  BY DEF IsLog, Last

LEMMA FileIs ==
    ASSUME NEW k \in FileKinds, NEW s \in Seq(LogLines)
    PROVE  [kind |-> k, lines |-> s] \in LogFiles
  BY DEF LogFiles, FileKinds

LEMMA FileHas ==
    ASSUME NEW f \in LogFiles
    PROVE  f.kind \in FileKinds /\ f.lines \in Seq(LogLines) /\ DOMAIN f = {"kind", "lines"}
  BY DEF LogFiles, FileKinds

LEMMA RotateFades ==
    ASSUME NEW l, NEW at, IsLog(l, at), NEW kind \in {"plain", "unsupported", "odd"}, Last(l.files).kind = "plain",
           NEW l2, l2 = [l EXCEPT !.files = Append([@ EXCEPT ![Len(l.files)].kind = kind],
                                                   [kind |-> "absent", lines |-> <<>>])]
    PROVE  IsLog(l2, at) /\ Fades(l2, l, at)
<1> DEFINE n == Len(l.files)
           turned == [l.files EXCEPT ![n].kind = kind]
           live == [kind |-> "absent", lines |-> <<>>]
<1>1. n \in Nat \ {0} /\ l.files \in Seq(LogFiles) /\ DOMAIN l.files = 1..n /\ DOMAIN l = {"files", "listed"}
      /\ l.files[n].kind = "plain"
  BY FilesAre DEF IsLog, Last
<1>5. l.files[n] \in LogFiles
  BY <1>1
<1>2. turned \in Seq(LogFiles) /\ Len(turned) = n /\ DOMAIN turned = 1..n
      /\ turned[n] = [l.files[n] EXCEPT !.kind = kind] /\ \A i \in 1..(n - 1) : turned[i] = l.files[i]
  <2>1. [l.files[n] EXCEPT !.kind = kind] \in LogFiles
    <3>1. l.files[n].lines \in Seq(LogLines) /\ DOMAIN l.files[n] = {"kind", "lines"} /\ kind \in FileKinds
      BY <1>5, FileHas DEF FileKinds
    <3>2. [l.files[n] EXCEPT !.kind = kind] = [kind |-> kind, lines |-> l.files[n].lines]
      BY <1>5 DEF LogFiles
    <3>3. QED
      BY <3>1, <3>2, FileIs
  <2>2. turned = [l.files EXCEPT ![n] = [l.files[n] EXCEPT !.kind = kind]]
    OBVIOUS
  <2> DEFINE changed == [l.files[n] EXCEPT !.kind = kind]
  <2> HIDE DEF turned, changed
  <2>3. turned = [l.files EXCEPT ![n] = changed] /\ changed \in LogFiles
    BY <2>1, <2>2 DEF changed
  <2>4. turned \in Seq(LogFiles) /\ Len(turned) = n /\ DOMAIN turned = 1..n
    BY <1>1, <2>3
  <2>5. turned[n] = changed /\ \A i \in 1..(n - 1) : turned[i] = l.files[i]
    BY <1>1, <2>3
  <2>6. QED
    BY <2>4, <2>5 DEF changed
<1>3. live \in LogFiles
  <2>1. <<>> \in Seq(LogLines)
    OBVIOUS
  <2>2. QED
    BY <2>1, FileIs DEF FileKinds
<1>4. l2.files = Append(turned, live) /\ l2.listed = l.listed /\ DOMAIN l2 = {"files", "listed"}
  BY <1>1
<1>6. turned[n].lines = l.files[n].lines /\ turned[n].kind = kind
  BY <1>2, <1>5 DEF LogFiles
<1> HIDE DEF turned, live
<1>7. /\ l2.files \in Seq(LogFiles) /\ Len(l2.files) = n + 1 /\ l2.files[n + 1] = live
      /\ \A i \in 1..n : l2.files[i] = turned[i]
  BY <1>1, <1>2, <1>3, <1>4
<1>8. ASSUME NEW i \in DOMAIN l2.files, NEW k \in DOMAIN l2.files[i].lines PROVE l2.files[i].lines[k].time <= at
  <2>1. CASE i = n + 1
    BY <1>7, <1>8, <2>1 DEF live
  <2>2. CASE i \in 1..n
    <3>1. l2.files[i].lines = l.files[i].lines
      BY <1>1, <1>2, <1>6, <1>7, <2>2
    <3>2. QED
      BY <1>1, <1>8, <2>2, <3>1 DEF IsLog
  <2>3. QED
    BY <1>1, <1>7, <2>1, <2>2
<1>9. IsLog(l2, at)
  <2>1. l2.files # <<>> /\ l2.files[Len(l2.files)].lines = <<>>
    BY <1>1, <1>7 DEF live
  <2>2. QED
    BY <1>4, <1>7, <1>8, <2>1, IsLogIs
<1>10. ASSUME NEW i \in Discovered(l2) PROVE \E j \in Discovered(l) : FileFades(l2.files[i], l.files[j], at)
  <2>1. i \in 1..n /\ l.listed /\ l2.files[i].kind \notin {"unsupported", "odd"}
    BY <1>1, <1>4, <1>7 DEF Discovered, Siblings, live
  <2>2. CASE i < n
    <3>1. i \in Discovered(l) /\ l2.files[i] = l.files[i]
      BY <1>1, <1>2, <1>7, <2>1, <2>2 DEF Discovered, Siblings
    <3>2. QED
      BY <3>1, SameFades
  <2>3. CASE i = n
    <3>1. kind = "plain" /\ i \in Discovered(l)
      BY <1>1, <1>6, <1>7, <2>1, <2>3 DEF Discovered
    <3>2. l2.files[i].kind = "plain" /\ l2.files[i].lines = l.files[i].lines
      BY <1>1, <1>6, <1>7, <2>3, <3>1
    <3>3. Tellings(l2.files[i]) = Tellings(l.files[i]) /\ Times(l2.files[i]) = Times(l.files[i])
      BY <1>1, <2>3, <3>2 DEF Tellings, Times
    <3>4. FileFades(l2.files[i], l.files[i], at)
      BY <3>3 DEF FileFades
    <3>5. QED
      BY <3>1, <3>4
  <2>4. i < n \/ i = n
    BY <1>1, <2>1
  <2>5. QED
    BY <2>2, <2>3, <2>4
<1>11. QED
  BY <1>9, <1>10, Fading

(* One file is another.                                                     *)
Fits(f2, i, l, at) ==
    /\ \A k \in DOMAIN f2.lines : f2.lines[k].time <= at
    /\ i = Len(l.files) => (f2.kind = "absent" => f2.lines = <<>>)
Replaces(f2, f, at) ==
    Silent(f2, at) \/ (FileFades(f2, f, at) /\ (f2.kind = f.kind \/ f.kind \in {"plain", "torn", "shut"}))
IsReplaced(l2, l, i, f2) ==
    DOMAIN l2 = {"files", "listed"} /\ l2.listed = l.listed /\ l2.files = [l.files EXCEPT ![i] = f2]

LEMMA FileChanged ==
    ASSUME NEW f \in LogFiles, NEW k, NEW s
    PROVE  /\ [f EXCEPT !.kind = k] = [kind |-> k, lines |-> f.lines]
           /\ [f EXCEPT !.lines = s] = [kind |-> f.kind, lines |-> s]
           /\ [[f EXCEPT !.kind = k] EXCEPT !.lines = s] = [kind |-> k, lines |-> s]
<1>1. [f EXCEPT !.kind = k] = [kind |-> k, lines |-> f.lines]
  BY DEF LogFiles
<1>2. [f EXCEPT !.lines = s] = [kind |-> f.kind, lines |-> s]
  BY DEF LogFiles
<1>3. [[f EXCEPT !.kind = k] EXCEPT !.lines = s] = [kind |-> k, lines |-> s]
  <2>1. [[kind |-> k, lines |-> f.lines] EXCEPT !.lines = s] = [kind |-> k, lines |-> s]
    OBVIOUS
  <2>2. QED
    BY <1>1, <2>1
<1>4. QED
  BY <1>1, <1>2, <1>3

LEMMA ReplaceIsLog ==
    ASSUME NEW l, NEW at \in Nat, IsLog(l, at), NEW at2 \in Nat, at <= at2,
           NEW i \in DOMAIN l.files, NEW f2 \in LogFiles, Fits(f2, i, l, at2), NEW l2, IsReplaced(l2, l, i, f2)
    PROVE  IsLog(l2, at2)
<1> DEFINE n == Len(l.files)
<1>1. n \in Nat \ {0} /\ l.files \in Seq(LogFiles) /\ DOMAIN l.files = 1..n /\ l.files # <<>>
      /\ (l.files[n].kind = "absent" => l.files[n].lines = <<>>)
  BY FilesAre DEF IsLog, Last
<1>2. l2.files \in Seq(LogFiles) /\ Len(l2.files) = n /\ l2.files # <<>> /\ DOMAIN l2.files = 1..n
      /\ l2.files[i] = f2 /\ \A j \in 1..n : j # i => l2.files[j] = l.files[j]
  BY <1>1 DEF IsReplaced
<1>3. l2.files[n].kind = "absent" => l2.files[n].lines = <<>>
  BY <1>1, <1>2 DEF Fits
<1>4. ASSUME NEW j \in DOMAIN l2.files, NEW k \in DOMAIN l2.files[j].lines PROVE l2.files[j].lines[k].time <= at2
  <2>1. CASE j = i
    BY <1>2, <1>4, <2>1 DEF Fits
  <2>2. CASE j # i
    <3>1. l2.files[j] = l.files[j] /\ j \in DOMAIN l.files
      BY <1>1, <1>2, <2>2
    <3>2. l.files[j].lines[k].time <= at
      BY <1>4, <3>1 DEF IsLog
    <3>3. l.files[j].lines[k].time \in Nat
      <4>1. l.files[j].lines \in Seq(LogLines)
        BY <1>1, <3>1, FilesAre
      <4>2. l.files[j].lines[k] \in LogLines
        BY <1>4, <3>1, <4>1
      <4>3. QED
        BY <4>2 DEF LogLines
    <3>4. QED
      BY <3>1, <3>2, <3>3
  <2>3. QED
    BY <2>1, <2>2
<1>5. DOMAIN l2 = {"files", "listed"}
  BY DEF IsReplaced
<1>6. QED
  BY <1>2, <1>3, <1>4, <1>5, IsLogIs

LEMMA ReplaceFades ==
    ASSUME NEW l, NEW at, IsLog(l, at), NEW i \in DOMAIN l.files, NEW f2 \in LogFiles,
           NEW l2, IsReplaced(l2, l, i, f2), Replaces(f2, l.files[i], at)
    PROVE  Fades(l2, l, at)
<1> DEFINE n == Len(l.files)
<1>1. n \in Nat \ {0} /\ l.files \in Seq(LogFiles) /\ DOMAIN l.files = 1..n
  BY FilesAre DEF IsLog
<1>2. Len(l2.files) = n /\ l2.listed = l.listed /\ l2.files[i] = f2 /\ \A j \in 1..n : j # i => l2.files[j] = l.files[j]
  BY <1>1 DEF IsReplaced
<1>3. ASSUME NEW j \in Discovered(l2)
      PROVE  Silent(l2.files[j], at) \/ \E k \in Discovered(l) : FileFades(l2.files[j], l.files[k], at)
  <2>1. j \in 1..n
    BY <1>1, <1>2 DEF Discovered, Siblings
  <2>2. CASE j # i
    <3>1. j \in Discovered(l) /\ l2.files[j] = l.files[j]
      BY <1>2, <2>1, <2>2 DEF Discovered, Siblings
    <3>2. QED
      BY <3>1, SameFades
  <2>3. ASSUME j = i, FileFades(f2, l.files[i], at),
               f2.kind = l.files[i].kind \/ l.files[i].kind \in {"plain", "torn", "shut"}
        PROVE  \E k \in Discovered(l) : FileFades(l2.files[j], l.files[k], at)
    <3>1. j \in Discovered(l)
      BY <1>2, <2>1, <2>3 DEF Discovered, Siblings
    <3>2. FileFades(l2.files[j], l.files[j], at)
      BY <1>2, <2>3
    <3>3. QED
      BY <3>1, <3>2
  <2>4. CASE j = i
    BY <1>2, <2>3, <2>4 DEF Replaces
  <2>5. QED
    BY <2>2, <2>4
<1>4. QED
  BY <1>3, Fading

(* A file without its first lines, or with a line that is no transaction.   *)
LEMMA BeheadedFades ==
    ASSUME NEW f \in LogFiles, NEW n \in 1..Len(f.lines), NEW at,
           NEW f2, f2.kind = f.kind, f2.lines = SubSeq(f.lines, n + 1, Len(f.lines))
    PROVE  FileFades(f2, f, at)
<1> DEFINE size == Len(f.lines)
<1>1. f.lines \in Seq(LogLines) /\ size \in Nat /\ DOMAIN f.lines = 1..size
  BY FileHas
<1>2. DOMAIN f2.lines = 1..(size - n) /\ \A k \in 1..(size - n) : f2.lines[k] = f.lines[k + n] /\ k + n \in DOMAIN f.lines
  BY <1>1
<1>3. CASE f.kind = "shut"
  BY <1>3 DEF FileFades, Tellings, Times
<1>4. CASE f.kind # "shut"
  <2>1. /\ Tellings(f) = {Telling(f.lines, k) : k \in Txs(f.lines)}
        /\ Tellings(f2) = {Telling(f2.lines, k) : k \in Txs(f2.lines)}
        /\ Times(f) = StampsIn(f.lines) /\ Times(f2) = StampsIn(f2.lines)
    BY <1>4 DEF Tellings, Times
  <2>2. ASSUME \A e \in Tellings(f) : e.root = Here, NEW e \in Tellings(f2), e.root = Here PROVE e \in Tellings(f)
    <3>1. PICK k \in Txs(f2.lines) : e = Telling(f2.lines, k)
      BY <2>1, <2>2
    <3>2. k \in 1..(size - n) /\ k + n \in DOMAIN f.lines /\ f2.lines[k] = f.lines[k + n]
      BY <1>2, <3>1 DEF Txs
    <3>3. k + n \in Txs(f.lines)
      BY <3>1, <3>2 DEF Txs
    <3>4. Telling(f.lines, k + n) \in Tellings(f)
      BY <2>1, <3>3
    <3>5. Telling(f.lines, k + n).root = Here
      BY <2>2, <3>4
    <3>6. e = Telling(f.lines, k + n)
      BY <2>2, <3>1, <3>2, <3>5 DEF Telling
    <3>7. QED
      BY <3>4, <3>6
  <2>3. StampsIn(f2.lines) \subseteq StampsIn(f.lines)
    <3>1. ASSUME NEW k \in DOMAIN f2.lines, Stamped(f2.lines[k]) PROVE f2.lines[k].time \in StampsIn(f.lines)
      BY <1>2, <3>1 DEF StampsIn
    <3>2. QED
      BY <3>1 DEF StampsIn
  <2>4. QED
    BY <2>1, <2>2, <2>3 DEF FileFades
<1>5. QED
  BY <1>3, <1>4

LEMMA GarbledFades ==
    ASSUME NEW f \in LogFiles, NEW at, NEW line \in LogLines, line.kind # "tx", line.time = at + 1,
           NEW f2, f2.kind = f.kind \/ f.lines = <<>>, f2.lines = Append(f.lines, line)
    PROVE  Replaces(f2, f, at)
<1> DEFINE size == Len(f.lines)
<1>1. f.lines \in Seq(LogLines) /\ size \in Nat /\ DOMAIN f.lines = 1..size
  BY FileHas
<1>2. /\ DOMAIN f2.lines = 1..(size + 1) /\ f2.lines[size + 1] = line
      /\ \A k \in 1..size : f2.lines[k] = f.lines[k]
  BY <1>1
<1>3. Txs(f2.lines) \subseteq 1..size
  BY <1>1, <1>2 DEF Txs
<1>4. CASE f.lines = <<>>
  <2>1. size = 0
    BY <1>4
  <2>2. Txs(f2.lines) = {} /\ StampsIn(f2.lines) \subseteq {at + 1}
    BY <1>2, <1>3, <2>1 DEF StampsIn
  <2>3. QED
    BY <2>2 DEF Replaces, Silent, Tellings, Times
<1>5. CASE f2.kind = f.kind /\ f.kind = "shut"
  BY <1>5 DEF Replaces, FileFades, Tellings, Times
<1>6. CASE f2.kind = f.kind /\ f.kind # "shut"
  <2>1. /\ Tellings(f) = {Telling(f.lines, k) : k \in Txs(f.lines)}
        /\ Tellings(f2) = {Telling(f2.lines, k) : k \in Txs(f2.lines)}
        /\ Times(f) = StampsIn(f.lines) /\ Times(f2) = StampsIn(f2.lines)
    BY <1>6 DEF Tellings, Times
  <2>2. ASSUME \A e \in Tellings(f) : e.root = Here, NEW e \in Tellings(f2), e.root = Here PROVE e \in Tellings(f)
    <3>1. PICK k \in Txs(f2.lines) : e = Telling(f2.lines, k)
      BY <2>1, <2>2
    <3>2. k \in 1..size /\ f2.lines[k] = f.lines[k]
      BY <1>2, <1>3, <3>1
    <3>3. k \in Txs(f.lines)
      BY <1>1, <3>1, <3>2 DEF Txs
    <3>4. Telling(f.lines, k) \in Tellings(f)
      BY <2>1, <3>3
    <3>5. Telling(f.lines, k).root = Here
      BY <2>2, <3>4
    <3>6. e = Telling(f.lines, k)
      BY <2>2, <3>1, <3>2, <3>5 DEF Telling
    <3>7. QED
      BY <3>4, <3>6
  <2>3. StampsIn(f2.lines) \subseteq StampsIn(f.lines) \cup {at + 1}
    <3>1. ASSUME NEW k \in DOMAIN f2.lines, Stamped(f2.lines[k]) PROVE f2.lines[k].time \in StampsIn(f.lines) \cup {at + 1}
      <4>1. CASE k = size + 1
        BY <1>2, <4>1
      <4>2. CASE k \in 1..size
        BY <1>1, <1>2, <3>1, <4>2 DEF StampsIn
      <4>3. QED
        BY <1>1, <1>2, <4>1, <4>2
    <3>2. QED
      BY <3>1 DEF StampsIn
  <2>4. QED
    BY <1>6, <2>1, <2>2, <2>3 DEF Replaces, FileFades
<1>7. QED
  BY <1>4, <1>5, <1>6

(* Lines are added to the live file, which is there from then on.           *)
Live(f, lines) == [kind |-> IF f.kind = "absent" THEN "plain" ELSE f.kind, lines |-> f.lines \o lines]

IsAppended(l2, l, lines) ==
    l2 = [l EXCEPT !.files[Len(l.files)].kind = IF @ = "absent" THEN "plain" ELSE @,
                   !.files[Len(l.files)].lines = @ \o lines]

LEMMA LiveIs ==
    ASSUME NEW l, NEW at, IsLog(l, at), NEW lines \in Seq(LogLines),
           NEW l2, IsAppended(l2, l, lines)
    PROVE  /\ Len(l.files) \in DOMAIN l.files
           /\ l.files[Len(l.files)] \in LogFiles /\ Live(l.files[Len(l.files)], lines) \in LogFiles
           /\ IsReplaced(l2, l, Len(l.files), Live(l.files[Len(l.files)], lines))
<1> DEFINE n == Len(l.files)
           f == l.files[n]
<1>1. n \in DOMAIN l.files /\ l.files \in Seq(LogFiles) /\ DOMAIN l = {"files", "listed"}
  BY FilesAre DEF IsLog
<1>2. f \in LogFiles
  BY <1>1
<1>3. f.kind \in FileKinds /\ f.lines \in Seq(LogLines) /\ DOMAIN f = {"kind", "lines"}
  BY <1>2, FileHas
<1>4. Live(f, lines) \in LogFiles
  <2>1. f.lines \o lines \in Seq(LogLines) /\ (IF f.kind = "absent" THEN "plain" ELSE f.kind) \in FileKinds
    BY <1>3 DEF FileKinds
  <2>2. QED
    BY <2>1, FileIs DEF Live
<1>5. l2 = [l EXCEPT !.files = [l.files EXCEPT ![n] = [[f EXCEPT !.kind = IF f.kind = "absent" THEN "plain" ELSE f.kind]
                                                            EXCEPT !.lines = f.lines \o lines]]]
  BY <1>1, <1>3 DEF IsAppended
<1>6. [[f EXCEPT !.kind = IF f.kind = "absent" THEN "plain" ELSE f.kind] EXCEPT !.lines = f.lines \o lines] = Live(f, lines)
  <2>1. PICK kind : kind = IF f.kind = "absent" THEN "plain" ELSE f.kind
    OBVIOUS
  <2>2. PICK all : all = f.lines \o lines
    OBVIOUS
  <2>3. Live(f, lines) = [kind |-> kind, lines |-> all]
    BY <2>1, <2>2 DEF Live
  <2>4. [[f EXCEPT !.kind = kind] EXCEPT !.lines = all] = [kind |-> kind, lines |-> all]
    <3>1. [f EXCEPT !.kind = kind] = [kind |-> kind, lines |-> f.lines]
      BY <1>2, FileChanged
    <3>2. [[kind |-> kind, lines |-> f.lines] EXCEPT !.lines = all] = [kind |-> kind, lines |-> all]
      OBVIOUS
    <3>3. QED
      BY <3>1, <3>2
  <2>5. QED
    BY <2>1, <2>2, <2>3, <2>4
<1>7. IsReplaced(l2, l, n, Live(f, lines))
  BY <1>1, <1>5, <1>6 DEF IsReplaced
<1>8. QED
  BY <1>1, <1>2, <1>4, <1>7

LEMMA LiveIsLog ==
    ASSUME NEW l, NEW at \in Nat, IsLog(l, at), NEW lines \in Seq(LogLines), \A k \in DOMAIN lines : lines[k].time <= at + 1,
           lines # <<>>,
           NEW l2, IsAppended(l2, l, lines)
    PROVE  IsLog(l2, at + 1)
<1> DEFINE n == Len(l.files)
           f == l.files[n]
           f2 == Live(f, lines)
<1>1. n \in DOMAIN l.files /\ f \in LogFiles /\ f2 \in LogFiles /\ IsReplaced(l2, l, n, f2)
  BY LiveIs
<1>2. f.lines \in Seq(LogLines)
  BY <1>1, FileHas
<1>3. f2.kind # "absent" /\ f2.lines = f.lines \o lines
  BY DEF Live
<1>4. ASSUME NEW k \in DOMAIN f2.lines PROVE f2.lines[k].time <= at + 1
  <2>1. CASE k \in 1..Len(f.lines)
    <3>1. f2.lines[k] = f.lines[k] /\ k \in DOMAIN f.lines /\ f.lines[k] \in LogLines
      BY <1>2, <1>3, <2>1
    <3>2. f.lines[k].time <= at /\ f.lines[k].time \in Nat
      BY <1>1, <3>1 DEF IsLog, LogLines
    <3>3. QED
      BY <3>1, <3>2
  <2>2. CASE k \notin 1..Len(f.lines)
    <3>1. k - Len(f.lines) \in DOMAIN lines /\ f2.lines[k] = lines[k - Len(f.lines)]
      BY <1>2, <1>3, <1>4, <2>2
    <3>2. QED
      BY <3>1
  <2>3. QED
    BY <2>1, <2>2
<1> HIDE DEF f2
<1>5. at + 1 \in Nat /\ at <= at + 1
  OBVIOUS
<1>6. Fits(f2, n, l, at + 1)
  BY <1>3, <1>4 DEF Fits
<1>7. QED
  BY <1>1, <1>5, <1>6, ReplaceIsLog

LEMMA GarbleFades ==
    ASSUME NEW l, NEW at \in Nat, IsLog(l, at), NEW line \in LogLines, line.kind # "tx", line.time = at + 1,
           NEW l2, IsAppended(l2, l, <<line>>)
    PROVE  Fades(l2, l, at)
<1> DEFINE n == Len(l.files)
           f == l.files[n]
           f2 == Live(f, <<line>>)
<1>1. <<line>> \in Seq(LogLines)
  OBVIOUS
<1>2. n \in DOMAIN l.files /\ f \in LogFiles /\ f2 \in LogFiles /\ IsReplaced(l2, l, n, f2)
  BY <1>1, LiveIs
<1>3. f.lines \in Seq(LogLines)
  BY <1>2, FileHas
<1>4. f2.lines = Append(f.lines, line)
  <2>1. PICK old \in Seq(LogLines) : old = f.lines
    BY <1>3
  <2>2. old \o <<line>> = Append(old, line)
    BY <2>1, AppendIsConcat
  <2>3. f2.lines = f.lines \o <<line>>
    BY DEF Live
  <2>4. QED
    BY <2>1, <2>2, <2>3
<1>5. f2.kind = f.kind \/ f.lines = <<>>
  BY DEF Live, IsLog, Last
<1> HIDE DEF f2
<1>6. Replaces(f2, f, at)
  BY <1>2, <1>4, <1>5, GarbledFades
<1>7. QED
  BY <1>2, <1>6, ReplaceFades

(* The oldest file is gone.                                                 *)
IsTail(l2, l) == DOMAIN l2 = {"files", "listed"} /\ l2.listed = l.listed /\ l2.files = Tail(l.files)

Tailed(l2, l, size) ==
    /\ l2.files \in Seq(LogFiles) /\ Len(l2.files) = size - 1 /\ DOMAIN l2.files = 1..(size - 1)
    /\ \A i \in 1..(size - 1) : l2.files[i] = l.files[i + 1] /\ i + 1 \in 1..size
    /\ size \in Nat /\ l2.files # <<>> /\ l2.files[Len(l2.files)] = l.files[size]

LEMMA TailIs ==
    ASSUME NEW l, NEW at, IsLog(l, at), Len(l.files) > 1, NEW l2, IsTail(l2, l)
    PROVE  Tailed(l2, l, Len(l.files))
<1>0. PICK size : size = Len(l.files)
  OBVIOUS
<1>1. size \in Nat /\ l.files \in Seq(LogFiles) /\ l.files # <<>> /\ size > 1 /\ size = Len(l.files)
  BY <1>0, FilesAre DEF IsLog
<1>2. l2.files = Tail(l.files)
  BY DEF IsTail
<1> DEFINE rest == l2.files
<1>3. rest \in Seq(LogFiles) /\ Len(rest) = size - 1
  BY <1>1, <1>2
<1>4. \A i \in 1..(size - 1) : rest[i] = l.files[i + 1]
  BY <1>1, <1>2
<1> HIDE DEF rest
<1>5. DOMAIN rest = 1..(size - 1) /\ rest # <<>>
  BY <1>1, <1>3
<1>6. size - 1 \in 1..(size - 1) /\ (size - 1) + 1 = size
  BY <1>1
<1>7. rest[Len(rest)] = l.files[size]
  BY <1>3, <1>4, <1>6
<1>8. \A i \in 1..(size - 1) : i + 1 \in 1..size
  BY <1>1
<1>9. QED
  BY <1>1, <1>3, <1>4, <1>5, <1>7, <1>8 DEF rest, Tailed

LEMMA TailFades ==
    ASSUME NEW l, NEW at \in Nat, IsLog(l, at), Len(l.files) > 1, NEW l2, IsTail(l2, l)
    PROVE  IsLog(l2, at) /\ Fades(l2, l, at)
<1>1. PICK size : size = Len(l.files)
  OBVIOUS
<1>2. /\ l2.files \in Seq(LogFiles) /\ Len(l2.files) = size - 1 /\ DOMAIN l2.files = 1..(size - 1)
      /\ \A i \in 1..(size - 1) : l2.files[i] = l.files[i + 1] /\ i + 1 \in 1..size
      /\ size \in Nat /\ l2.files # <<>> /\ l2.files[Len(l2.files)] = l.files[size]
  <2>1. Tailed(l2, l, size)
    BY <1>1, TailIs
  <2>2. QED
    BY <2>1 DEF Tailed
<1>3. DOMAIN l.files = 1..size /\ l2.listed = l.listed /\ DOMAIN l2 = {"files", "listed"}
  BY <1>1, FilesAre DEF IsTail
<1>4. IsLog(l2, at)
  <2>1. l2.files[Len(l2.files)].kind = "absent" => l2.files[Len(l2.files)].lines = <<>>
    BY <1>1, <1>2 DEF IsLog, Last
  <2>2. ASSUME NEW i \in DOMAIN l2.files, NEW k \in DOMAIN l2.files[i].lines PROVE l2.files[i].lines[k].time <= at
    <3>1. l2.files[i] = l.files[i + 1] /\ i + 1 \in DOMAIN l.files
      BY <1>2, <1>3
    <3>2. QED
      BY <3>1 DEF IsLog
  <2>3. QED
    BY <1>2, <1>3, <2>1, <2>2, IsLogIs
<1>5. ASSUME NEW i \in Discovered(l2) PROVE \E j \in Discovered(l) : FileFades(l2.files[i], l.files[j], at)
  <2>1. \/ i \in 1..(size - 2) /\ l.listed /\ l2.files[i].kind \notin {"unsupported", "odd"}
        \/ i = size - 1 /\ l2.files[i].kind \notin {"absent", "odd"}
    <3>1. Len(l2.files) - 1 = size - 2
      BY <1>2
    <3>2. QED
      BY <1>2, <1>3, <1>5, <3>1 DEF Discovered, Siblings
  <2>2. i \in 1..(size - 1)
    BY <1>2, <2>1
  <2>3. l2.files[i] = l.files[i + 1]
    BY <1>2, <2>2
  <2>4. i + 1 \in 1..(size - 1) \/ i + 1 = size
    BY <1>2, <2>2
  <2>5. i \in 1..(size - 2) => i + 1 \in 1..(size - 1)
    BY <1>2
  <2>6. i + 1 \in Discovered(l)
    BY <1>1, <1>2, <2>1, <2>3, <2>5 DEF Discovered, Siblings
  <2>7. QED
    BY <2>3, <2>6, SameFades
<1>6. QED
  BY <1>4, <1>5, Fading

(* What is left of a sequence without its first n.                          *)
LEMMA AfterCut ==
    ASSUME NEW S, NEW s \in Seq(S), NEW n \in 1..Len(s), NEW t, t = SubSeq(s, n + 1, Len(s)), NEW k \in DOMAIN t
    PROVE  t[k] = s[k + n] /\ k + n \in DOMAIN s
<1>1. PICK size : size = Len(s)
  OBVIOUS
<1>2. size \in Nat /\ n \in 1..size /\ DOMAIN s = 1..size /\ t = SubSeq(s, n + 1, size)
  BY <1>1
<1>3. PICK a : a = n + 1
  OBVIOUS
<1>4. t = SubSeq(s, a, size) /\ a \in 1..(size + 1)
  BY <1>2, <1>3
<1>5. /\ Len(SubSeq(s, a, size)) = IF a <= size THEN size - a + 1 ELSE 0
      /\ \A i \in 1..(size - a + 1) : SubSeq(s, a, size)[i] = s[a + i - 1]
      /\ SubSeq(s, a, size) \in Seq(S)
  <2>1. a \in Int /\ size \in Int
    BY <1>2, <1>4
  <2>2. \A i \in a..size : s[i] \in S
    BY <1>2, <1>4
  <2>3. QED
    BY <2>1, <2>2, SubSeqProperties
<1>6. k \in 1..(size - a + 1)
  <2>1. k \in 1..Len(t) /\ Len(t) = IF a <= size THEN size - a + 1 ELSE 0
    BY <1>4, <1>5
  <2>2. QED
    BY <1>2, <1>4, <2>1
<1>7. t[k] = s[a + k - 1]
  BY <1>4, <1>5, <1>6
<1>8. a + k - 1 = k + n /\ k + n \in 1..size
  BY <1>2, <1>3, <1>6
<1>9. QED
  BY <1>2, <1>7, <1>8

(* The first lines of the oldest file are gone.                             *)
Beheaded(f, n) == [kind |-> f.kind, lines |-> SubSeq(f.lines, n + 1, Len(f.lines))]

LEMMA HeadFades ==
    ASSUME NEW l, NEW at \in Nat, IsLog(l, at), NEW f, f = l.files[1], NEW n \in 1..Len(f.lines),
           NEW l2, IsReplaced(l2, l, 1, Beheaded(f, n))
    PROVE  IsLog(l2, at) /\ Fades(l2, l, at)
<1> DEFINE f2 == Beheaded(f, n)
<1>1. 1 \in DOMAIN l.files /\ f \in LogFiles
  BY FilesAre DEF IsLog
<1>2. f.lines \in Seq(LogLines) /\ f.kind \in FileKinds /\ Len(f.lines) \in Nat /\ DOMAIN f.lines = 1..Len(f.lines)
  BY <1>1, FileHas
<1>3. SubSeq(f.lines, n + 1, Len(f.lines)) \in Seq(LogLines)
  BY <1>2
<1>4. f2 \in LogFiles
  BY <1>2, <1>3, FileIs DEF Beheaded
<1>5. f2.kind = f.kind /\ f2.lines = SubSeq(f.lines, n + 1, Len(f.lines))
  BY DEF Beheaded
<1> HIDE DEF f2
<1>6. Replaces(f2, f, at)
  BY <1>1, <1>5, BeheadedFades DEF Replaces
<1>7. Fades(l2, l, at)
  BY <1>1, <1>4, <1>6, ReplaceFades DEF f2
<1>8. ASSUME NEW k \in DOMAIN f2.lines PROVE f2.lines[k].time <= at
  <2>1. f2.lines[k] = f.lines[k + n] /\ k + n \in DOMAIN f.lines
    BY <1>2, <1>5, <1>8, AfterCut
  <2>2. QED
    BY <1>1, <2>1 DEF IsLog
<1>9. ASSUME 1 = Len(l.files), f2.kind = "absent" PROVE f2.lines = <<>>
  <2>1. f.lines = <<>>
    BY <1>5, <1>9 DEF IsLog, Last
  <2>2. QED
    BY <2>1
<1>10. Fits(f2, 1, l, at)
  BY <1>8, <1>9 DEF Fits
<1>11. at <= at /\ IsReplaced(l2, l, 1, f2)
  BY DEF f2
<1>12. IsLog(l2, at)
  BY <1>1, <1>4, <1>10, <1>11, ReplaceIsLog
<1>13. QED
  BY <1>7, <1>12

IsCut(l2, l, n) ==
    l2 = IF n = Len(Head(l.files).lines) /\ Len(l.files) > 1 THEN [l EXCEPT !.files = Tail(@)]
         ELSE [l EXCEPT !.files[1].lines = SubSeq(@, n + 1, Len(@))]

LEMMA CutFades ==
    ASSUME NEW l, NEW at \in Nat, IsLog(l, at), NEW n \in 1..Len(Head(l.files).lines), NEW l2, IsCut(l2, l, n)
    PROVE  IsLog(l2, at) /\ Fades(l2, l, at)
<1>1. PICK f : f = l.files[1]
  OBVIOUS
<1>2. /\ Len(l.files) \in Nat \ {0} /\ l.files \in Seq(LogFiles) /\ DOMAIN l.files = 1..Len(l.files)
      /\ DOMAIN l = {"files", "listed"} /\ Head(l.files) = f /\ f \in LogFiles
  BY <1>1, FilesAre DEF IsLog
<1>3. CASE n = Len(f.lines) /\ Len(l.files) > 1
  <2>1. l2 = [l EXCEPT !.files = Tail(@)]
    BY <1>2, <1>3 DEF IsCut
  <2>2. IsTail(l2, l)
    BY <1>2, <2>1 DEF IsTail
  <2>3. QED
    BY <1>3, <2>2, TailFades
<1>4. CASE ~(n = Len(f.lines) /\ Len(l.files) > 1)
  <2>1. l2 = [l EXCEPT !.files[1].lines = SubSeq(@, n + 1, Len(@))]
    BY <1>2, <1>4 DEF IsCut
  <2>2. l2 = [l EXCEPT !.files = [l.files EXCEPT ![1] = [f EXCEPT !.lines = SubSeq(f.lines, n + 1, Len(f.lines))]]]
    BY <1>1, <1>2, <2>1
  <2>3. [f EXCEPT !.lines = SubSeq(f.lines, n + 1, Len(f.lines))] = Beheaded(f, n)
    BY <1>2, FileChanged DEF Beheaded
  <2>4. l2 = [l EXCEPT !.files = [l.files EXCEPT ![1] = Beheaded(f, n)]]
    BY <2>2, <2>3
  <2>5. IsReplaced(l2, l, 1, Beheaded(f, n))
    BY <1>2, <2>4 DEF IsReplaced
  <2>6. n \in 1..Len(f.lines)
    BY <1>2
  <2>7. QED
    BY <1>1, <2>5, <2>6, HeadFades
<1>5. QED
  BY <1>3, <1>4

LEMMA ShutFades ==
    ASSUME NEW l, NEW at \in Nat, IsLog(l, at), NEW i \in DOMAIN l.files, NEW kind \in {"shut", "torn"},
           l.files[i].kind = "plain",
           NEW l2, l2 = IF i < Len(l.files) /\ kind = "torn" THEN [l EXCEPT !.listed = FALSE]
                        ELSE [l EXCEPT !.files[i].kind = kind]
    PROVE  IsLog(l2, at) /\ Fades(l2, l, at)
<1> DEFINE f == l.files[i]
<1>1. /\ l.files \in Seq(LogFiles) /\ DOMAIN l = {"files", "listed"} /\ l.files # <<>> /\ f \in LogFiles
      /\ DOMAIN l.files = 1..Len(l.files) /\ Len(l.files) \in Nat
  BY FilesAre DEF IsLog
<1>2. CASE i < Len(l.files) /\ kind = "torn"
  <2>1. l2.files = l.files /\ ~l2.listed /\ DOMAIN l2 = {"files", "listed"}
    BY <1>1, <1>2
  <2>2. IsLog(l2, at)
    BY <2>1 DEF IsLog
  <2>3. \A j \in Discovered(l2) : j \in Discovered(l) /\ l2.files[j] = l.files[j]
    BY <2>1 DEF Discovered, Siblings
  <2>4. QED
    BY <2>2, <2>3, SameFades, Fading
<1>3. CASE ~(i < Len(l.files) /\ kind = "torn")
  <2> DEFINE f2 == [f EXCEPT !.kind = kind]
  <2>1. l2 = [l EXCEPT !.files = [l.files EXCEPT ![i] = f2]]
    BY <1>1, <1>3
  <2>2. IsReplaced(l2, l, i, f2)
    BY <1>1, <2>1 DEF IsReplaced
  <2>3. f.lines \in Seq(LogLines) /\ kind \in FileKinds
    BY <1>1, FileHas DEF FileKinds
  <2>4. f2 = [kind |-> kind, lines |-> f.lines]
    BY <1>1, FileChanged
  <2>5. f2 \in LogFiles /\ f2.kind = kind /\ f2.lines = f.lines
    BY <2>3, <2>4, FileIs
  <2> HIDE DEF f2
  <2>6. Fits(f2, i, l, at)
    BY <2>5 DEF Fits, IsLog
  <2>7. IsLog(l2, at)
    BY <2>2, <2>5, <2>6, ReplaceIsLog
  <2>8. Replaces(f2, f, at)
    <3>1. CASE kind = "shut"
      BY <2>5, <3>1 DEF Replaces, Silent, Tellings, Times
    <3>2. CASE kind = "torn"
      <4>1. Tellings(f2) = Tellings(f) /\ Times(f2) = Times(f)
        BY <2>5, <3>2 DEF Tellings, Times
      <4>2. QED
        BY <4>1 DEF Replaces, FileFades
    <3>3. QED
      BY <3>1, <3>2
  <2>9. Fades(l2, l, at)
    BY <2>2, <2>5, <2>8, ReplaceFades
  <2>10. QED
    BY <2>7, <2>9
<1>4. QED
  BY <1>2, <1>3

-----------------------------------------------------------------------------
(* The log is one of this host's, and what was signed of it began by now.   *)
LogInv ==
    /\ IsLog(log, now)
    /\ manifest.earliest \in Nat /\ manifest.earliest <= now
    /\ scan.read.earliest \in Nat /\ scan.read.earliest <= now
    /\ \A r \in session.records : r.expires \in Nat

LEMMA LogBegins == DriftInit => LogInv
<1> SUFFICES ASSUME DriftInit PROVE LogInv
  OBVIOUS
<1>1. IsLog(log, now) /\ now \in Nat
  BY DriftAssumption DEF DriftInit
<1>2. Read(log).earliest \in Nat /\ Read(log).earliest <= now
  BY <1>1, EarliestIs
<1>3. scan.read = Read(log) /\ manifest.earliest = None /\ now = 2
  BY DEF DriftInit, NoManifest
<1>4. \A r \in session.records : r.expires \in Nat
  BY DriftAssumption DEF DriftInit
<1>5. QED
  BY <1>1, <1>2, <1>3, <1>4 DEF LogInv, None

LEMMA OneLine ==
    ASSUME NEW t \in Nat, NEW kind \in LineKinds
    PROVE  Line(kind, Here, "none", "none", None, t + 1) \in LogLines
  BY DEF Line, LogLines, None

(* What pacman writes of a transaction.                                     *)
LEMMA TwoLines ==
    ASSUME NEW t \in Nat, NEW root \in {Here, "mnt"}, NEW p \in Names, NEW v \in Versions \cup {None},
           NEW op \in {"installed", "reinstalled", "upgraded", "downgraded", "removed", "none"},
           NEW lines, lines = <<Line("run", root, "none", "none", None, t + 1), Line("tx", root, op, p, v, t + 1)>>
    PROVE  /\ lines \in Seq(LogLines) /\ lines # <<>> /\ \A k \in DOMAIN lines : lines[k].time <= t + 1
           /\ \E k \in DOMAIN lines : lines[k].kind = "tx" /\ lines[k].time = t + 1
<1> DEFINE a == Line("run", root, "none", "none", None, t + 1)
           b == Line("tx", root, op, p, v, t + 1)
<1>1. a \in LogLines /\ b \in LogLines
  BY DEF Line, LogLines, LineKinds, None
<1>2. a.time = t + 1 /\ b.time = t + 1 /\ b.kind = "tx"
  BY DEF Line
<1> HIDE DEF a, b
<1>3. lines = <<a, b>>
  BY DEF a, b
<1>4. lines \in Seq(LogLines) /\ DOMAIN lines = {1, 2} /\ lines[1] = a /\ lines[2] = b /\ lines # <<>>
  BY <1>1, <1>3
<1>5. QED
  BY <1>2, <1>4

LEMMA LogSteps ==
    ASSUME DriftInv, LogInv, [DriftNext]_driftVars
    PROVE  LogInv'
<1>0. now \in Nat /\ packages \in [Names -> PackageStates] /\ session.names \subseteq Names
  BY DEF DriftInv, PackagesInv
<1> DEFINE same == session'.records = session.records
<1>1. CASE UNCHANGED driftVars
  BY <1>1 DEF driftVars, LogInv, IsLog
<1>2. ASSUME same, UNCHANGED <<manifest, scan>>, now' \in {now, now + 1}, IsLog(log', now') PROVE LogInv'
  BY <1>0, <1>2 DEF LogInv
<1>15. ASSUME NEW kind, Spend(kind) PROVE same
  BY <1>15 DEF Spend
<1>3. ASSUME NEW command \in {"write", "diff"}, Begin(command) PROVE LogInv'
  <2>1. UNCHANGED <<session, log, now, manifest>> /\ scan'.read = Read(log)
    BY <1>3 DEF Begin
  <2>2. Read(log).earliest \in Nat /\ Read(log).earliest <= now
    BY <1>0, EarliestIs DEF LogInv
  <2>3. IsLog(log', now')
    BY <2>1 DEF LogInv
  <2>4. QED
    BY <2>1, <2>2, <2>3 DEF LogInv
<1>4. CASE BaselineWrite
  <2>1. UNCHANGED <<session, log, now>> /\ scan'.read = scan.read /\ manifest'.earliest = scan.read.earliest
    BY <1>4 DEF BaselineWrite, Finish, BuildManifest, DriftInv, ScanFields
  <2>2. IsLog(log', now')
    BY <2>1 DEF LogInv
  <2>3. QED
    BY <2>1, <2>2 DEF LogInv
<1>5. CASE BaselineDiff
  <2>1. UNCHANGED <<session, log, now, manifest>> /\ scan'.read = scan.read
    BY <1>5 DEF BaselineDiff, Finish, DriftInv, ScanFields
  <2>2. IsLog(log', now')
    BY <2>1 DEF LogInv
  <2>3. QED
    BY <2>1, <2>2 DEF LogInv
<1>6. ASSUME NEW lines, lines \in Seq(LogLines), lines # <<>>, \A k \in DOMAIN lines : lines[k].time <= now + 1,
             log' = Append2(lines), now' = now + 1, same, UNCHANGED <<manifest, scan>>
      PROVE  LogInv'
  <2>1. PICK l2 : l2 = log'
    OBVIOUS
  <2>2. IsAppended(l2, log, lines)
    BY <1>6, <2>1 DEF IsAppended, Append2
  <2>3. IsLog(l2, now + 1)
    BY <1>0, <1>6, <2>2, LiveIsLog DEF LogInv
  <2>4. QED
    BY <1>2, <1>6, <2>1, <2>3
<1>7. ASSUME NEW p \in session.names, Pacman(p) PROVE LogInv'
  <2>1. PICK new \in States(now + 1) :
            /\ same /\ now' = now + 1 /\ UNCHANGED <<manifest, scan>>
            /\ log' = Append2(<<Line("run", Here, "none", "none", None, now + 1),
                                Line("tx", Here, Op(packages[p], new), p,
                                     IF new.version = None THEN packages[p].version ELSE new.version, now + 1)>>)
    BY <1>7, <1>15 DEF Pacman
  <2>2. PICK v : v = IF new.version = None THEN packages[p].version ELSE new.version
    OBVIOUS
  <2>3. PICK op : op = Op(packages[p], new)
    OBVIOUS
  <2>4. PICK lines : lines = <<Line("run", Here, "none", "none", None, now + 1), Line("tx", Here, op, p, v, now + 1)>>
    OBVIOUS
  <2>5. v \in Versions \cup {None}
    BY <1>0, <2>2 DEF States, NotInstalled, PackageStates
  <2>6. op \in {"installed", "reinstalled", "upgraded", "downgraded", "removed", "none"}
    BY <2>3 DEF Op
  <2>7. lines \in Seq(LogLines) /\ lines # <<>> /\ \A k \in DOMAIN lines : lines[k].time <= now + 1
    BY <1>0, <2>4, <2>5, <2>6, TwoLines
  <2>8. log' = Append2(lines)
    BY <2>1, <2>2, <2>3, <2>4
  <2>9. QED
    BY <1>6, <2>1, <2>7, <2>8
<1>8. ASSUME NEW p \in session.names, Elsewhere(p) PROVE LogInv'
  <2>1. PICK v \in Versions :
            /\ same /\ now' = now + 1 /\ UNCHANGED <<manifest, scan>>
            /\ log' = Append2(<<Line("run", "mnt", "none", "none", None, now + 1),
                                Line("tx", "mnt", "reinstalled", p, v, now + 1)>>)
    BY <1>8, <1>15 DEF Elsewhere
  <2>2. PICK lines : lines = <<Line("run", "mnt", "none", "none", None, now + 1),
                              Line("tx", "mnt", "reinstalled", p, v, now + 1)>>
    OBVIOUS
  <2>3. lines \in Seq(LogLines) /\ lines # <<>> /\ \A k \in DOMAIN lines : lines[k].time <= now + 1
    BY <1>0, <2>2, TwoLines
  <2>4. log' = Append2(lines)
    BY <2>1, <2>2
  <2>5. QED
    BY <1>6, <2>1, <2>3, <2>4
<1>9. ASSUME NEW p \in session.names, Tamper(p) \/ Block(p) PROVE LogInv'
  <2>1. same /\ UNCHANGED <<log, now, manifest, scan>>
    BY <1>9, <1>15 DEF Tamper, Block
  <2>2. QED
    BY <1>2, <2>1 DEF LogInv
<1>10. CASE Rotate
  <2>1. PICK kind \in {"plain", "unsupported", "odd"} :
            /\ Last(log.files).kind = "plain" /\ same /\ UNCHANGED <<now, manifest, scan>>
            /\ log' = [log EXCEPT !.files = Append([@ EXCEPT ![Len(log.files)].kind = kind],
                                                   [kind |-> "absent", lines |-> <<>>])]
    BY <1>10, <1>15 DEF Rotate
  <2>2. PICK l2 : l2 = log'
    OBVIOUS
  <2>3. IsLog(l2, now)
    BY <2>1, <2>2, RotateFades DEF LogInv
  <2>4. QED
    BY <1>2, <2>1, <2>2, <2>3
<1>11. CASE Cut
  <2>1. PICK n \in 1..Lines(Head(log.files)) : IsCut(log', log, n) /\ same /\ UNCHANGED <<now, manifest, scan>>
    BY <1>11, <1>15 DEF Cut, IsCut, Lines
  <2>2. PICK l2 : l2 = log'
    OBVIOUS
  <2>3. n \in 1..Len(Head(log.files).lines) /\ IsCut(l2, log, n)
    BY <2>1, <2>2 DEF Lines
  <2>4. IsLog(l2, now)
    BY <1>0, <2>3, CutFades DEF LogInv
  <2>5. QED
    BY <1>2, <2>1, <2>2, <2>4
<1>12. CASE Garble
  <2>1. PICK kind \in {"unparsed", "overlong", "unknown", "other"} :
            /\ same /\ now' = now + 1 /\ UNCHANGED <<manifest, scan>>
            /\ log' = Append2(<<Line(kind, Here, "none", "none", None, now + 1)>>)
    BY <1>12, <1>15 DEF Garble
  <2>2. PICK line : line = Line(kind, Here, "none", "none", None, now + 1)
    OBVIOUS
  <2>3. line \in LogLines /\ line.time = now + 1
    BY <1>0, <2>2, OneLine DEF LineKinds, Line
  <2>4. PICK lines : lines = <<line>>
    OBVIOUS
  <2>5. lines \in Seq(LogLines) /\ lines # <<>> /\ \A k \in DOMAIN lines : lines[k].time <= now + 1
    BY <1>0, <2>3, <2>4
  <2>6. log' = Append2(lines)
    BY <2>1, <2>2, <2>4
  <2>7. QED
    BY <1>6, <2>1, <2>5, <2>6
<1>13. CASE Shut
  <2>1. PICK i \in DOMAIN log.files, kind \in {"shut", "torn"} :
            /\ log.files[i].kind = "plain" /\ same /\ UNCHANGED <<now, manifest, scan>>
            /\ log' = IF i < Len(log.files) /\ kind = "torn" THEN [log EXCEPT !.listed = FALSE]
                      ELSE [log EXCEPT !.files[i].kind = kind]
    BY <1>13, <1>15 DEF Shut
  <2>2. PICK l2 : l2 = log'
    OBVIOUS
  <2>3. IsLog(l2, now)
    BY <1>0, <2>1, <2>2, ShutFades DEF LogInv
  <2>4. QED
    BY <1>2, <2>1, <2>2, <2>3
<1>14. QED
  BY <1>1, <1>3, <1>4, <1>5, <1>7, <1>8, <1>9, <1>10, <1>11, <1>12, <1>13 DEF DriftNext

(* A transaction that pacman logs was not in the log.                       *)
LoggedIn(l) == UNION {{line \in Range(f.lines) : line.kind = "tx"} : f \in Range(l.files)}

LEMMA AfterConcat ==
    ASSUME NEW S, NEW s \in Seq(S), NEW t \in Seq(S), NEW k \in DOMAIN t
    PROVE  Len(s) + k \in DOMAIN (s \o t) /\ (s \o t)[Len(s) + k] = t[k]
<1>1. PICK n, size : n = Len(s) /\ size = Len(t)
  OBVIOUS
<1>2. n \in Nat /\ size \in Nat /\ k \in 1..size
  BY <1>1
<1>3. n + k \in 1..(n + size) /\ n + k > n /\ (n + k) - n = k
  BY <1>2
<1>4. DOMAIN (s \o t) = 1..(n + size)
  BY <1>1
<1>5. (s \o t)[n + k] = t[(n + k) - n]
  BY <1>1, <1>2, <1>3
<1>6. QED
  BY <1>1, <1>3, <1>4, <1>5

LEMMA NewIsLogged ==
    ASSUME NEW l, NEW at \in Nat, IsLog(l, at), NEW lines \in Seq(LogLines),
           \E k \in DOMAIN lines : lines[k].kind = "tx" /\ lines[k].time = at + 1,
           NEW l2, IsAppended(l2, l, lines)
    PROVE  ~(LoggedIn(l2) \subseteq LoggedIn(l))
<1> DEFINE n == Len(l.files)
           f == l.files[n]
           f2 == Live(f, lines)
<1>1. n \in DOMAIN l.files /\ f \in LogFiles /\ l2.files = [l.files EXCEPT ![n] = f2]
  BY LiveIs DEF IsReplaced
<1>2. f.lines \in Seq(LogLines)
  BY <1>1, FileHas
<1>3. PICK k \in DOMAIN lines : lines[k].kind = "tx" /\ lines[k].time = at + 1
  OBVIOUS
<1>4. f2.lines = f.lines \o lines
  BY DEF Live
<1>5. f2.lines[Len(f.lines) + k] = lines[k] /\ Len(f.lines) + k \in DOMAIN f2.lines
  <2>1. PICK s, s2 : s = f.lines /\ s2 = f2.lines
    OBVIOUS
  <2>2. s \in Seq(LogLines) /\ s2 = s \o lines
    BY <1>2, <1>4, <2>1
  <2>3. Len(s) + k \in DOMAIN (s \o lines) /\ (s \o lines)[Len(s) + k] = lines[k]
    BY <1>3, <2>2, AfterConcat
  <2>4. QED
    BY <2>1, <2>2, <2>3
<1> HIDE DEF f2
<1>6. f2 \in Range(l2.files)
  BY <1>1 DEF Range
<1>7. lines[k] \in Range(f2.lines)
  BY <1>5 DEF Range
<1>8. lines[k] \in LoggedIn(l2)
  BY <1>3, <1>6, <1>7 DEF LoggedIn
<1>9. ASSUME NEW line \in LoggedIn(l) PROVE line.time # at + 1
  <2>1. PICK g \in Range(l.files) : line \in Range(g.lines)
    BY DEF LoggedIn
  <2>2. PICK i \in DOMAIN l.files : g = l.files[i]
    BY <2>1 DEF Range
  <2>3. PICK j \in DOMAIN g.lines : line = g.lines[j]
    BY <2>1 DEF Range
  <2>4. line.time <= at
    BY <2>2, <2>3 DEF IsLog
  <2>5. line.time \in Nat
    <3>1. g.lines \in Seq(LogLines)
      BY <2>2, FilesAre
    <3>2. line \in LogLines
      BY <2>3, <3>1
    <3>3. QED
      BY <3>2 DEF LogLines
  <2>6. QED
    BY <2>4, <2>5
<1>10. QED
  BY <1>3, <1>8, <1>9

(* What a step leaves of the log when it adds no transaction.               *)
LEMMA LogFades ==
    ASSUME DriftInv, LogInv, [DriftNext]_driftVars, Logged' \subseteq Logged, manifest' = manifest
    PROVE  /\ Fades(log', log, now) /\ session'.records = session.records
           /\ (packages' = packages /\ now' \in {now, now + 1}) \/ (log' = log /\ now' = now)
<1>0. now \in Nat /\ packages \in [Names -> PackageStates] /\ session.names \subseteq Names
  BY DEF DriftInv, PackagesInv
<1> DEFINE kept == packages' = packages /\ now' \in {now, now + 1}
           goal == Fades(log', log, now) /\ session'.records = session.records /\ (kept \/ (log' = log /\ now' = now))
<1>1. ASSUME log' = log, now' = now, session'.records = session.records PROVE goal
  BY <1>1 DEF Fades
<1>2. ASSUME NEW kind, Spend(kind) PROVE session'.records = session.records
  BY <1>2 DEF Spend
<1>3. CASE UNCHANGED driftVars
  BY <1>1, <1>3 DEF driftVars
<1>4. CASE (\E command \in {"write", "diff"} : Begin(command)) \/ BaselineWrite \/ BaselineDiff
  BY <1>1, <1>4 DEF Begin, BaselineWrite, BaselineDiff
<1>5. ASSUME NEW p \in session.names, Tamper(p) \/ Block(p) PROVE goal
  BY <1>1, <1>2, <1>5 DEF Tamper, Block
<1>6. ASSUME NEW lines, lines \in Seq(LogLines), \E k \in DOMAIN lines : lines[k].kind = "tx" /\ lines[k].time = now + 1,
             log' = Append2(lines)
      PROVE  FALSE
  <2>1. PICK l2 : l2 = log'
    OBVIOUS
  <2>2. IsAppended(l2, log, lines)
    BY <1>6, <2>1 DEF IsAppended, Append2
  <2>3. ~(LoggedIn(l2) \subseteq LoggedIn(log))
    BY <1>0, <1>6, <2>2, NewIsLogged DEF LogInv
  <2>4. Logged = LoggedIn(log) /\ Logged' = LoggedIn(l2)
    BY <2>1 DEF Logged, LoggedIn
  <2>5. QED
    BY <2>3, <2>4
<1>7. ASSUME NEW p \in session.names, Pacman(p) PROVE FALSE
  <2>1. PICK new \in States(now + 1) :
            log' = Append2(<<Line("run", Here, "none", "none", None, now + 1),
                             Line("tx", Here, Op(packages[p], new), p,
                                  IF new.version = None THEN packages[p].version ELSE new.version, now + 1)>>)
    BY <1>7 DEF Pacman
  <2>2. PICK v : v = IF new.version = None THEN packages[p].version ELSE new.version
    OBVIOUS
  <2>3. PICK op : op = Op(packages[p], new)
    OBVIOUS
  <2>4. PICK lines : lines = <<Line("run", Here, "none", "none", None, now + 1), Line("tx", Here, op, p, v, now + 1)>>
    OBVIOUS
  <2>5. v \in Versions \cup {None}
    BY <1>0, <2>2 DEF States, NotInstalled, PackageStates
  <2>6. op \in {"installed", "reinstalled", "upgraded", "downgraded", "removed", "none"}
    BY <2>3 DEF Op
  <2>7. lines \in Seq(LogLines) /\ \E k \in DOMAIN lines : lines[k].kind = "tx" /\ lines[k].time = now + 1
    BY <1>0, <2>4, <2>5, <2>6, TwoLines, SMTT(30)
  <2>8. log' = Append2(lines)
    BY <2>1, <2>2, <2>3, <2>4
  <2>9. QED
    BY <1>6, <2>7, <2>8
<1>8. ASSUME NEW p \in session.names, Elsewhere(p) PROVE FALSE
  <2>1. PICK v \in Versions :
            log' = Append2(<<Line("run", "mnt", "none", "none", None, now + 1),
                             Line("tx", "mnt", "reinstalled", p, v, now + 1)>>)
    BY <1>8 DEF Elsewhere
  <2>2. PICK lines : lines = <<Line("run", "mnt", "none", "none", None, now + 1),
                              Line("tx", "mnt", "reinstalled", p, v, now + 1)>>
    OBVIOUS
  <2>3. lines \in Seq(LogLines) /\ \E k \in DOMAIN lines : lines[k].kind = "tx" /\ lines[k].time = now + 1
    BY <1>0, <2>2, TwoLines
  <2>4. log' = Append2(lines)
    BY <2>1, <2>2
  <2>5. QED
    BY <1>6, <2>3, <2>4
<1>9. CASE Rotate
  <2>1. PICK kind \in {"plain", "unsupported", "odd"} :
            /\ Last(log.files).kind = "plain" /\ session'.records = session.records /\ UNCHANGED <<now, packages>>
            /\ log' = [log EXCEPT !.files = Append([@ EXCEPT ![Len(log.files)].kind = kind],
                                                   [kind |-> "absent", lines |-> <<>>])]
    BY <1>2, <1>9 DEF Rotate
  <2>2. PICK l2 : l2 = log'
    OBVIOUS
  <2>3. Fades(l2, log, now)
    BY <2>1, <2>2, RotateFades DEF LogInv
  <2>4. QED
    BY <2>1, <2>2, <2>3
<1>10. CASE Cut
  <2>1. PICK n \in 1..Lines(Head(log.files)) :
            IsCut(log', log, n) /\ session'.records = session.records /\ UNCHANGED <<now, packages>>
    BY <1>2, <1>10 DEF Cut, IsCut, Lines
  <2>2. PICK l2 : l2 = log'
    OBVIOUS
  <2>3. n \in 1..Len(Head(log.files).lines) /\ IsCut(l2, log, n)
    BY <2>1, <2>2 DEF Lines
  <2>4. Fades(l2, log, now)
    BY <1>0, <2>3, CutFades DEF LogInv
  <2>5. QED
    BY <2>1, <2>2, <2>4
<1>11. CASE Garble
  <2>1. PICK kind \in {"unparsed", "overlong", "unknown", "other"} :
            /\ now' = now + 1 /\ session'.records = session.records /\ UNCHANGED packages
            /\ log' = Append2(<<Line(kind, Here, "none", "none", None, now + 1)>>)
    BY <1>2, <1>11 DEF Garble
  <2>2. PICK line : line = Line(kind, Here, "none", "none", None, now + 1)
    OBVIOUS
  <2>3. line \in LogLines /\ line.time = now + 1 /\ line.kind # "tx"
    BY <1>0, <2>2, OneLine DEF LineKinds, Line
  <2>4. PICK l2 : l2 = log'
    OBVIOUS
  <2>5. IsAppended(l2, log, <<line>>)
    BY <2>1, <2>2, <2>4 DEF IsAppended, Append2
  <2>6. Fades(l2, log, now)
    BY <1>0, <2>3, <2>5, GarbleFades DEF LogInv
  <2>7. QED
    BY <2>1, <2>4, <2>6
<1>12. CASE Shut
  <2>1. PICK i \in DOMAIN log.files, kind \in {"shut", "torn"} :
            /\ log.files[i].kind = "plain" /\ session'.records = session.records /\ UNCHANGED <<now, packages>>
            /\ log' = IF i < Len(log.files) /\ kind = "torn" THEN [log EXCEPT !.listed = FALSE]
                      ELSE [log EXCEPT !.files[i].kind = kind]
    BY <1>2, <1>12 DEF Shut
  <2>2. PICK l2 : l2 = log'
    OBVIOUS
  <2>3. Fades(l2, log, now)
    BY <1>0, <2>1, <2>2, ShutFades DEF LogInv
  <2>4. QED
    BY <2>1, <2>2, <2>3
<1>13. goal
  BY <1>3, <1>4, <1>5, <1>7, <1>8, <1>9, <1>10, <1>11, <1>12 DEF DriftNext
<1>14. QED
  BY <1>13

(* What was explained neither by the log nor by a record, nor by what the   *)
(* log never covered, is so still.                                          *)
Settled(p, at) == \E r \in DriftRecords : Usable(r, at) /\ r.subject = p

LEMMA UnexplainedIs ==
    ASSUME NEW change, NEW p, NEW cur, NEW m, NEW read, NEW at
    PROVE  Classify(change, p, cur, m, read, at) = "unexplained" <=>
               ~Corroborated(change, p, cur, m, read) /\ ~Settled(p, at) /\ ~CoverageShortfall(cur, m, read)
<1>1. Classify(change, p, cur, m, read, at) =
          IF Corroborated(change, p, cur, m, read) THEN "corroborated"
          ELSE IF Settled(p, at) THEN "adjudicated"
          ELSE IF CoverageShortfall(cur, m, read) THEN "log-coverage-gap"
          ELSE "unexplained"
  BY DEF Classify, Settled
<1>2. QED
  BY <1>1

LEMMA StillUnexplained ==
    ASSUME NEW change, NEW p, NEW cur, NEW cur2, NEW m, NEW read, NEW read2,
           cur2.version = cur.version, cur2.date = cur.date \/ Truncated(m, read),
           read2.entries \subseteq read.entries, Truncated(m, read) => Truncated(m, read2), m.earliest # None,
           ~Corroborated(change, p, cur, m, read), ~CoverageShortfall(cur, m, read)
    PROVE  ~Corroborated(change, p, cur2, m, read2) /\ ~CoverageShortfall(cur2, m, read2)
<1>1. ~Corroborated(change, p, cur2, m, read2)
  BY DEF Corroborated
<1>2. CASE Truncated(m, read)
  BY <1>1, <1>2 DEF CoverageShortfall
<1>3. CASE ~Truncated(m, read) /\ cur2.date = cur.date
  BY <1>1, <1>3 DEF CoverageShortfall
<1>4. QED
  BY <1>1, <1>2, <1>3

LEMMA RecordsExpire ==
    ASSUME LogInv, now \in Nat, now' \in {now, now + 1}, session'.records = session.records, NEW p,
           NEW at, at = now', Settled(p, at)'
    PROVE  Settled(p, now)
<1>1. PICK r \in DriftRecords' : Usable(r, at)' /\ r.subject = p
  BY DEF Settled
<1>2. r \in DriftRecords /\ r.expires \in Nat
  BY <1>1 DEF DriftRecords, LogInv
<1>3. Usable(r, at)
  BY <1>1 DEF Usable
<1>4. Usable(r, now)
  <2>1. r.expires = None \/ now < r.expires
    BY <1>2, <1>3 DEF Usable
  <2>2. QED
    BY <1>3, <2>1 DEF Usable
<1>5. QED
  BY <1>1, <1>2, <1>4 DEF Settled

(* The critical packages, as a set.                                         *)
LEMMA CriticalIs ==
    ASSUME NEW m, NEW read, NEW at, NEW p
    PROVE  (\E i \in Unexplained(m, read, at) : i.package = p) <=>
               /\ p \in Names
               /\ Change(m.packages[p], Seen(p)) \notin {"none", "unread"}
               /\ Classify(Change(m.packages[p], Seen(p)), p, Seen(p), m, read, at) = "unexplained"
<1> DEFINE item(q) == [package |-> q, change |-> Change(m.packages[q], Seen(q)),
                       bucket |-> Classify(Change(m.packages[q], Seen(q)), q, Seen(q), m, read, at)]
<1>1. ASSUME NEW i \in Unexplained(m, read, at), i.package = p
      PROVE  /\ p \in Names
             /\ Change(m.packages[p], Seen(p)) \notin {"none", "unread"}
             /\ Classify(Change(m.packages[p], Seen(p)), p, Seen(p), m, read, at) = "unexplained"
  <2>1. i \in Items(m, read, at) /\ i.bucket = "unexplained"
    BY <1>1 DEF Unexplained
  <2>2. PICK q \in {o \in Names : Change(m.packages[o], Seen(o)) \notin {"none", "unread"}} : i = item(q)
    BY <2>1 DEF Items
  <2>3. i.package = q /\ i.bucket = Classify(Change(m.packages[q], Seen(q)), q, Seen(q), m, read, at)
    BY <2>2
  <2>4. q = p
    BY <1>1, <2>3
  <2>5. QED
    BY <2>1, <2>2, <2>3, <2>4
<1>2. ASSUME p \in Names, Change(m.packages[p], Seen(p)) \notin {"none", "unread"},
             Classify(Change(m.packages[p], Seen(p)), p, Seen(p), m, read, at) = "unexplained"
      PROVE  \E i \in Unexplained(m, read, at) : i.package = p
  <2>1. item(p) \in Items(m, read, at)
    BY <1>2 DEF Items
  <2>2. item(p).package = p /\ item(p).bucket = "unexplained"
    BY <1>2
  <2>3. QED
    BY <2>1, <2>2 DEF Unexplained
<1>3. QED
  BY <1>1, <1>2

(* The same of the step's end.                                              *)
LEMMA CriticalNext ==
    ASSUME NEW m, NEW read, NEW at, NEW p \in Names, NEW change, NEW cur,
           cur = Seen(p)', change = Change(m.packages[p], cur), change \notin {"none", "unread"},
           Classify(change, p, cur, m, read, at)' = "unexplained"
    PROVE  (\E i \in Unexplained(m, read, at) : i.package = p)'
<1>1. PICK i : i = [package |-> p, change |-> change, bucket |-> "unexplained"]
  OBVIOUS
<1>2. i \in Items(m, read, at)'
  BY <1>1 DEF Items
<1>3. i \in Unexplained(m, read, at)'
  BY <1>1, <1>2 DEF Unexplained
<1>4. QED
  BY <1>1, <1>3

(* A step that only conceals: what TruncationBuysNothing is about.          *)
Concealed ==
    /\ manifest.signed /\ manifest' = manifest /\ manifest.earliest # None
    /\ SameContent /\ unread' = unread /\ Logged' \subseteq Logged /\ (SameDates \/ Truncated(manifest, Read(log)))
    /\ "foreign-root" \notin Read(log).gaps /\ Whole(log)

LEMMA NothingIsBought ==
    ASSUME DriftInv, LogInv, DriftInv', LogInv', [DriftNext]_driftVars, Concealed,
           NEW p, \E i \in Unexplained(manifest, Read(log), now) : i.package = p
    PROVE  \E i \in Unexplained(manifest, Read(log), now)' : i.package = p
<1>0. now \in Nat /\ now' \in Nat /\ packages \in [Names -> PackageStates] /\ packages' \in [Names -> PackageStates]
  BY DEF DriftInv, PackagesInv
<1>1. /\ Fades(log', log, now) /\ session'.records = session.records /\ manifest' = manifest
      /\ now' \in {now, now + 1}
  BY LogFades DEF Concealed
<1>2. PICK l2, m, at : l2 = log' /\ m = manifest' /\ at = now'
  OBVIOUS
<1>3. IsLog(log, now) /\ IsLog(l2, at) /\ m.earliest \in Nat \ {None} /\ m.earliest <= now /\ m = manifest
  BY <1>1, <1>2 DEF LogInv, Concealed
<1>4. PICK read, read2 : read = Read(log) /\ read2 = Read(l2)
  OBVIOUS
<1>5. read2.entries \subseteq read.entries /\ (Truncated(m, read) => Truncated(m, read2))
  <2>1. Whole(log) /\ "foreign-root" \notin Read(log).gaps /\ at \in Nat /\ Fades(l2, log, now)
    BY <1>0, <1>1, <1>2 DEF Concealed
  <2>2. Read(l2).entries \subseteq Read(log).entries /\ (Truncated(m, Read(log)) => Truncated(m, Read(l2)))
    BY <1>0, <1>2, <1>3, <2>1, LessIsRead
  <2>3. QED
    BY <1>4, <2>2
<1>6. PICK cur, cur2 : cur = Seen(p) /\ cur2 = Seen(p)'
  OBVIOUS
<1>7. PICK change : change = Change(m.packages[p], cur)
  OBVIOUS
<1>8. p \in Names /\ change \notin {"none", "unread"} /\ Classify(change, p, cur, m, read, now) = "unexplained"
  <2>1. \E i \in Unexplained(m, read, now) : i.package = p
    BY <1>3, <1>4
  <2>2. QED
    BY <1>6, <1>7, <2>1, CriticalIs
<1>9. /\ cur2.version = cur.version /\ cur2.digest = cur.digest /\ (cur2.date = cur.date \/ Truncated(m, read))
  <2>1. packages[p] \in PackageStates /\ packages'[p] \in PackageStates
    BY <1>0, <1>8
  <2>2. packages'[p].version = packages[p].version /\ packages'[p].digest = packages[p].digest
    BY <1>8 DEF Concealed, SameContent
  <2>3. packages'[p].date = packages[p].date \/ Truncated(m, read)
    BY <1>3, <1>4, <1>8 DEF Concealed, SameDates
  <2>4. unread' = unread
    BY DEF Concealed
  <2>5. QED
    BY <1>6, <2>1, <2>2, <2>3, <2>4 DEF Seen, PackageStates
<1>10. Change(m.packages[p], cur2) = change
  BY <1>7, <1>9 DEF Change
<1>11. ~Corroborated(change, p, cur, m, read) /\ ~Settled(p, now) /\ ~CoverageShortfall(cur, m, read)
  BY <1>8, UnexplainedIs
<1>12. ~Corroborated(change, p, cur2, m, read2) /\ ~CoverageShortfall(cur2, m, read2)
  <2>1. m.earliest # None
    BY <1>3
  <2>2. QED
    BY <1>5, <1>9, <1>11, <2>1, StillUnexplained
<1>13. ~Settled(p, at)'
  BY <1>0, <1>1, <1>2, <1>11, RecordsExpire
<1>14. (Classify(change, p, cur2, m, read2, at) = "unexplained")'
  <2>1. Classify(change, p, cur2, m, read2, at)' =
            IF Corroborated(change, p, cur2, m, read2) THEN "corroborated"
            ELSE IF Settled(p, at)' THEN "adjudicated"
            ELSE IF CoverageShortfall(cur2, m, read2) THEN "log-coverage-gap"
            ELSE "unexplained"
    BY DEF Classify, Settled, Corroborated, CoverageShortfall, Truncated
  <2>2. QED
    BY <1>12, <1>13, <2>1
<1>15. (\E i \in Unexplained(m, read2, at) : i.package = p)'
  BY <1>6, <1>8, <1>10, <1>14, CriticalNext
<1>16. Unexplained(manifest, Read(log), now)' = Unexplained(m, read2, at)'
  BY <1>2, <1>4 DEF Unexplained, Items, Classify, Corroborated, CoverageShortfall, Truncated
<1>17. QED
  BY <1>15, <1>16

StaysCritical ==
    Concealed => Critical(Read(log)) \subseteq {i.package : i \in Unexplained(manifest, Read(log), now)'}

LEMMA BuysNothing ==
    DriftInv /\ LogInv /\ DriftInv' /\ LogInv' /\ [DriftNext]_driftVars => [StaysCritical]_<<packages, log>>
<1> SUFFICES ASSUME DriftInv, LogInv, DriftInv', LogInv', [DriftNext]_driftVars, Concealed,
                    NEW p \in Critical(Read(log))
             PROVE  p \in {i.package : i \in Unexplained(manifest, Read(log), now)'}
  BY DEF StaysCritical
<1>1. \E i \in Unexplained(manifest, Read(log), now) : i.package = p
  BY DEF Critical
<1>2. \E i \in Unexplained(manifest, Read(log), now)' : i.package = p
  BY <1>1, NothingIsBought
<1>3. QED
  BY <1>2

-----------------------------------------------------------------------------
(* A transaction that leaves a package as it is now.                        *)
Leaves(op, version, cur) ==
    IF cur.version = None THEN op = "removed"
    ELSE op \in {"installed", "reinstalled", "upgraded", "downgraded"} /\ version = cur.version

LinesOf(l, i) == l.files[i].lines

(* Line k of file i is such a transaction, of this root and later than an   *)
(* instant, and so is every line behind it.                                 *)
Behind(l, i, k, since) ==
    \A j \in DOMAIN l.files : \A h \in DOMAIN LinesOf(l, j) :
        j > i \/ (j = i /\ h > k) => LinesOf(l, j)[h].time > since

Accounts(l, i, k, p, cur, since) ==
    /\ i \in DOMAIN l.files /\ k \in DOMAIN LinesOf(l, i)
    /\ LinesOf(l, i)[k].kind = "tx" /\ LinesOf(l, i)[k].pkg = p /\ LinesOf(l, i)[k].time > since
    /\ Leaves(LinesOf(l, i)[k].op, LinesOf(l, i)[k].version, cur)
    /\ RootAt(LinesOf(l, i), k) = Here
    /\ Behind(l, i, k, since)

(* Or it is gone, and with it all that was before it.                       *)
Gone(l, since) == \A j \in DOMAIN l.files : \A h \in DOMAIN LinesOf(l, j) : LinesOf(l, j)[h].time > since

Accounted(l, p, cur, since) == Gone(l, since) \/ \E i \in DOMAIN l.files : \E k \in DOMAIN LinesOf(l, i) : Accounts(l, i, k, p, cur, since)

(* What a log that only grows accounts for, it still does.                  *)
Grown(l2, l, since) ==
    /\ DOMAIN l.files \subseteq DOMAIN l2.files
    /\ \A i \in DOMAIN l.files : \A k \in DOMAIN LinesOf(l, i) :
           k \in DOMAIN LinesOf(l2, i) /\ LinesOf(l2, i)[k] = LinesOf(l, i)[k]
    /\ \A j \in DOMAIN l2.files : \A h \in DOMAIN LinesOf(l2, j) :
           (j \in DOMAIN l.files /\ h \in DOMAIN LinesOf(l, j)) \/ LinesOf(l2, j)[h].time > since

LEMMA LinesAre ==
    ASSUME NEW l, NEW at, IsLog(l, at)
    PROVE  \A i \in DOMAIN l.files : /\ LinesOf(l, i) \in Seq(LogLines) /\ Len(LinesOf(l, i)) \in Nat
                                     /\ DOMAIN LinesOf(l, i) = 1..Len(LinesOf(l, i))
                                     /\ \A k \in DOMAIN LinesOf(l, i) :
                                            LinesOf(l, i)[k] \in LogLines /\ LinesOf(l, i)[k].time \in Nat
<1>1. ASSUME NEW i \in DOMAIN l.files PROVE LinesOf(l, i) \in Seq(LogLines)
  BY FilesAre DEF LinesOf
<1>2. ASSUME NEW i \in DOMAIN l.files, NEW k \in DOMAIN LinesOf(l, i)
      PROVE  LinesOf(l, i)[k] \in LogLines /\ LinesOf(l, i)[k].time \in Nat
  <2>1. LinesOf(l, i)[k] \in LogLines
    BY <1>1
  <2>2. QED
    BY <2>1 DEF LogLines
<1>3. QED
  BY <1>1, <1>2

LEMMA GrownAccounts ==
    ASSUME NEW l, NEW at, IsLog(l, at), NEW l2, NEW since, Grown(l2, l, since), NEW p, NEW cur,
           Accounted(l, p, cur, since)
    PROVE  Accounted(l2, p, cur, since)
<1>1. CASE Gone(l, since)
  <2>1. ASSUME NEW j \in DOMAIN l2.files, NEW h \in DOMAIN LinesOf(l2, j) PROVE LinesOf(l2, j)[h].time > since
    BY <1>1 DEF Gone, Grown
  <2>2. QED
    BY <2>1 DEF Gone, Accounted
<1>2. ASSUME NEW i \in DOMAIN l.files, NEW k \in DOMAIN LinesOf(l, i), Accounts(l, i, k, p, cur, since)
      PROVE  Accounted(l2, p, cur, since)
  <2>1. i \in DOMAIN l2.files /\ k \in DOMAIN LinesOf(l2, i) /\ LinesOf(l2, i)[k] = LinesOf(l, i)[k]
    BY <1>2 DEF Grown
  <2>2. k \in Nat /\ \A h \in 1..k : h \in DOMAIN LinesOf(l, i)
    <3>1. DOMAIN LinesOf(l, i) = 1..Len(LinesOf(l, i)) /\ Len(LinesOf(l, i)) \in Nat
      BY LinesAre
    <3>2. QED
      BY <3>1
  <2>3. \A h \in 1..k : LinesOf(l2, i)[h] = LinesOf(l, i)[h]
    BY <2>2 DEF Grown
  <2>4. RootAt(LinesOf(l2, i), k) = RootAt(LinesOf(l, i), k)
    BY <2>2, <2>3, SameRoot
  <2>5. ASSUME NEW j \in DOMAIN l2.files, NEW h \in DOMAIN LinesOf(l2, j), j > i \/ (j = i /\ h > k)
        PROVE  LinesOf(l2, j)[h].time > since
    <3>1. CASE j \in DOMAIN l.files /\ h \in DOMAIN LinesOf(l, j)
      <4>1. LinesOf(l2, j)[h] = LinesOf(l, j)[h]
        BY <3>1 DEF Grown
      <4>2. LinesOf(l, j)[h].time > since
        BY <1>2, <2>5, <3>1 DEF Accounts, Behind
      <4>3. QED
        BY <4>1, <4>2
    <3>2. QED
      BY <3>1 DEF Grown
  <2>6. Behind(l2, i, k, since)
    BY <2>5 DEF Behind
  <2>7. Accounts(l2, i, k, p, cur, since)
    BY <1>2, <2>1, <2>4, <2>6 DEF Accounts
  <2>8. QED
    BY <2>1, <2>7 DEF Accounted
<1>3. QED
  BY <1>1, <1>2 DEF Accounted

(* Lines are added to the live file.                                        *)
LEMMA AppendedGrows ==
    ASSUME NEW l, NEW at \in Nat, IsLog(l, at), NEW lines \in Seq(LogLines), NEW since,
           \A k \in DOMAIN lines : lines[k].time > since,
           NEW l2, IsAppended(l2, l, lines)
    PROVE  Grown(l2, l, since)
<1> DEFINE n == Len(l.files)
           f == l.files[n]
<1>1. n \in DOMAIN l.files /\ f \in LogFiles /\ l2.files = [l.files EXCEPT ![n] = Live(f, lines)]
  BY LiveIs DEF IsReplaced
<1>2. DOMAIN l2.files = DOMAIN l.files /\ LinesOf(l2, n) = LinesOf(l, n) \o lines
      /\ \A j \in DOMAIN l.files : j # n => LinesOf(l2, j) = LinesOf(l, j)
  <2>1. PICK g : g = Live(f, lines)
    OBVIOUS
  <2>2. g.lines = f.lines \o lines
    BY <2>1 DEF Live
  <2>3. l2.files = [l.files EXCEPT ![n] = g]
    BY <1>1, <2>1
  <2>4. DOMAIN l2.files = DOMAIN l.files /\ l2.files[n] = g /\ \A j \in DOMAIN l.files : j # n => l2.files[j] = l.files[j]
    BY <1>1, <2>3
  <2>5. QED
    BY <2>2, <2>4 DEF LinesOf
<1>3. PICK s : s = LinesOf(l, n)
  OBVIOUS
<1>4. s \in Seq(LogLines)
  BY <1>1, <1>3, LinesAre
<1>5. \A k \in DOMAIN s : k \in DOMAIN (s \o lines) /\ (s \o lines)[k] = s[k]
  BY <1>4
<1>6. ASSUME NEW h \in DOMAIN (s \o lines), h \notin DOMAIN s PROVE (s \o lines)[h].time > since
  <2>1. PICK a, b : a = Len(s) /\ b = Len(lines)
    OBVIOUS
  <2>2. a \in Nat /\ b \in Nat /\ DOMAIN s = 1..a /\ DOMAIN (s \o lines) = 1..(a + b) /\ DOMAIN lines = 1..b
    BY <1>4, <2>1
  <2>3. h \in 1..(a + b) /\ h > a /\ h - a \in 1..b
    BY <1>6, <2>2
  <2>4. (s \o lines)[h] = lines[h - a]
    BY <1>4, <2>1, <2>2, <2>3
  <2>5. QED
    BY <2>2, <2>3, <2>4
<1> HIDE DEF n, f
<1>7. \A i \in DOMAIN l.files : \A k \in DOMAIN LinesOf(l, i) :
          k \in DOMAIN LinesOf(l2, i) /\ LinesOf(l2, i)[k] = LinesOf(l, i)[k]
  BY <1>2, <1>3, <1>5
<1>8. ASSUME NEW j \in DOMAIN l2.files, NEW h \in DOMAIN LinesOf(l2, j)
      PROVE  (j \in DOMAIN l.files /\ h \in DOMAIN LinesOf(l, j)) \/ LinesOf(l2, j)[h].time > since
  <2>1. CASE j # n
    BY <1>2, <1>8, <2>1
  <2>2. CASE j = n
    BY <1>2, <1>3, <1>6, <1>8, <2>2
  <2>3. QED
    BY <2>1, <2>2
<1>9. QED
  BY <1>2, <1>7, <1>8 DEF Grown

(* The live file becomes a sibling; a file or the directory is shut.        *)
LEMMA RotateGrows ==
    ASSUME NEW l, NEW at, IsLog(l, at), NEW kind, NEW since,
           NEW l2, l2 = [l EXCEPT !.files = Append([@ EXCEPT ![Len(l.files)].kind = kind],
                                                   [kind |-> "absent", lines |-> <<>>])]
    PROVE  Grown(l2, l, since)
<1> DEFINE n == Len(l.files)
           turned == [l.files EXCEPT ![n].kind = kind]
           live == [kind |-> "absent", lines |-> <<>>]
<1>1. n \in Nat \ {0} /\ l.files \in Seq(LogFiles) /\ DOMAIN l.files = 1..n /\ DOMAIN l = {"files", "listed"}
      /\ l.files[n] \in LogFiles
  BY FilesAre DEF IsLog
<1>2. l2.files = Append(turned, live)
  BY <1>1
<1>3. turned = [l.files EXCEPT ![n] = [l.files[n] EXCEPT !.kind = kind]]
  OBVIOUS
<1>4. [l.files[n] EXCEPT !.kind = kind] = [kind |-> kind, lines |-> l.files[n].lines]
  BY <1>1, FileChanged
<1>5. PICK new : new = [kind |-> kind, lines |-> l.files[n].lines]
  OBVIOUS
<1>6. turned = [l.files EXCEPT ![n] = new] /\ new.lines = l.files[n].lines
  BY <1>3, <1>4, <1>5
<1> HIDE DEF turned
<1>7. DOMAIN turned = 1..n /\ turned \in Seq(LogFiles \cup {new}) /\ Len(turned) = n
  <2>1. l.files \in Seq(LogFiles \cup {new})
    BY <1>1
  <2>2. turned \in Seq(LogFiles \cup {new}) /\ Len(turned) = n
    BY <1>1, <1>6, <2>1
  <2>3. QED
    BY <2>2
<1>8. \A i \in 1..n : turned[i].lines = l.files[i].lines
  BY <1>1, <1>6
<1>9. DOMAIN l2.files = 1..(n + 1) /\ l2.files[n + 1] = live /\ \A i \in 1..n : l2.files[i] = turned[i]
  BY <1>1, <1>2, <1>7
<1>10. \A i \in 1..n : LinesOf(l2, i) = LinesOf(l, i)
  BY <1>8, <1>9 DEF LinesOf
<1>11. LinesOf(l2, n + 1) = <<>>
  BY <1>9 DEF LinesOf
<1>12. \A j \in DOMAIN l2.files : j \in 1..n \/ j = n + 1
  BY <1>1, <1>9
<1>13. DOMAIN LinesOf(l2, n + 1) = {}
  BY <1>11
<1>14. 1..n \subseteq 1..(n + 1)
  BY <1>1
<1> HIDE DEF n, live
<1>15. QED
  BY <1>1, <1>9, <1>10, <1>12, <1>13, <1>14 DEF Grown

LEMMA ShutGrows ==
    ASSUME NEW l, NEW at, IsLog(l, at), NEW i \in DOMAIN l.files, NEW kind, NEW since,
           NEW l2, l2 = IF i < Len(l.files) /\ kind = "torn" THEN [l EXCEPT !.listed = FALSE]
                        ELSE [l EXCEPT !.files[i].kind = kind]
    PROVE  Grown(l2, l, since)
<1>1. l.files \in Seq(LogFiles) /\ DOMAIN l = {"files", "listed"} /\ l.files[i] \in LogFiles
  BY DEF IsLog
<1>2. CASE i < Len(l.files) /\ kind = "torn"
  <2>1. l2.files = l.files
    BY <1>1, <1>2
  <2>2. QED
    BY <2>1 DEF Grown, LinesOf
<1>3. CASE ~(i < Len(l.files) /\ kind = "torn")
  <2>1. l2.files = [l.files EXCEPT ![i] = [l.files[i] EXCEPT !.kind = kind]]
    BY <1>1, <1>3
  <2>2. [l.files[i] EXCEPT !.kind = kind].lines = l.files[i].lines
    BY <1>1, FileChanged, ZenonT(40)
  <2>3. DOMAIN l2.files = DOMAIN l.files /\ \A j \in DOMAIN l.files : LinesOf(l2, j) = LinesOf(l, j)
    BY <2>1, <2>2 DEF LinesOf
  <2>4. QED
    BY <2>3 DEF Grown
<1>4. QED
  BY <1>2, <1>3

(* The first lines of a file are gone, or the file is.                      *)
LEMMA RootAfterCut ==
    ASSUME NEW s, NEW n \in Nat, NEW k \in Nat, NEW t, \A h \in 1..k : t[h] = s[h + n], RootAt(s, k + n) = Here,
           NEW size \in Nat, k + n <= size
    PROVE  RootAt(t, k) = Here
<1> DEFINE rs == {h \in 1..k : t[h].kind = "run"}
           all == {h \in 1..(k + n) : s[h].kind = "run"}
<1>1. CASE rs = {}
  BY <1>1 DEF RootAt
<1>2. CASE rs # {}
  <2>1. rs \subseteq 1..k /\ all \subseteq 1..(k + n) /\ k + n \in Nat
    OBVIOUS
  <2>2. \A h \in rs : h + n \in all
    OBVIOUS
  <2>3. \A h \in all : h > n => h - n \in rs
    <3>1. TAKE h \in all
    <3>2. HAVE h > n
    <3>3. h - n \in 1..k /\ (h - n) + n = h /\ s[h].kind = "run"
      BY <3>2
    <3>4. t[h - n] = s[h]
      BY <3>3
    <3>5. QED
      BY <3>3, <3>4
  <2>4. RootAt(t, k) = t[Max(rs)].root /\ RootAt(s, k + n) = IF all = {} THEN Here ELSE s[Max(all)].root
    BY <1>2 DEF RootAt
  <2>5. ASSUME NEW h \in rs PROVE h \in 1..k /\ t[h] = s[h + n]
    OBVIOUS
  <2> HIDE DEF rs, all
  <2>6. Max(rs) \in rs /\ \A x \in rs : x <= Max(rs)
    BY <1>2, <2>1, MaxIs
  <2>7. all # {}
    BY <1>2, <2>2
  <2>8. Max(all) \in all /\ \A x \in all : x <= Max(all)
    BY <2>1, <2>7, MaxIs
  <2>9. PICK a, b : a = Max(rs) /\ b = Max(all)
    OBVIOUS
  <2>10. a \in 1..k /\ b \in 1..(k + n) /\ a + n <= b
    BY <2>1, <2>2, <2>6, <2>8, <2>9
  <2>11. b - n \in rs
    BY <2>3, <2>8, <2>9, <2>10
  <2>12. b - n <= a
    BY <2>6, <2>9, <2>11
  <2>13. a + n = b
    BY <2>10, <2>12
  <2>14. t[a] = s[b]
    BY <2>5, <2>6, <2>9, <2>13
  <2>15. QED
    BY <2>4, <2>7, <2>9, <2>14
<1>3. QED
  BY <1>1, <1>2

LEMMA CutAccounts ==
    ASSUME NEW l, NEW at \in Nat, IsLog(l, at), NEW n \in 1..Len(Head(l.files).lines), NEW l2, IsCut(l2, l, n),
           NEW p, NEW cur, NEW since, Accounted(l, p, cur, since)
    PROVE  Accounted(l2, p, cur, since)
<1>1. PICK f : f = l.files[1]
  OBVIOUS
<1>2. /\ Len(l.files) \in Nat \ {0} /\ l.files \in Seq(LogFiles) /\ DOMAIN l.files = 1..Len(l.files)
      /\ DOMAIN l = {"files", "listed"} /\ Head(l.files) = f /\ f \in LogFiles /\ 1 \in DOMAIN l.files
  BY <1>1, FilesAre DEF IsLog
<1>3. CASE n = Len(f.lines) /\ Len(l.files) > 1
  <2>1. l2 = [l EXCEPT !.files = Tail(@)]
    BY <1>2, <1>3 DEF IsCut
  <2>2. IsTail(l2, l)
    BY <1>2, <2>1 DEF IsTail
  <2>3. PICK size : size = Len(l.files)
    OBVIOUS
  <2>4. size \in Nat /\ size > 1 /\ DOMAIN l.files = 1..size
    BY <1>2, <1>3, <2>3
  <2>5. DOMAIN l2.files = 1..(size - 1) /\ \A i \in 1..(size - 1) : l2.files[i] = l.files[i + 1]
    BY <1>3, <2>2, <2>3, TailIs DEF Tailed
  <2>6. \A i \in 1..(size - 1) : i + 1 \in 1..size /\ LinesOf(l2, i) = LinesOf(l, i + 1)
    BY <2>4, <2>5 DEF LinesOf
  <2>7. CASE Gone(l, since)
    <3>1. Gone(l2, since)
      BY <2>4, <2>5, <2>6, <2>7 DEF Gone
    <3>2. QED
      BY <3>1 DEF Accounted
  <2>8. ASSUME NEW i \in DOMAIN l.files, NEW k \in DOMAIN LinesOf(l, i), Accounts(l, i, k, p, cur, since)
        PROVE  Accounted(l2, p, cur, since)
    <3>1. i \in 1..size
      BY <2>4
    <3>2. CASE i = 1
      <4>1. ASSUME NEW j \in 1..(size - 1), NEW h \in DOMAIN LinesOf(l2, j) PROVE LinesOf(l2, j)[h].time > since
        <5>1. j + 1 \in DOMAIN l.files /\ j + 1 > i /\ LinesOf(l2, j) = LinesOf(l, j + 1)
          BY <2>4, <2>6, <3>2
        <5>2. QED
          BY <2>8, <5>1 DEF Accounts, Behind
      <4>2. Gone(l2, since)
        BY <2>5, <4>1 DEF Gone
      <4>3. QED
        BY <4>2 DEF Accounted
    <3>3. CASE i # 1
      <4>1. PICK i2 : i2 = i - 1
        OBVIOUS
      <4>2. i2 \in 1..(size - 1) /\ i2 + 1 = i /\ i2 \in DOMAIN l2.files
        BY <2>4, <2>5, <3>1, <3>3, <4>1
      <4>3. LinesOf(l2, i2) = LinesOf(l, i)
        BY <2>6, <4>2
      <4>4. ASSUME NEW j \in DOMAIN l2.files, NEW h \in DOMAIN LinesOf(l2, j), j > i2 \/ (j = i2 /\ h > k)
            PROVE  LinesOf(l2, j)[h].time > since
        <5>1. j + 1 \in DOMAIN l.files /\ (j + 1 > i \/ (j + 1 = i /\ h > k)) /\ LinesOf(l2, j) = LinesOf(l, j + 1)
          BY <2>4, <2>5, <2>6, <4>2, <4>4
        <5>2. QED
          BY <2>8, <4>4, <5>1 DEF Accounts, Behind
      <4>5. Behind(l2, i2, k, since)
        BY <4>4 DEF Behind
      <4>6. Accounts(l2, i2, k, p, cur, since)
        BY <2>8, <4>2, <4>3, <4>5 DEF Accounts
      <4>7. QED
        BY <2>8, <4>2, <4>3, <4>6 DEF Accounted
    <3>4. QED
      BY <3>2, <3>3
  <2>9. QED
    BY <2>7, <2>8 DEF Accounted
<1>4. CASE ~(n = Len(f.lines) /\ Len(l.files) > 1)
  <2>1. l2 = [l EXCEPT !.files[1].lines = SubSeq(@, n + 1, Len(@))]
    BY <1>2, <1>4 DEF IsCut
  <2>2. l2.files = [l.files EXCEPT ![1] = [f EXCEPT !.lines = SubSeq(f.lines, n + 1, Len(f.lines))]]
    BY <1>1, <1>2, <2>1
  <2>3. [f EXCEPT !.lines = SubSeq(f.lines, n + 1, Len(f.lines))].lines = SubSeq(f.lines, n + 1, Len(f.lines))
    BY <1>2, FileChanged
  <2>4. /\ DOMAIN l2.files = DOMAIN l.files /\ \A j \in DOMAIN l.files : j # 1 => LinesOf(l2, j) = LinesOf(l, j)
        /\ LinesOf(l2, 1) = SubSeq(f.lines, n + 1, Len(f.lines))
    BY <1>2, <2>2, <2>3 DEF LinesOf
  <2>5. PICK s, t : s = f.lines /\ t = LinesOf(l2, 1)
    OBVIOUS
  <2>6. LinesOf(l, 1) = s /\ s \in Seq(LogLines) /\ n \in 1..Len(s) /\ t = SubSeq(s, n + 1, Len(s))
    BY <1>1, <1>2, <2>4, <2>5, LinesAre DEF LinesOf
  <2>7. \A k \in DOMAIN t : t[k] = s[k + n] /\ k + n \in DOMAIN s
    BY <2>6, AfterCut
  <2>8. PICK size : size = Len(s)
    OBVIOUS
  <2>9. size \in Nat /\ n \in 1..size /\ DOMAIN s = 1..size /\ DOMAIN t = 1..(size - n)
    BY <2>6, <2>8
  <2>10. CASE Gone(l, since)
    <3>1. ASSUME NEW j \in DOMAIN l2.files, NEW h \in DOMAIN LinesOf(l2, j) PROVE LinesOf(l2, j)[h].time > since
      <4>1. CASE j = 1
        BY <1>2, <2>5, <2>6, <2>7, <2>10, <3>1, <4>1 DEF Gone
      <4>2. CASE j # 1
        BY <2>4, <2>10, <3>1, <4>2 DEF Gone
      <4>3. QED
        BY <4>1, <4>2
    <3>2. QED
      BY <3>1 DEF Accounted, Gone
  <2>11. ASSUME NEW i \in DOMAIN l.files, NEW k \in DOMAIN LinesOf(l, i), Accounts(l, i, k, p, cur, since)
         PROVE  Accounted(l2, p, cur, since)
    <3>1. \A j \in DOMAIN l.files : \A h \in DOMAIN LinesOf(l, j) :
              j > i \/ (j = i /\ h > k) => LinesOf(l, j)[h].time > since
      BY <2>11 DEF Accounts, Behind
    <3>2. i \in Nat \ {0}
      BY <1>2
    <3>3. CASE i # 1
      <4>1. LinesOf(l2, i) = LinesOf(l, i) /\ i \in DOMAIN l2.files
        BY <2>4, <3>3
      <4>2. ASSUME NEW j \in DOMAIN l2.files, NEW h \in DOMAIN LinesOf(l2, j), j > i \/ (j = i /\ h > k)
            PROVE  LinesOf(l2, j)[h].time > since
        <5>1. j # 1
          BY <3>2, <3>3, <4>2
        <5>2. QED
          BY <2>4, <3>1, <4>2, <5>1
      <4>3. Behind(l2, i, k, since)
        BY <4>2 DEF Behind
      <4>4. Accounts(l2, i, k, p, cur, since)
        BY <2>11, <4>1, <4>3 DEF Accounts
      <4>5. QED
        BY <2>11, <4>1, <4>4 DEF Accounted
    <3>4. CASE i = 1 /\ k <= n
      <4>1. ASSUME NEW j \in DOMAIN l2.files, NEW h \in DOMAIN LinesOf(l2, j) PROVE LinesOf(l2, j)[h].time > since
        <5>1. CASE j = 1
          <6>1. h \in 1..(size - n) /\ h + n > k /\ LinesOf(l2, j)[h] = s[h + n] /\ h + n \in DOMAIN s
            <7>1. k \in 1..size
              BY <2>6, <2>9, <2>11, <3>4
            <7>2. QED
              BY <2>5, <2>7, <2>9, <3>4, <4>1, <5>1, <7>1
          <6>2. QED
            BY <1>2, <2>6, <3>1, <3>4, <6>1
        <5>2. CASE j # 1
          <6>1. j > 1 /\ LinesOf(l2, j) = LinesOf(l, j) /\ j \in DOMAIN l.files
            BY <1>2, <2>4, <5>2
          <6>2. QED
            BY <3>1, <3>4, <4>1, <6>1
        <5>3. QED
          BY <5>1, <5>2
      <4>2. QED
        BY <4>1 DEF Gone, Accounted
    <3>5. CASE i = 1 /\ k > n
      <4>1. PICK k2 : k2 = k - n
        OBVIOUS
      <4>2. k2 \in 1..(size - n) /\ k2 + n = k /\ k \in 1..size /\ k2 \in Nat
        <5>1. k \in 1..size
          BY <2>6, <2>9, <2>11, <3>5
        <5>2. QED
          BY <2>9, <3>5, <4>1, <5>1
      <4>3. t[k2] = s[k] /\ k2 \in DOMAIN t
        BY <2>7, <2>9, <4>2
      <4>4. RootAt(t, k2) = Here
        <5>1. RootAt(s, k2 + n) = Here
          BY <2>6, <2>11, <3>5, <4>2 DEF Accounts
        <5>2. \A h \in 1..k2 : t[h] = s[h + n]
          BY <2>7, <2>9, <4>2
        <5>3. n \in Nat /\ k2 + n <= size
          BY <2>9, <4>2
        <5>4. QED
          BY <2>9, <4>2, <5>1, <5>2, <5>3, RootAfterCut
      <4>5. ASSUME NEW j \in DOMAIN l2.files, NEW h \in DOMAIN LinesOf(l2, j), j > 1 \/ (j = 1 /\ h > k2)
            PROVE  LinesOf(l2, j)[h].time > since
        <5>1. CASE j = 1
          <6>1. h \in 1..(size - n) /\ h > k2 /\ h + n > k /\ LinesOf(l2, j)[h] = s[h + n] /\ h + n \in DOMAIN s
            BY <2>5, <2>7, <2>9, <4>2, <4>5, <5>1
          <6>2. QED
            BY <1>2, <2>6, <3>1, <3>5, <6>1
        <5>2. CASE j # 1
          <6>1. j > 1 /\ LinesOf(l2, j) = LinesOf(l, j) /\ j \in DOMAIN l.files
            BY <1>2, <2>4, <5>2
          <6>2. QED
            BY <3>1, <3>5, <4>5, <6>1
        <5>3. QED
          BY <5>1, <5>2
      <4>6. Behind(l2, 1, k2, since)
        BY <4>5 DEF Behind
      <4>7. 1 \in DOMAIN l2.files /\ LinesOf(l2, 1) = t /\ LinesOf(l, 1) = s
        BY <1>2, <2>4, <2>5, <2>6
      <4>8. Accounts(l2, 1, k2, p, cur, since)
        BY <2>11, <3>5, <4>3, <4>4, <4>6, <4>7 DEF Accounts
      <4>9. QED
        BY <4>3, <4>7, <4>8 DEF Accounted
    <3>6. QED
      <4>1. k \in Nat /\ n \in Nat
        <5>1. k \in DOMAIN LinesOf(l, i) /\ DOMAIN LinesOf(l, i) = 1..Len(LinesOf(l, i)) /\ Len(LinesOf(l, i)) \in Nat
          BY <2>11, LinesAre
        <5>2. QED
          BY <2>9, <5>1
      <4>2. QED
        BY <3>3, <3>4, <3>5, <4>1
  <2>12. QED
    BY <2>10, <2>11 DEF Accounted
<1>5. QED
  BY <1>3, <1>4

(* What a log accounts for is read, or the report says what was not.        *)
Shortcomings == {"sibling", "bound", "absent", "unparsed", "foreign-root"}

ReadShows(read, p, cur, since) ==
    \/ read.gaps \cap Shortcomings # {}
    \/ read.earliest = None \/ read.earliest > since
    \/ \E tx \in read.entries : tx.pkg = p /\ tx.time >= since /\ Leaves(tx.op, tx.version, cur)

LEMMA GapsAre ==
    ASSUME NEW l
    PROVE  /\ DiscoveryGaps(l) \subseteq Read(l).gaps
           /\ \A i \in Kept(l) : FileGaps(l.files[i]) \subseteq Read(l).gaps
<1> DEFINE files == {l.files[i] : i \in Kept(l)}
<1>1. DiscoveryGaps(l) \cup (UNION {FileGaps(f) : f \in files}) \subseteq Read(l).gaps
  BY DEF Read
<1>2. QED
  BY <1>1

LEMMA WithoutGaps ==
    ASSUME NEW l, NEW at, IsLog(l, at), Read(l).gaps \cap Shortcomings = {},
           NEW i \in DOMAIN l.files, LinesOf(l, i) # <<>>
    PROVE  i \in Kept(l) /\ l.files[i].kind # "shut" /\ Len(LinesOf(l, i)) <= MaxLines
<1>1. /\ Len(l.files) \in Nat \ {0} /\ DOMAIN l.files = 1..Len(l.files)
      /\ (Last(l.files).kind = "absent" => Last(l.files).lines = <<>>)
  BY FilesAre DEF IsLog
<1>2. "sibling" \notin DiscoveryGaps(l) /\ "bound" \notin DiscoveryGaps(l) /\ "absent" \notin DiscoveryGaps(l)
  BY GapsAre DEF Shortcomings
<1>3. i \in Discovered(l)
  <2>1. CASE i < Len(l.files)
    <3>1. i \in 1..(Len(l.files) - 1)
      BY <1>1, <2>1
    <3>2. l.listed /\ l.files[i].kind \notin {"unsupported", "odd"}
      BY <1>2, <3>1 DEF DiscoveryGaps
    <3>3. QED
      BY <3>1, <3>2 DEF Discovered, Siblings
  <2>2. CASE i = Len(l.files)
    <3>1. l.files[i].kind # "absent"
      BY <1>1, <2>2 DEF LinesOf, Last
    <3>2. l.files[i].kind # "odd"
      BY <1>2, <2>2 DEF DiscoveryGaps
    <3>3. QED
      BY <2>2, <3>1, <3>2 DEF Discovered
  <2>3. QED
    BY <1>1, <2>1, <2>2
<1>4. Cardinality(Discovered(l)) <= MaxFiles
  <2>1. ~(Cardinality(Discovered(l)) > MaxFiles)
    BY <1>2 DEF DiscoveryGaps
  <2>2. Cardinality(Discovered(l)) \in Nat
    <3>1. IsFiniteSet(1..Len(l.files))
      BY <1>1, FS_Interval
    <3>2. IsFiniteSet(Discovered(l))
      BY <3>1, FilesAre, FS_Subset
    <3>3. QED
      BY <3>2, FS_CardinalityType
  <2>3. QED
    BY <2>1, <2>2, LimitsAssumption
<1>5. i \in Kept(l)
  BY <1>3, <1>4, WholeIsKept
<1>6. "sibling" \notin FileGaps(l.files[i]) /\ "bound" \notin FileGaps(l.files[i])
  BY <1>5, GapsAre DEF Shortcomings
<1>7. l.files[i].kind # "shut" /\ ~IsBounded(l.files[i])
  BY <1>6 DEF FileGaps
<1>8. ~(Len(LinesOf(l, i)) > MaxLines)
  BY <1>7 DEF IsBounded, LinesOf
<1>9. Len(LinesOf(l, i)) \in Nat
  BY LinesAre
<1>10. QED
  BY <1>5, <1>7, <1>8, <1>9, LimitsAssumption

LEMMA AccountIsRead ==
    ASSUME NEW l, NEW at \in Nat, IsLog(l, at), NEW p, NEW cur, NEW since \in Nat, Accounted(l, p, cur, since)
    PROVE  ReadShows(Read(l), p, cur, since)
<1>1. CASE Gone(l, since)
  <2>1. ASSUME NEW t \in ReadAt(l) PROVE t > since /\ t \in Nat
    <3>1. t \in AllTimes(l)
      BY ReadSays
    <3>2. PICK i \in Discovered(l) : t \in Times(l.files[i])
      BY <3>1 DEF AllTimes
    <3>3. i \in DOMAIN l.files
      BY FilesAre
    <3>4. PICK k \in DOMAIN LinesOf(l, i) : t = LinesOf(l, i)[k].time
      BY <3>2 DEF Times, StampsIn, LinesOf
    <3>5. QED
      BY <1>1, <3>3, <3>4, LinesAre DEF Gone
  <2>2. CASE ReadAt(l) = {}
    BY <2>2, ReadIs DEF ReadShows
  <2>3. CASE ReadAt(l) # {}
    <3>1. Read(l).earliest \in ReadAt(l)
      BY <2>1, <2>3, ReadIs, MinIs
    <3>2. QED
      BY <2>1, <3>1 DEF ReadShows
  <2>4. QED
    BY <2>2, <2>3
<1>2. ASSUME NEW i \in DOMAIN l.files, NEW k \in DOMAIN LinesOf(l, i), Accounts(l, i, k, p, cur, since),
             Read(l).gaps \cap Shortcomings = {}
      PROVE  ReadShows(Read(l), p, cur, since)
  <2>1. PICK f, s : f = l.files[i] /\ s = LinesOf(l, i)
    OBVIOUS
  <2>2. i \in Kept(l) /\ f.kind # "shut" /\ Len(s) <= MaxLines /\ s \in Seq(LogLines) /\ f.lines = s
    <3>1. LinesOf(l, i) # <<>>
      BY <1>2
    <3>2. i \in Kept(l) /\ l.files[i].kind # "shut" /\ Len(LinesOf(l, i)) <= MaxLines
      BY <1>2, <3>1, WithoutGaps
    <3>3. QED
      BY <2>1, <3>2, LinesAre DEF LinesOf
  <2>3. Entries(f) = Tellings(f)
    BY <2>2, FileSays
  <2>4. PICK tx : tx = Telling(s, k)
    OBVIOUS
  <2>5. tx \in Tellings(f)
    <3>1. k \in Txs(s)
      BY <1>2, <2>1 DEF Accounts, Txs
    <3>2. QED
      BY <2>2, <2>4, <3>1 DEF Tellings
  <2>6. tx \in EntriesRead(l)
    BY <2>1, <2>2, <2>3, <2>5 DEF EntriesRead
  <2>7. tx.root = Here /\ tx.pkg = p /\ tx.time >= since /\ Leaves(tx.op, tx.version, cur)
    <3>1. tx.root = Here /\ tx.pkg = p /\ tx.time > since /\ Leaves(tx.op, tx.version, cur)
      BY <1>2, <2>1, <2>4 DEF Telling, Accounts
    <3>2. tx.time \in Nat
      BY <1>2, <2>1, <2>4, LinesAre DEF Telling
    <3>3. QED
      BY <3>1, <3>2
  <2>8. tx \in Read(l).entries
    BY <2>6, <2>7, ReadIs
  <2>9. QED
    BY <2>7, <2>8 DEF ReadShows
<1>3. QED
  BY <1>1, <1>2 DEF Accounted, ReadShows

-----------------------------------------------------------------------------
(* A package that nothing but pacman changed is as it was signed, or the log*)
(* accounts for it.                                                         *)
AsSigned(p, cur, m) ==
    m.packages[p].version = cur.version /\ m.packages[p].digest \in {None, cur.digest}

Explained(l, p, cur, m) == AsSigned(p, cur, m) \/ Accounted(l, p, cur, m.created)
Shown(read, p, cur, m) == AsSigned(p, cur, m) \/ ReadShows(read, p, cur, m.created)

InstantsInv ==
    /\ scan.at \in Nat /\ scan.at <= now /\ scan.read.earliest <= scan.at
    /\ manifest.created \in Nat /\ manifest.created <= now /\ manifest.earliest <= manifest.created

AccountInv == manifest.signed => \A p \in Names \ tampered : Explained(log, p, packages[p], manifest)

(* What the log did when the command read it.                               *)
ShownInv ==
    scan.command = "diff" \/ report.done =>
        \A p \in Names \ (tampered \cup touched) : Shown(scan.read, p, packages[p], manifest)

HistoryInv ==
    InstantsInv /\ AccountInv /\ ShownInv /\ (report.done => report.truncated = Truncated(manifest, scan.read))

LEMMA QuietIs == DriftInv /\ LogInv /\ HistoryInv => OrdinaryUseIsQuiet
<1> SUFFICES ASSUME DriftInv, LogInv, HistoryInv, report.done, NEW i \in report.items, ~Quiet(i), i.package \notin touched
             PROVE  InstalledAndDowngraded(i)
  BY DEF OrdinaryUseIsQuiet
<1>1. PICK m, read, at : m = manifest /\ read = scan.read /\ at = scan.at
  OBVIOUS
<1>2. /\ i \in Items(m, read, at) /\ report.gaps = DriftGaps(m, read, at) \cup read.gaps
      /\ report.truncated = Truncated(m, read)
  BY <1>1 DEF DriftInv, ReportInv, HistoryInv
<1>3. PICK p \in {q \in Names : Change(m.packages[q], Seen(q)) \notin {"none", "unread"}} :
          i = [package |-> p, change |-> Change(m.packages[p], Seen(p)),
               bucket |-> Classify(Change(m.packages[p], Seen(p)), p, Seen(p), m, read, at)]
  BY <1>2 DEF Items
<1>4. PICK cur, change : cur = Seen(p) /\ change = Change(m.packages[p], Seen(p))
  OBVIOUS
<1>5. i.package = p /\ i.change = change /\ i.bucket = Classify(change, p, cur, m, read, at)
      /\ change = Change(m.packages[p], cur) /\ change \notin {"none", "unread"}
  BY <1>3, <1>4
<1>6. ~Corroborated(change, p, cur, m, read) /\ ~CoverageShortfall(cur, m, read)
  <2>1. i.bucket = "unexplained"
    BY DEF Quiet
  <2>2. QED
    BY <1>5, <2>1, UnexplainedIs
<1>7. p \notin tampered /\ ~Truncated(m, read) /\ read.gaps \cap Shortcomings = {}
  BY <1>2, <1>5 DEF Quiet, Shortcomings
<1>8. Shown(read, p, packages[p], m)
  BY <1>1, <1>5, <1>7 DEF HistoryInv, ShownInv
<1>9. cur.version = packages[p].version /\ cur.digest \in {None, packages[p].digest}
  <2>1. packages[p] \in PackageStates
    BY DEF DriftInv, PackagesInv
  <2>2. QED
    BY <1>4, <2>1 DEF Seen, PackageStates
<1>10. ~AsSigned(p, packages[p], m)
  BY <1>5, <1>9 DEF AsSigned, Change
<1>11. /\ m.created \in Nat /\ m.earliest \in Nat /\ m.earliest <= m.created
       /\ read.earliest \in Nat
  BY <1>1 DEF HistoryInv, InstantsInv, LogInv
<1>12. ~(read.earliest = None \/ read.earliest > m.created)
  <2>1. CASE m.earliest # None
    BY <1>7, <1>11, <2>1 DEF Truncated
  <2>2. CASE m.earliest = None
    BY <1>6, <1>7, <2>2 DEF CoverageShortfall
  <2>3. QED
    BY <2>1, <2>2
<1>13. PICK tx \in read.entries : tx.pkg = p /\ tx.time >= m.created /\ Leaves(tx.op, tx.version, packages[p])
  BY <1>7, <1>8, <1>10, <1>12 DEF Shown, ReadShows
<1>14. ~(OpExplains(change, tx.op) /\ (change = "removed" \/ tx.version = cur.version))
  BY <1>6, <1>13 DEF Corroborated
<1>15. change \in {"removed", "added", "version", "mtree"} /\ (change = "removed" <=> cur.version = None)
  BY <1>5 DEF Change
<1>16. change = "added" /\ tx.op = "downgraded"
  BY <1>9, <1>13, <1>14, <1>15 DEF Leaves, OpExplains
<1>17. QED
  BY <1>1, <1>5, <1>13, <1>16 DEF InstalledAndDowngraded

LEMMA HistoryBegins == DriftInit => HistoryInv
<1> SUFFICES ASSUME DriftInit PROVE HistoryInv
  OBVIOUS
<1>1. LogInv
  BY LogBegins
<1>2. /\ now = 2 /\ scan.at = now /\ scan.command = Idle /\ manifest = NoManifest /\ report = NoReport
      /\ scan.read.earliest <= now
  BY <1>1 DEF DriftInit, LogInv
<1>3. manifest.created = 0 /\ manifest.earliest = 0 /\ ~manifest.signed /\ ~report.done
  BY <1>2 DEF NoManifest, NoReport, None
<1>4. InstantsInv
  BY <1>2, <1>3 DEF InstantsInv
<1>5. QED
  BY <1>2, <1>3, <1>4 DEF HistoryInv, AccountInv, ShownInv, Idle

(* pacman's own change is accounted for by what it logs.                    *)
LEMMA LoggedAccounts ==
    ASSUME NEW l, NEW at \in Nat, IsLog(l, at), NEW a \in LogLines, NEW b \in LogLines, NEW since \in Nat, since <= at,
           a.kind = "run", a.root = Here, b.kind = "tx", b.time = at + 1, NEW p, b.pkg = p, NEW cur,
           Leaves(b.op, b.version, cur), NEW l2, IsAppended(l2, l, <<a, b>>)
    PROVE  Accounted(l2, p, cur, since)
<1>1. PICK n, f : n = Len(l.files) /\ f = l.files[n]
  OBVIOUS
<1>2. <<a, b>> \in Seq(LogLines)
  OBVIOUS
<1>3. n \in DOMAIN l.files /\ f \in LogFiles /\ l2.files = [l.files EXCEPT ![n] = Live(f, <<a, b>>)]
  <2>1. PICK lines : lines = <<a, b>>
    OBVIOUS
  <2>2. lines \in Seq(LogLines) /\ IsAppended(l2, l, lines)
    BY <1>2, <2>1
  <2>3. Len(l.files) \in DOMAIN l.files /\ l.files[Len(l.files)] \in LogFiles
        /\ IsReplaced(l2, l, Len(l.files), Live(l.files[Len(l.files)], lines))
    BY <2>2, LiveIs
  <2>4. QED
    BY <1>1, <2>1, <2>3 DEF IsReplaced
<1>4. DOMAIN l.files = 1..n /\ n \in Nat
  BY <1>1, FilesAre
<1>5. PICK s, t : s = f.lines /\ t = f.lines \o <<a, b>>
  OBVIOUS
<1>6. n \in DOMAIN l2.files /\ LinesOf(l2, n) = t /\ DOMAIN l2.files = 1..n
  <2>1. PICK g : g = Live(f, <<a, b>>)
    OBVIOUS
  <2>2. g.lines = t
    BY <1>5, <2>1 DEF Live
  <2>3. QED
    BY <1>3, <1>4, <2>1, <2>2 DEF LinesOf
<1>7. PICK size : size = Len(s)
  OBVIOUS
<1>8. s \in Seq(LogLines) /\ size \in Nat
  BY <1>3, <1>5, <1>7, FileHas
<1>9. DOMAIN t = 1..(size + 2) /\ t[size + 1] = a /\ t[size + 2] = b
  <2>1. t = s \o <<a, b>> /\ Len(<<a, b>>) = 2 /\ <<a, b>>[1] = a /\ <<a, b>>[2] = b
    BY <1>5
  <2>2. DOMAIN t = 1..(size + 2)
    BY <1>7, <1>8, <2>1
  <2>3. 1 \in DOMAIN <<a, b>> /\ 2 \in DOMAIN <<a, b>>
    OBVIOUS
  <2>4. t[size + 1] = <<a, b>>[1] /\ t[size + 2] = <<a, b>>[2]
    BY <1>2, <1>7, <1>8, <2>1, <2>3, AfterConcat
  <2>5. QED
    BY <2>1, <2>2, <2>4
<1>10. RootAt(t, size + 2) = Here
  <2> DEFINE runs == {h \in 1..(size + 2) : t[h].kind = "run"}
  <2>1. size + 1 \in runs /\ size + 2 \notin runs
    BY <1>8, <1>9
  <2>2. runs \subseteq 1..(size + 2) /\ runs # {} /\ size + 2 \in Nat
    BY <1>8, <2>1
  <2>3. RootAt(t, size + 2) = t[Max(runs)].root
    BY <2>2 DEF RootAt
  <2> HIDE DEF runs
  <2>4. Max(runs) \in runs /\ \A x \in runs : x <= Max(runs)
    BY <2>2, MaxIs
  <2>5. PICK top : top = Max(runs)
    OBVIOUS
  <2>6. top \in 1..(size + 2) /\ top >= size + 1 /\ top # size + 2
    BY <2>1, <2>2, <2>4, <2>5
  <2>7. top = size + 1
    BY <1>8, <2>6
  <2>8. QED
    BY <1>9, <2>3, <2>5, <2>7
<1>11. Behind(l2, n, size + 2, since)
  <2>1. ASSUME NEW j \in DOMAIN l2.files, NEW h \in DOMAIN LinesOf(l2, j), j > n \/ (j = n /\ h > size + 2) PROVE FALSE
    BY <1>4, <1>6, <1>8, <1>9, <2>1
  <2>2. QED
    BY <2>1 DEF Behind
<1>12. size + 2 \in DOMAIN t /\ b.time > since
  BY <1>8, <1>9
<1>13. Accounts(l2, n, size + 2, p, cur, since)
  BY <1>4, <1>6, <1>9, <1>10, <1>11, <1>12 DEF Accounts
<1>14. QED
  BY <1>6, <1>12, <1>13 DEF Accounted

(* A step of the host: what it leaves of the log and of the packages.       *)
LEMMA HostSteps ==
    ASSUME DriftInv, LogInv, HistoryInv,
           UNCHANGED <<manifest, scan>>, report' = NoReport, now' \in {now, now + 1},
           \A p \in Names \ tampered : Accounted(log, p, packages[p], manifest.created) =>
               Accounted(log', p, packages[p], manifest.created),
           \A p \in Names \ (tampered' \cup touched') : p \notin tampered \cup touched /\ packages'[p] = packages[p],
           manifest.signed => \A p \in Names \ tampered' :
               \/ p \notin tampered /\ packages'[p] = packages[p]
               \/ Explained(log', p, packages'[p], manifest)
    PROVE  HistoryInv'
<1>1. InstantsInv'
  <2>1. now \in Nat
    BY DEF DriftInv, PackagesInv
  <2>2. QED
    BY <2>1 DEF HistoryInv, InstantsInv
<1>2. AccountInv'
  <2>1. SUFFICES ASSUME manifest.signed, NEW p \in Names \ tampered' PROVE Explained(log', p, packages'[p], manifest)
    BY DEF AccountInv
  <2>2. CASE p \notin tampered /\ packages'[p] = packages[p]
    <3>1. Explained(log, p, packages[p], manifest)
      BY <2>1, <2>2 DEF HistoryInv, AccountInv
    <3>2. QED
      BY <2>2, <3>1 DEF Explained
  <2>3. QED
    BY <2>1, <2>2
<1>3. ~report'.done
  BY DEF NoReport
<1>4. ShownInv'
  <2>1. SUFFICES ASSUME scan.command = "diff", NEW p \in Names \ (tampered' \cup touched')
                 PROVE  Shown(scan.read, p, packages'[p], manifest)
    BY <1>3 DEF ShownInv
  <2>2. Shown(scan.read, p, packages[p], manifest)
    BY <2>1 DEF HistoryInv, ShownInv
  <2>3. QED
    BY <2>1, <2>2
<1>5. QED
  BY <1>1, <1>2, <1>3, <1>4 DEF HistoryInv

LEMMA HistorySteps ==
    ASSUME DriftInv, LogInv, HistoryInv, [DriftNext]_driftVars
    PROVE  HistoryInv'
<1>0. /\ now \in Nat /\ packages \in [Names -> PackageStates] /\ session.names \subseteq Names /\ IsLog(log, now)
      /\ DOMAIN scan = ScanFields /\ manifest.created \in Nat /\ manifest.created <= now
  BY DEF DriftInv, PackagesInv, LogInv, HistoryInv, InstantsInv
<1>1. CASE UNCHANGED driftVars
  BY <1>1 DEF driftVars, HistoryInv, InstantsInv, AccountInv, ShownInv, Truncated
<1>2. ASSUME NEW command \in {"write", "diff"}, Begin(command) PROVE HistoryInv'
  <2>1. /\ UNCHANGED <<packages, log, now, manifest, tampered>> /\ scan'.read = Read(log) /\ scan'.at = now
        /\ scan'.command = command /\ (command = "diff" => manifest.signed) /\ ~report'.done /\ touched' = {}
    BY <1>2 DEF Begin, NoReport
  <2>2. Read(log).earliest <= now
    BY <1>0, EarliestIs
  <2>3. InstantsInv'
    BY <1>0, <2>1, <2>2 DEF HistoryInv, InstantsInv
  <2>4. AccountInv'
    BY <2>1 DEF HistoryInv, AccountInv
  <2>5. ShownInv'
    <3>1. SUFFICES ASSUME manifest.signed, NEW p \in Names \ tampered PROVE Shown(Read(log), p, packages[p], manifest)
      BY <2>1 DEF ShownInv
    <3>2. Explained(log, p, packages[p], manifest)
      BY <3>1 DEF HistoryInv, AccountInv
    <3>3. Accounted(log, p, packages[p], manifest.created) => ReadShows(Read(log), p, packages[p], manifest.created)
      BY <1>0, AccountIsRead
    <3>4. QED
      BY <3>2, <3>3 DEF Explained, Shown
  <2>6. QED
    BY <2>1, <2>3, <2>4, <2>5 DEF HistoryInv
<1>3. CASE BaselineWrite
  <2>1. /\ UNCHANGED <<packages, unread, log, now, report>> /\ scan'.read = scan.read /\ scan'.at = scan.at
        /\ scan'.command = Idle /\ ~report.done /\ manifest' = BuildManifest(scan.read, scan.at)
    BY <1>0, <1>3 DEF BaselineWrite, Finish, DriftInv, ReportInv, ScanFields, Idle
  <2>2. manifest'.created = scan.at /\ manifest'.earliest = scan.read.earliest /\ manifest'.packages = [p \in Names |-> Seen(p)]
    BY <2>1 DEF BuildManifest
  <2>3. InstantsInv'
    BY <2>1, <2>2 DEF HistoryInv, InstantsInv
  <2>4. ASSUME NEW p \in Names PROVE AsSigned(p, packages'[p], manifest')
    <3>1. packages[p] \in PackageStates
      BY <1>0
    <3>2. Seen(p).version = packages[p].version /\ Seen(p).digest \in {None, packages[p].digest}
      BY <3>1 DEF Seen, PackageStates
    <3>3. QED
      BY <2>1, <2>2, <3>2 DEF AsSigned
  <2>5. AccountInv'
    BY <2>4 DEF AccountInv, Explained
  <2>6. ShownInv'
    BY <2>1 DEF ShownInv, Idle
  <2>7. QED
    BY <2>1, <2>3, <2>5, <2>6 DEF HistoryInv
<1>4. CASE BaselineDiff
  <2>1. /\ UNCHANGED <<packages, log, now, manifest, tampered, touched>> /\ scan.command = "diff" /\ scan'.read = scan.read
        /\ scan'.at = scan.at /\ report'.truncated = Truncated(manifest, scan.read)
    BY <1>0, <1>4 DEF BaselineDiff, Finish, ScanFields
  <2>2. InstantsInv' /\ AccountInv' /\ ShownInv'
    BY <2>1 DEF HistoryInv, InstantsInv, AccountInv, ShownInv
  <2>3. report'.truncated = Truncated(manifest', scan'.read)
    BY <2>1
  <2>4. QED
    BY <2>2, <2>3 DEF HistoryInv
<1>5. ASSUME NEW kind, Spend(kind) PROVE report' = NoReport
  BY <1>5 DEF Spend
<1>6. ASSUME report' = NoReport, UNCHANGED <<packages, manifest, scan, tampered, touched>>, now' \in {now, now + 1},
             \A p \in Names : Accounted(log, p, packages[p], manifest.created) =>
                 Accounted(log', p, packages[p], manifest.created)
      PROVE  HistoryInv'
  <2>1. \A p \in Names \ (tampered' \cup touched') : p \notin tampered \cup touched /\ packages'[p] = packages[p]
    BY <1>6
  <2>2. \A p \in Names \ tampered' : p \notin tampered /\ packages'[p] = packages[p]
    BY <1>6
  <2>3. QED
    BY <1>6, <2>1, <2>2, HostSteps
<1>7. ASSUME NEW lines \in Seq(LogLines), \A k \in DOMAIN lines : lines[k].time = now + 1, log' = Append2(lines)
      PROVE  \A p \in Names : \A cur : Accounted(log, p, cur, manifest.created) => Accounted(log', p, cur, manifest.created)
  <2>1. PICK l2 : l2 = log'
    OBVIOUS
  <2>2. IsAppended(l2, log, lines)
    BY <1>7, <2>1 DEF IsAppended, Append2
  <2>3. \A k \in DOMAIN lines : lines[k].time > manifest.created
    BY <1>0, <1>7
  <2>4. Grown(l2, log, manifest.created)
    BY <1>0, <2>2, <2>3, AppendedGrows
  <2>5. ASSUME NEW p \in Names, NEW cur, Accounted(log, p, cur, manifest.created)
        PROVE  Accounted(l2, p, cur, manifest.created)
    BY <1>0, <2>4, <2>5, GrownAccounts
  <2>6. QED
    BY <2>1, <2>5
<1>8. ASSUME NEW p \in session.names, Pacman(p) PROVE HistoryInv'
  <2>1. PICK new \in States(now + 1) :
            /\ report' = NoReport /\ now' = now + 1 /\ UNCHANGED <<manifest, scan>>
            /\ packages' = [packages EXCEPT ![p] = new] /\ touched' = touched \cup {p} /\ tampered' = tampered \ {p}
            /\ log' = Append2(<<Line("run", Here, "none", "none", None, now + 1),
                                Line("tx", Here, Op(packages[p], new), p,
                                     IF new.version = None THEN packages[p].version ELSE new.version, now + 1)>>)
    BY <1>5, <1>8 DEF Pacman
  <2>2. PICK v, op : v = (IF new.version = None THEN packages[p].version ELSE new.version) /\ op = Op(packages[p], new)
    OBVIOUS
  <2>3. PICK a, b : a = Line("run", Here, "none", "none", None, now + 1) /\ b = Line("tx", Here, op, p, v, now + 1)
    OBVIOUS
  <2>4. p \in Names /\ v \in Versions \cup {None}
    BY <1>0, <2>2 DEF States, NotInstalled, PackageStates
  <2>5. op \in {"installed", "reinstalled", "upgraded", "downgraded", "removed"} /\ Leaves(op, v, new)
    BY <2>2 DEF Op, Leaves
  <2>6. a \in LogLines /\ b \in LogLines /\ a.time = now + 1 /\ b.time = now + 1 /\ a.kind = "run" /\ a.root = Here
        /\ b.kind = "tx" /\ b.pkg = p /\ b.op = op /\ b.version = v
    BY <1>0, <2>3, <2>4, <2>5 DEF Line, LogLines, LineKinds, None
  <2>7. log' = Append2(<<a, b>>)
    BY <2>1, <2>2, <2>3
  <2>8. \A q \in Names : \A cur : Accounted(log, q, cur, manifest.created) => Accounted(log', q, cur, manifest.created)
    <3>1. PICK lines : lines = <<a, b>>
      OBVIOUS
    <3>2. lines \in Seq(LogLines) /\ DOMAIN lines = {1, 2} /\ lines[1] = a /\ lines[2] = b
      BY <2>6, <3>1
    <3>3. \A k \in DOMAIN lines : lines[k].time = now + 1
      BY <2>6, <3>2
    <3>4. log' = Append2(lines)
      BY <2>7, <3>1
    <3>5. QED
      BY <1>7, <3>2, <3>3, <3>4
  <2>9. Accounted(log', p, new, manifest.created)
    <3>1. PICK l2 : l2 = log'
      OBVIOUS
    <3>2. IsAppended(l2, log, <<a, b>>)
      BY <2>7, <3>1 DEF IsAppended, Append2
    <3>3. Leaves(b.op, b.version, new)
      BY <2>5, <2>6
    <3>4. Accounted(l2, p, new, manifest.created)
      BY <1>0, <2>6, <3>2, <3>3, LoggedAccounts
    <3>5. QED
      BY <3>1, <3>4
  <2>10. packages'[p] = new /\ \A q \in Names : q # p => packages'[q] = packages[q]
    BY <1>0, <2>1, <2>4
  <2>11. Explained(log', p, packages'[p], manifest)
    BY <2>9, <2>10 DEF Explained
  <2>12. \A q \in Names \ (tampered' \cup touched') : q \notin tampered \cup touched /\ packages'[q] = packages[q]
    BY <2>1, <2>10
  <2>13. \A q \in Names \ tampered' : (q \notin tampered /\ packages'[q] = packages[q]) \/ Explained(log', q, packages'[q], manifest)
    BY <2>1, <2>10, <2>11
  <2>14. QED
    BY <2>1, <2>8, <2>12, <2>13, HostSteps
<1>9. ASSUME NEW p \in session.names, Elsewhere(p) PROVE HistoryInv'
  <2>1. PICK v \in Versions :
            /\ report' = NoReport /\ now' = now + 1 /\ UNCHANGED <<packages, manifest, scan, tampered, touched>>
            /\ log' = Append2(<<Line("run", "mnt", "none", "none", None, now + 1),
                                Line("tx", "mnt", "reinstalled", p, v, now + 1)>>)
    BY <1>5, <1>9 DEF Elsewhere
  <2>2. PICK a, b : a = Line("run", "mnt", "none", "none", None, now + 1) /\ b = Line("tx", "mnt", "reinstalled", p, v, now + 1)
    OBVIOUS
  <2>3. a \in LogLines /\ b \in LogLines /\ a.time = now + 1 /\ b.time = now + 1
    BY <1>0, <2>2 DEF Line, LogLines, LineKinds, None
  <2>4. PICK lines : lines = <<a, b>>
    OBVIOUS
  <2>5. lines \in Seq(LogLines) /\ DOMAIN lines = {1, 2} /\ lines[1] = a /\ lines[2] = b
    BY <2>3, <2>4
  <2>6. \A k \in DOMAIN lines : lines[k].time = now + 1
    BY <2>3, <2>5
  <2>7. log' = Append2(lines)
    BY <2>1, <2>2, <2>4
  <2>8. QED
    BY <1>6, <1>7, <2>1, <2>5, <2>6, <2>7
<1>10. ASSUME NEW p \in session.names, Tamper(p) PROVE HistoryInv'
  <2>1. /\ report' = NoReport /\ UNCHANGED <<log, now, manifest, scan, touched>> /\ tampered' = tampered \cup {p}
        /\ \A q \in Names : q # p => packages'[q] = packages[q]
    BY <1>0, <1>5, <1>10 DEF Tamper
  <2>2. \A q \in Names \ (tampered' \cup touched') : q \notin tampered \cup touched /\ packages'[q] = packages[q]
    BY <2>1
  <2>3. \A q \in Names \ tampered' : q \notin tampered /\ packages'[q] = packages[q]
    BY <2>1
  <2>4. \A q \in Names : Accounted(log, q, packages[q], manifest.created) => Accounted(log', q, packages[q], manifest.created)
    BY <2>1
  <2>5. QED
    BY <2>1, <2>2, <2>3, <2>4, HostSteps
<1>11. ASSUME NEW p \in session.names, Block(p) PROVE HistoryInv'
  BY <1>5, <1>6, <1>11 DEF Block
<1>12. ASSUME NEW l2, l2 = log', Grown(l2, log, manifest.created)
       PROVE  \A p \in Names : Accounted(log, p, packages[p], manifest.created) =>
                  Accounted(log', p, packages[p], manifest.created)
  BY <1>0, <1>12, GrownAccounts
<1>13. CASE Rotate
  <2>1. PICK kind \in {"plain", "unsupported", "odd"} :
            /\ report' = NoReport /\ UNCHANGED <<packages, now, manifest, scan, tampered, touched>>
            /\ log' = [log EXCEPT !.files = Append([@ EXCEPT ![Len(log.files)].kind = kind],
                                                   [kind |-> "absent", lines |-> <<>>])]
    BY <1>5, <1>13 DEF Rotate
  <2>2. PICK l2 : l2 = log'
    OBVIOUS
  <2>3. Grown(l2, log, manifest.created)
    BY <1>0, <2>1, <2>2, RotateGrows
  <2>4. QED
    BY <1>6, <1>12, <2>1, <2>2, <2>3
<1>14. CASE Cut
  <2>1. PICK n \in 1..Lines(Head(log.files)) :
            IsCut(log', log, n) /\ report' = NoReport /\ UNCHANGED <<packages, now, manifest, scan, tampered, touched>>
    BY <1>5, <1>14 DEF Cut, IsCut, Lines
  <2>2. PICK l2 : l2 = log'
    OBVIOUS
  <2>3. n \in 1..Len(Head(log.files).lines) /\ IsCut(l2, log, n)
    BY <2>1, <2>2 DEF Lines
  <2>4. ASSUME NEW p \in Names, Accounted(log, p, packages[p], manifest.created)
        PROVE  Accounted(l2, p, packages[p], manifest.created)
    BY <1>0, <2>3, <2>4, CutAccounts
  <2>5. QED
    BY <1>6, <2>1, <2>2, <2>4
<1>15. CASE Garble
  <2>1. PICK kind \in {"unparsed", "overlong", "unknown", "other"} :
            /\ report' = NoReport /\ now' = now + 1 /\ UNCHANGED <<packages, manifest, scan, tampered, touched>>
            /\ log' = Append2(<<Line(kind, Here, "none", "none", None, now + 1)>>)
    BY <1>5, <1>15 DEF Garble
  <2>2. PICK line : line = Line(kind, Here, "none", "none", None, now + 1)
    OBVIOUS
  <2>3. line \in LogLines /\ line.time = now + 1
    BY <1>0, <2>2, OneLine DEF LineKinds, Line
  <2>4. PICK lines : lines = <<line>>
    OBVIOUS
  <2>5. lines \in Seq(LogLines) /\ \A k \in DOMAIN lines : lines[k].time = now + 1
    BY <2>3, <2>4
  <2>6. log' = Append2(lines)
    BY <2>1, <2>2, <2>4
  <2>7. QED
    BY <1>6, <1>7, <2>1, <2>5, <2>6
<1>16. CASE Shut
  <2>1. PICK i \in DOMAIN log.files, kind \in {"shut", "torn"} :
            /\ report' = NoReport /\ UNCHANGED <<packages, now, manifest, scan, tampered, touched>>
            /\ log' = IF i < Len(log.files) /\ kind = "torn" THEN [log EXCEPT !.listed = FALSE]
                      ELSE [log EXCEPT !.files[i].kind = kind]
    BY <1>5, <1>16 DEF Shut
  <2>2. PICK l2 : l2 = log'
    OBVIOUS
  <2>3. Grown(l2, log, manifest.created)
    BY <1>0, <2>1, <2>2, ShutGrows
  <2>4. QED
    BY <1>6, <1>12, <2>1, <2>2, <2>3
<1>17. QED
  BY <1>1, <1>2, <1>3, <1>4, <1>8, <1>9, <1>10, <1>11, <1>13, <1>14, <1>15, <1>16 DEF DriftNext

-----------------------------------------------------------------------------
(* A step of the four is a step or a stutter of each.                       *)
LEMMA PartsBegin == Init => EditsInit /\ UpstreamInit /\ DriftInit /\ CorrelationInit
  BY DEF Init

LEMMA PartsStep ==
    [Next]_judgementVars => /\ [EditsNext]_editVars /\ [UpstreamNext]_upstreamVars
                            /\ [DriftNext]_driftVars /\ [CorrelationNext]_correlationVars
  BY DEF Next, judgementVars

(* Verify (chain.go) refuses each single edit of a chain that verified with *)
(* the sentinel documented for it, for a chain of any length and wherever   *)
(* the edit is; it accepts only the two that leave a perfect chain, a       *)
(* shortened one and one whose last record is another.                      *)
THEOREM EditAlwaysNamed == Spec => []EditIsNamed
<1>1. EditsInv => EditIsNamed
  BY DEF EditsInv
<1>2. QED
  BY <1>1, PartsBegin, PartsStep, EditsBegin, EditsSteps, PTL DEF Spec

(* With the head pinned outside the host, no edit leaves a chain that       *)
(* Verify accepts, the ones that drop the newest records included.          *)
THEOREM AnchorAlwaysSees == Spec => []AnchorSeesEveryEdit
<1>1. EditsInv => AnchorSeesEveryEdit
  BY DEF EditsInv
<1>2. QED
  BY <1>1, PartsBegin, PartsStep, EditsBegin, EditsSteps, PTL DEF Spec

(* `baseline diff` names every package whose bytes are not those of the     *)
(* baseline and says what it could not compare (Drift in drift.go), in      *)
(* whatever order the packages change and the scan reads them.              *)
THEOREM DriftAlwaysNamed == Spec => []DriftIsNamed
  BY DriftNamed, PartsBegin, PartsStep, DriftBegins, DriftSteps, PTL DEF Spec

(* Shortening, garbling or hiding a log within the bounds explains nothing: *)
(* what a diff would have called critical it still does (Truncated and      *)
(* coverageShortfall in drift.go), for any packages, log, records and clock.*)
THEOREM TruncationNeverBuys == Spec => TruncationBuysNothing
<1>1. DriftInv /\ LogInv /\ [DriftNext]_driftVars => DriftInv' /\ LogInv'
  BY DriftSteps, LogSteps
<1>2. DriftInv /\ LogInv /\ DriftInv' /\ LogInv' /\ [DriftNext]_driftVars => [StaysCritical]_<<packages, log>>
  BY BuysNothing
<1>3. DriftInit => DriftInv /\ LogInv
  BY DriftBegins, LogBegins
<1>4. QED
  BY <1>1, <1>2, <1>3, PartsBegin, PartsStep, PTL DEF Spec, TruncationBuysNothing, StaysCritical, Concealed

(* Ordinary use is no detection (Drift in drift.go over Read in pacmanlog):   *)
(* what only pacman changed since the baseline is critical only if the log  *)
(* was not read whole or a package was installed and then downgraded, for   *)
(* any packages and log, however the log is rotated, cut, garbled or shut.  *)
THEOREM OrdinaryUseStaysQuiet == Spec => []OrdinaryUseIsQuiet
<1>1. DriftInv /\ LogInv /\ HistoryInv /\ [DriftNext]_driftVars => DriftInv' /\ LogInv' /\ HistoryInv'
  BY DriftSteps, LogSteps, HistorySteps
<1>2. DriftInit => DriftInv /\ LogInv /\ HistoryInv
  BY DriftBegins, LogBegins, HistoryBegins
<1>3. DriftInv /\ LogInv /\ HistoryInv => OrdinaryUseIsQuiet
  BY QuietIs
<1>4. QED
  BY <1>1, <1>2, <1>3, PartsBegin, PartsStep, PTL DEF Spec

(* What the provenance check says of a package - absent, removed for        *)
(* malware, or nothing at all - was so at a time while it asked (Provenance *)
(* in check/provenance.go over Info and Tombstone in aur/http.go), for any  *)
(* number of packages and chunks, and whatever the AUR changes in between.  *)
THEOREM ProvenanceAlwaysTrue == Spec => []ProvenanceIsTrue
<1>1. UpstreamInv => ProvenanceIsTrue
  BY DEF UpstreamInv
<1>2. QED
  BY <1>1, PartsBegin, PartsStep, UpstreamBegins, UpstreamSteps, PTL DEF Spec

(* What can no longer be read never silently lowers a critical cluster: one *)
(* whose members still belong together stays critical or is admitted as a   *)
(* coverage gap (Clusters in correlate.go), for any surfaces and packages.  *)
THEOREM InabilityIsAlwaysAGap == Spec => InabilityIsAGap
<1>1. CorrelationInv /\ [CorrelationNext]_correlationVars => [GapOrCritical]_correlationVars
  BY InabilityStep
<1>2. CorrelationInv /\ [CorrelationNext]_correlationVars => CorrelationInv'
  BY HostStays
<1>3. QED
  BY <1>1, <1>2, PartsBegin, PartsStep, CorrelationBegins, PTL DEF Spec, InabilityIsAGap, GapOrCritical

(* More evidence never dissolves or lowers a critical cluster: whatever else*)
(* is planted, what was critical is part of what is critical (Clusters in   *)
(* correlate.go), for any surfaces, in whatever order the union-find meets  *)
(* the pairs.                                                               *)
THEOREM EvidenceAlwaysAdds == Spec => EvidenceOnlyAdds
<1>1. CorrelationInv /\ [CorrelationNext]_correlationVars => CorrelationInv'
  BY HostStays
<1>2. CorrelationInv /\ CorrelationInv' /\ [CorrelationNext]_correlationVars => [NothingDissolves]_correlationVars
  BY EvidenceStep
<1>3. QED
  BY <1>1, <1>2, PartsBegin, PartsStep, CorrelationBegins, PTL DEF Spec, EvidenceOnlyAdds, NothingDissolves
=============================================================================
