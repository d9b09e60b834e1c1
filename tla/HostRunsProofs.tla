--------------------------- MODULE HostRunsProofs ---------------------------
(***************************************************************************)
(* Proofs about HostRuns, for any number of commands, any jobs and any     *)
(* budget of faults and changes: the two stores keep what was answered;    *)
(* and what the scans and `baseline init` make of one host's reports and   *)
(* answers.                                                                *)
(*                                                                         *)
(* AnswersAreKept is not inductive: a command has worked out the set it    *)
(* will write before it writes it.  What is added says that it has the     *)
(* lock of its store from then on, and that the set is still what it       *)
(* should make of the answers that stand.                                  *)
(*                                                                         *)
(* Nor is any of the other four.  Scans adds, for each of them, where it   *)
(* comes from: what the gaps of a run are of, whose report a run is        *)
(* compared with, what the finding was that a record is about, and what    *)
(* stood in the store that `baseline init` has half read.                  *)
(***************************************************************************)
EXTENDS HostRuns, FiniteSetTheorems, TLAPS

Stores == {"triage", "judgements"}

\* The steps of a command that has the lock of its store, and those of one
\* that has read the store but not yet written it.
Locked == {"locked", "loaded", "signed", "removed"}
Pending == {"loaded", "signed"}

\* What the command of r makes of the answers that stand.
Wanted(r) ==
    IF Records(r) THEN {q \in standing[Store(r)] : ~Replaces(run[r].record, q)} \cup {run[r].record}
    ELSE {q \in standing[Store(r)] : ~NamedBy(q, Job(r).fp)}

Typed ==
    /\ {"jobs", "faults", "changes"} \subseteq DOMAIN session
    /\ DOMAIN holder = Stores
    /\ DOMAIN standing = Stores
    /\ DOMAIN run = Runs
    /\ \A r \in Runs : {"pc", "set", "record", "exit"} \subseteq DOMAIN run[r]
    /\ triage.state \in {"absent", "whole", "holed", "unreadable"}

LockInv == \A r \in Runs : run[r].pc \in Locked => holder[Store(r)] = r

VerbInv == \A r \in Runs : run[r].pc \in {"signed", "removed"} => Judges(r)

SetInv == \A r \in Runs : run[r].pc \in Pending => run[r].set = Wanted(r)

Inv == Typed /\ LockInv /\ VerbInv /\ SetInv /\ AnswersAreKept

-----------------------------------------------------------------------------
(* Steps of one command.                                                   *)

\* Only r moves, and nobody's job changes.
Moves(r) ==
    /\ DOMAIN run' = Runs
    /\ \A q \in Runs \ {r} : run'[q] = run[q]
    /\ {"pc", "set", "record", "exit"} \subseteq DOMAIN run'[r]

JobsSame == session'.jobs = session.jobs /\ {"jobs", "faults", "changes"} \subseteq DOMAIN session'

LEMMA JobsStay ==
    ASSUME Typed, MayFail \/ MayChange \/ UNCHANGED session
    PROVE  JobsSame
BY DEF Typed, MayFail, MayChange, JobsSame

LEMMA StoreType == \A r \in Runs : Store(r) \in Stores
BY DEF Store, Stores

\* A step of r keeps the invariant when it keeps r's own part of it, takes no
\* lock from anyone and touches only the store r has locked.
LEMMA StepOf ==
    ASSUME Inv, NEW r \in Runs, Moves(r), JobsSame,
           DOMAIN holder' = Stores, DOMAIN standing' = Stores,
           \A s \in Stores : holder'[s] = holder[s] \/ holder[s] \in {r, None},
           \A s \in Stores : standing'[s] = standing[s] \/ holder[s] = r,
           run'[r].pc \in Locked => holder'[Store(r)] = r,
           run'[r].pc \in {"signed", "removed"} => Judges(r),
           run'[r].pc \in Pending => run'[r].set = Wanted(r)',
           triage'.state \in {"absent", "whole", "holed", "unreadable"},
           AnswersAreKept'
    PROVE  Inv'
<1>1. \A q \in Runs : /\ Job(q)' = Job(q) /\ Store(q)' = Store(q)
                      /\ Records(q)' = Records(q) /\ Judges(q)' = Judges(q)
  BY DEF JobsSame, Job, Store, Judges, Records
<1>2. Typed'
  BY DEF Inv, Typed, Moves, JobsSame
<1>3. ASSUME NEW q \in Runs \ {r}, run[q].pc \in Locked
      PROVE  holder[Store(q)] = q /\ holder'[Store(q)] = q /\ standing'[Store(q)] = standing[Store(q)]
  <2>1. holder[Store(q)] = q /\ q # None
    BY <1>3, RunsAssumption DEF Inv, LockInv
  <2>2. QED
    BY <2>1, StoreType
<1>4. LockInv'
  BY <1>1, <1>3 DEF Moves, LockInv
<1>5. VerbInv'
  BY <1>1 DEF Inv, Moves, VerbInv
<1>6. SetInv'
  <2>1. ASSUME NEW q \in Runs \ {r}, run'[q].pc \in Pending PROVE run'[q].set = Wanted(q)'
    <3>1. run'[q] = run[q] /\ run[q].pc \in Pending /\ run[q].pc \in Locked
      BY <2>1 DEF Moves, Pending, Locked
    <3>2. standing'[Store(q)] = standing[Store(q)] /\ run[q].set = Wanted(q)
      BY <1>3, <3>1 DEF Inv, SetInv
    <3>3. Wanted(q)' = Wanted(q)
      BY <1>1, <3>1, <3>2 DEF Wanted
    <3>4. QED
      BY <3>1, <3>2, <3>3
  <2>2. QED
    BY <2>1 DEF SetInv
<1>7. QED
  BY <1>2, <1>4, <1>5, <1>6 DEF Inv

\* A step that touches no store of answers and takes r nowhere near a lock.
LEMMA AwayFromStores ==
    ASSUME Inv, NEW r \in Runs, Moves(r), JobsSame, run'[r].pc \notin Locked,
           holder' = holder \/ Release(r), UNCHANGED <<triage, doc, standing>>
    PROVE  Inv'
<1>1. DOMAIN holder' = Stores /\ \A s \in Stores : holder'[s] = holder[s] \/ holder[s] = r
  BY DEF Inv, Typed, Release
<1>2. AnswersAreKept' /\ triage'.state = triage.state
  BY DEF Inv, AnswersAreKept
<1>3. run'[r].pc \notin Pending /\ run'[r].pc \notin {"signed", "removed"}
  BY DEF Locked, Pending
<1>4. QED
  BY <1>1, <1>2, <1>3, StepOf DEF Inv, Typed

\* Going somewhere, or being done, is a move.
LEMMA GoMoves ==
    ASSUME Typed, NEW r \in Runs, NEW to, Go(r, to)
    PROVE  Moves(r) /\ run'[r].pc = to /\ run'[r].set = run[r].set /\ run'[r].record = run[r].record
BY DEF Typed, Go, Moves

LEMMA DoneMoves ==
    ASSUME Typed, NEW r \in Runs, NEW code, Done(r, code)
    PROVE  Moves(r) /\ run'[r].pc = "done" /\ run'[r].set = run[r].set /\ run'[r].record = run[r].record
BY DEF Typed, Done, Moves

LEMMA FullScanMoves ==
    ASSUME Typed, NEW r \in Runs, NEW to, FullScan(r, to)
    PROVE  Moves(r) /\ run'[r].pc = to /\ JobsSame
<1>1. JobsSame
  BY JobsStay DEF FullScan
<1>2. Moves(r) /\ run'[r].pc = to
  BY DEF FullScan, Typed, Moves
<1>3. QED
  BY <1>1, <1>2

LEMMA ComparedMoves ==
    ASSUME Typed, NEW r \in Runs, NEW q, NEW listed, NEW late,
           run' = [run EXCEPT ![r].pc = "viewed", ![r].base = q, ![r].shown = listed, ![r].raced = late]
    PROVE  Moves(r) /\ run'[r].pc = "viewed"
BY DEF Typed, Moves

LEMMA ScanSteps == ASSUME Inv, NEW r \in Runs, ScanStep(r) PROVE Inv'
<1>1. UNCHANGED <<triage, doc, standing, holder>>
  BY DEF ScanStep, Scan, Stamp, Save, View, ApplyTriage, Render, stores, ghosts
<1>2. Typed
  BY DEF Inv
<1>3. CASE Scan(r)
  <2>1. \/ UNCHANGED session /\ Done(r, 2)
        \/ MayFail /\ Done(r, 3)
        \/ FullScan(r, "scanned")
    BY <1>3 DEF Scan
  <2>2. Moves(r) /\ JobsSame /\ run'[r].pc \in {"done", "scanned"}
    BY <1>2, <2>1, DoneMoves, FullScanMoves, JobsStay
  <2>3. QED
    BY <1>1, <2>2, AwayFromStores DEF Locked
<1>4. CASE Stamp(r)
  <2>1. Moves(r) /\ run'[r].pc \in {"stamped", "saved"}
    BY <1>2, <1>4, GoMoves DEF Stamp, Typed, Moves
  <2>2. QED
    BY <1>1, <1>2, <1>4, <2>1, AwayFromStores, JobsStay DEF Stamp, Locked
<1>5. CASE Save(r)
  BY <1>1, <1>2, <1>5, GoMoves, AwayFromStores, JobsStay DEF Save, Locked
<1>6. CASE View(r)
  <2>1. Moves(r) /\ run'[r].pc = "viewed"
    <3>1. CASE run' = [run EXCEPT ![r].pc = "viewed", ![r].shown = run[r].found]
      BY <1>2, <3>1 DEF Typed, Moves
    <3>2. CASE \E q \in LoadPrevious : \E listed \in Added(run[r].found, q.ids) :
                  run' = [run EXCEPT ![r].pc = "viewed", ![r].base = q, ![r].shown = listed,
                              ![r].raced = \E p \in reports : p.of # r /\ p.stamp >= run[r].stamp]
      <4>1. PICK q, listed :
                  run' = [run EXCEPT ![r].pc = "viewed", ![r].base = q, ![r].shown = listed,
                              ![r].raced = \E p \in reports : p.of # r /\ p.stamp >= run[r].stamp]
        BY <3>2
      <4> DEFINE late == \E p \in reports : p.of # r /\ p.stamp >= run[r].stamp
      <4>2. run' = [run EXCEPT ![r].pc = "viewed", ![r].base = q, ![r].shown = listed, ![r].raced = late]
        BY <4>1, Zenon
      <4> HIDE DEF late
      <4>3. QED
        BY <1>2, <4>2, ComparedMoves
    <3>3. QED
      BY <1>6, <3>1, <3>2 DEF View
  <2>2. MayFail \/ UNCHANGED session
    BY <1>6, ZenonT(40) DEF View
  <2>3. QED
    BY <1>1, <1>2, <2>1, <2>2, AwayFromStores, JobsStay DEF Locked
<1>7. CASE ApplyTriage(r)
  <2>1. Moves(r) /\ run'[r].pc = "triaged"
    BY <1>2, <1>7 DEF ApplyTriage, Typed, Moves
  <2>2. QED
    BY <1>1, <1>2, <1>7, <2>1, AwayFromStores, JobsStay DEF ApplyTriage, Locked
<1>8. CASE Render(r)
  BY <1>1, <1>2, <1>8, DoneMoves, AwayFromStores, JobsStay DEF Render, Locked
<1>9. QED
  BY <1>3, <1>4, <1>5, <1>6, <1>7, <1>8, SMTT(30) DEF ScanStep

LEMMA InitSteps == ASSUME Inv, NEW r \in Runs, InitStep(r) PROVE Inv'
<1>1. UNCHANGED <<triage, doc, standing, holder>>
  BY DEF InitStep, BeginInit, ReadDocument, ReadSignature, Decide, stores, ghosts
<1>2. Typed
  BY DEF Inv
<1>3. CASE BeginInit(r)
  <2>1. \/ UNCHANGED session /\ Done(r, 2)
        \/ MayFail /\ Done(r, 2)
        \/ FullScan(r, "judging")
    BY <1>3 DEF BeginInit
  <2>2. Moves(r) /\ JobsSame /\ run'[r].pc \in {"done", "judging"}
    BY <1>2, <2>1, DoneMoves, FullScanMoves, JobsStay
  <2>3. QED
    BY <1>1, <2>2, AwayFromStores DEF Locked
<1>4. CASE ReadDocument(r)
  <2>1. Moves(r) /\ run'[r].pc \in {"halfread", "read"}
    BY <1>2, <1>4 DEF ReadDocument, Typed, Moves
  <2>2. QED
    BY <1>1, <1>2, <1>4, <2>1, AwayFromStores, JobsStay DEF ReadDocument, Locked
<1>5. CASE ReadSignature(r)
  <2>1. Moves(r) /\ run'[r].pc = "read"
    BY <1>2, <1>5 DEF ReadSignature, Typed, Moves
  <2>2. QED
    BY <1>1, <1>2, <1>5, <2>1, AwayFromStores, JobsStay DEF ReadSignature, Locked
<1>6. CASE Decide(r)
  <2>1. Moves(r) /\ run'[r].pc = "done"
    BY <1>2, <1>6 DEF Decide, Typed, Moves
  <2>2. QED
    BY <1>1, <1>2, <1>6, <2>1, AwayFromStores, JobsStay DEF Decide, Locked
<1>7. QED
  BY <1>3, <1>4, <1>5, <1>6 DEF InitStep

LEMMA ProposeOrWithdraw == ASSUME Inv, NEW r \in Runs, Propose(r) \/ Withdraw(r) PROVE Inv'
<1>1. UNCHANGED <<session, triage, doc, standing, holder>> /\ Typed
  BY DEF Propose, Withdraw, stores, ghosts, Inv
<1>2. Moves(r) /\ run'[r].pc \in {"done", "ready"}
  <2>1. CASE Withdraw(r)
    BY <1>1, <2>1, DoneMoves, GoMoves DEF Withdraw
  <2>2. CASE Propose(r)
    <3>1. CASE Done(r, 2)
      BY <1>1, <3>1, DoneMoves
    <3>2. CASE ~Done(r, 2)
      BY <1>1, <2>2, <3>2 DEF Propose, Typed, Moves
    <3>3. QED
      BY <3>1, <3>2
  <2>3. QED
    BY <2>1, <2>2
<1>3. QED
  BY <1>1, <1>2, AwayFromStores, JobsStay DEF Locked

\* Giving up, or ending, with what the lock holds as it was.
LEMMA FinishKeeps ==
    ASSUME Inv, NEW r \in Runs, NEW code, Finish(r, code), JobsSame,
           UNCHANGED <<triage, doc, standing>>
    PROVE  Inv'
<1>1. Moves(r) /\ run'[r].pc = "done"
  BY DoneMoves DEF Finish, Inv
<1>2. QED
  BY <1>1, AwayFromStores DEF Finish, Locked

LEMMA LockStep == ASSUME Inv, NEW r \in Runs, Lock(r) PROVE Inv'
<1>1. UNCHANGED <<session, triage, doc, standing>> /\ Typed /\ JobsSame
  BY JobsStay DEF Lock, stores, ghosts, Inv
<1>2. CASE ~Free(r)
  BY <1>1, <1>2, DoneMoves, AwayFromStores DEF Lock, Locked
<1>3. CASE Free(r)
  <2>1. Go(r, "locked") /\ holder' = [holder EXCEPT ![Store(r)] = r] /\ holder[Store(r)] = None
    BY <1>3 DEF Lock, Free
  <2>2. Moves(r) /\ run'[r].pc = "locked"
    BY <1>1, <2>1, GoMoves
  <2>3. /\ DOMAIN holder' = Stores
        /\ \A s \in Stores : holder'[s] = holder[s] \/ holder[s] \in {r, None}
        /\ holder'[Store(r)] = r
    BY <1>1, <2>1, StoreType DEF Typed
  <2>4. AnswersAreKept'
    BY <1>1 DEF Inv, AnswersAreKept
  <2>5. QED
    BY <1>1, <2>2, <2>3, <2>4, StepOf DEF Pending, Typed
<1>4. QED
  BY <1>2, <1>3

\* A store that a command has read and will rewrite holds what stands.
LEMMA HeldStands ==
    ASSUME Inv, NEW r \in Runs, ~Unusable(r)
    PROVE  Held(r) = standing[Store(r)]
<1>1. CASE Judges(r)
  BY <1>1 DEF Inv, AnswersAreKept, Unusable, Verified, Held, Store
<1>2. CASE ~Judges(r)
  BY <1>2 DEF Inv, Typed, AnswersAreKept, Unusable, TriageFaults, Held, Store
<1>3. QED
  BY <1>1, <1>2

LEMMA LoadStep == ASSUME Inv, NEW r \in Runs, Load(r) PROVE Inv'
<1>1. UNCHANGED <<session, triage, doc, standing>> /\ Typed /\ JobsSame
  BY JobsStay DEF Load, stores, ghosts, Inv
<1>2. CASE Finish(r, 2) \/ Finish(r, 3)
  BY <1>1, <1>2, FinishKeeps
<1>3. CASE ~Unusable(r) /\ run' = [run EXCEPT ![r].pc = "loaded", ![r].set = Rewritten(r)] /\ UNCHANGED holder
  <2>1. /\ Moves(r) /\ run'[r].pc = "loaded" /\ run'[r].set = Rewritten(r)
        /\ run'[r].record = run[r].record
    BY <1>1, <1>3 DEF Typed, Moves
  <2>2. Rewritten(r) = Wanted(r)
    BY <1>3, HeldStands DEF Rewritten, Wanted
  <2>3. Wanted(r)' = Wanted(r)
    BY <1>1, <2>1 DEF Wanted, Records, Judges, Store, Job
  <2>4. holder[Store(r)] = r
    BY DEF Load, Inv, LockInv, Locked
  <2>5. AnswersAreKept'
    BY <1>1 DEF Inv, AnswersAreKept
  <2>6. QED
    BY <1>1, <1>3, <2>1, <2>2, <2>3, <2>4, <2>5, StepOf DEF Typed
<1>4. QED
  BY <1>2, <1>3 DEF Load

\* A write that lands: the store and the answers that stand change together.
LEMMA Committed ==
    ASSUME Inv, NEW r \in Runs, Commit(r), holder[Store(r)] = r,
           run[r].pc \in Pending, NEW to, to \notin Pending,
           Moves(r), run'[r].pc = to, JobsSame,
           to \in Locked => holder' = holder,
           to \in {"signed", "removed"} => Judges(r),
           holder' = holder \/ Release(r),
           ~Judges(r) => triage' = (IF run[r].set = {} THEN Absent ELSE Whole(run[r].set)) /\ UNCHANGED doc,
           Judges(r) => /\ doc' = Whole(run[r].set) \/ (run[r].set = {} /\ doc' = Absent)
                        /\ UNCHANGED triage
    PROVE  Inv'
<1>1. run[r].set = Wanted(r)
  BY DEF Inv, SetInv
<1>2. standing' = [standing EXCEPT ![Store(r)] = run[r].set]
  BY <1>1 DEF Commit, Wanted
<1>3. /\ DOMAIN standing' = Stores
      /\ standing'[Store(r)] = run[r].set
      /\ \A s \in Stores : standing'[s] = standing[s] \/ holder[s] = r
      /\ \A s \in Stores \ {Store(r)} : standing'[s] = standing[s]
  BY <1>2, StoreType DEF Inv, Typed
<1>4. AnswersAreKept' /\ triage'.state \in {"absent", "whole", "holed", "unreadable"}
  <2>1. CASE ~Judges(r)
    BY <1>3, <2>1 DEF Inv, Typed, AnswersAreKept, Absent, Whole, Store, Stores
  <2>2. CASE Judges(r)
    <3>1. standing'["judgements"] = run[r].set /\ standing'["triage"] = standing["triage"]
      BY <1>3, <2>2 DEF Store, Stores
    <3>2. UNCHANGED triage /\ doc'.records = run[r].set
      BY <2>2 DEF Absent, Whole
    <3>3. QED
      BY <3>1, <3>2 DEF Inv, Typed, AnswersAreKept
  <2>3. QED
    BY <2>1, <2>2
<1>5. DOMAIN holder' = Stores /\ \A s \in Stores : holder'[s] = holder[s] \/ holder[s] = r
  BY DEF Inv, Typed, Release
<1>6. QED
  BY <1>3, <1>4, <1>5, StepOf DEF Pending

LEMMA SaveTriageStep == ASSUME Inv, NEW r \in Runs, SaveTriage(r) PROVE Inv'
<1>1. run[r].pc = "loaded" /\ ~Judges(r) /\ Typed /\ JobsSame /\ UNCHANGED doc
  BY JobsStay DEF SaveTriage, Inv
<1>2. CASE Finish(r, 3) /\ UNCHANGED <<triage, ghosts>>
  BY <1>1, <1>2, FinishKeeps DEF ghosts
<1>3. CASE triage' = (IF run[r].set = {} THEN Absent ELSE Whole(run[r].set)) /\ Commit(r) /\ Finish(r, 0)
  <2>1. Moves(r) /\ run'[r].pc = "done" /\ Release(r)
    BY <1>1, <1>3, DoneMoves DEF Finish
  <2>2. holder[Store(r)] = r /\ "done" \notin Locked /\ "done" \notin Pending /\ run[r].pc \in Pending
    BY <1>1 DEF Inv, LockInv, Locked, Pending
  <2>3. QED
    BY <1>1, <1>3, <2>1, <2>2, Committed
<1>4. QED
  BY <1>2, <1>3 DEF SaveTriage

LEMMA WriteSignatureStep == ASSUME Inv, NEW r \in Runs, WriteSignature(r) PROVE Inv'
<1>1. /\ run[r].pc = "loaded" /\ Judges(r) /\ Typed /\ JobsSame
      /\ UNCHANGED <<triage, doc, standing>>
  BY JobsStay DEF WriteSignature, Inv, ghosts
<1>2. CASE Finish(r, 3)
  BY <1>1, <1>2, FinishKeeps
<1>3. CASE Go(r, "signed") /\ UNCHANGED holder
  <2>1. /\ Moves(r) /\ run'[r].pc = "signed" /\ run'[r].set = run[r].set
        /\ run'[r].record = run[r].record
    BY <1>1, <1>3, GoMoves
  <2>2. run[r].set = Wanted(r) /\ holder[Store(r)] = r
    BY <1>1 DEF Inv, SetInv, LockInv, Locked, Pending
  <2>3. Wanted(r)' = Wanted(r)
    BY <1>1, <2>1 DEF Wanted, Records, Judges, Store, Job, JobsSame
  <2>4. AnswersAreKept'
    BY <1>1 DEF Inv, AnswersAreKept
  <2>5. QED
    BY <1>1, <1>3, <2>1, <2>2, <2>3, <2>4, StepOf DEF Typed
<1>4. QED
  BY <1>2, <1>3 DEF WriteSignature

LEMMA WriteDocumentStep == ASSUME Inv, NEW r \in Runs, WriteDocument(r) PROVE Inv'
<1>1. run[r].pc = "signed" /\ Judges(r) /\ Typed /\ JobsSame /\ UNCHANGED triage
  BY JobsStay DEF WriteDocument, Inv, VerbInv
<1>2. CASE Finish(r, 3) /\ UNCHANGED <<doc, ghosts>>
  BY <1>1, <1>2, FinishKeeps DEF ghosts
<1>3. CASE doc' = Whole(run[r].set) /\ Commit(r) /\ Finish(r, 0)
  <2>1. Moves(r) /\ run'[r].pc = "done" /\ Release(r)
    BY <1>1, <1>3, DoneMoves DEF Finish
  <2>2. holder[Store(r)] = r /\ "done" \notin Locked /\ "done" \notin Pending /\ run[r].pc \in Pending
    BY <1>1 DEF Inv, LockInv, Locked, Pending
  <2>3. QED
    BY <1>1, <1>3, <2>1, <2>2, Committed
<1>4. QED
  BY <1>2, <1>3 DEF WriteDocument

LEMMA RemoveDocumentStep == ASSUME Inv, NEW r \in Runs, RemoveDocument(r) PROVE Inv'
<1>1. run[r].pc = "loaded" /\ Judges(r) /\ run[r].set = {} /\ Typed /\ JobsSame /\ UNCHANGED triage
  BY JobsStay DEF RemoveDocument, Inv
<1>2. CASE Finish(r, 3) /\ UNCHANGED <<doc, ghosts>>
  BY <1>1, <1>2, FinishKeeps DEF ghosts
<1>3. CASE doc' = Absent /\ Commit(r) /\ Go(r, "removed") /\ UNCHANGED holder
  <2>1. Moves(r) /\ run'[r].pc = "removed"
    BY <1>1, <1>3, GoMoves
  <2>2. holder[Store(r)] = r /\ "removed" \notin Pending /\ run[r].pc \in Pending
    BY <1>1 DEF Inv, LockInv, Locked, Pending
  <2>3. QED
    BY <1>1, <1>3, <2>1, <2>2, Committed
<1>4. QED
  BY <1>2, <1>3 DEF RemoveDocument

LEMMA RemoveSignatureStep == ASSUME Inv, NEW r \in Runs, RemoveSignature(r) PROVE Inv'
<1>1. JobsSame /\ UNCHANGED <<triage, doc, standing>> /\ (Finish(r, 0) \/ Finish(r, 3))
  BY JobsStay DEF RemoveSignature, Inv, ghosts
<1>2. QED
  BY <1>1, FinishKeeps

LEMMA KillStep == ASSUME Inv, NEW r \in Runs, Kill(r) PROVE Inv'
<1>1. Moves(r) /\ run'[r].pc = "killed" /\ JobsSame /\ UNCHANGED <<triage, doc, standing>> /\ Release(r)
  BY GoMoves, JobsStay DEF Kill, Inv, stores, ghosts
<1>2. QED
  BY <1>1, AwayFromStores DEF Locked

\* The host changes, or a stored file is damaged: a store that is damaged can
\* no longer be read in full.
LEMMA WorldStep == ASSUME Inv, ChangeHost \/ Damage PROVE Inv'
<1>1. UNCHANGED <<holder, run, standing>> /\ JobsSame
  BY JobsStay DEF ChangeHost, Damage, Alter, ghosts, Inv
<1>2. \A r \in Runs : /\ Store(r)' = Store(r) /\ Judges(r)' = Judges(r)
                      /\ Wanted(r)' = Wanted(r)
  BY <1>1 DEF JobsSame, Job, Store, Judges, Records, Wanted
<1>3. /\ triage'.state \in {"absent", "whole", "holed", "unreadable"}
      /\ AnswersAreKept'
  <2>1. CASE ChangeHost
    BY <1>1, <2>1 DEF ChangeHost, Alter, stores, Inv, Typed, AnswersAreKept
  <2>2. CASE Damage
    <3>1. CASE UNCHANGED <<triage, doc>>
      BY <1>1, <3>1 DEF Inv, Typed, AnswersAreKept
    <3>2. CASE triage'.state \in {"unreadable", "holed"} /\ UNCHANGED doc
      BY <1>1, <3>2 DEF Inv, AnswersAreKept
    <3>3. CASE doc'.state = "unreadable" /\ UNCHANGED triage
      BY <1>1, <3>3 DEF Inv, Typed, AnswersAreKept
    <3>4. QED
      BY <2>2, <3>1, <3>2, <3>3 DEF Damage
  <2>3. QED
    BY <2>1, <2>2
<1>4. Typed' /\ LockInv' /\ VerbInv' /\ SetInv'
  BY <1>1, <1>2, <1>3 DEF Inv, Typed, LockInv, VerbInv, SetInv, JobsSame
<1>5. QED
  BY <1>3, <1>4 DEF Inv

-----------------------------------------------------------------------------
LEMMA InvInit == Init => Inv
<1> SUFFICES ASSUME Init PROVE Inv
  OBVIOUS
<1>1. \A r \in Runs : run[r].pc = "idle" /\ {"pc", "set", "record", "exit"} \subseteq DOMAIN run[r]
  BY DEF Init, Idle
<1>2. Typed
  BY <1>1, SessionsAssumption DEF Init, Typed, Stores, Absent
<1>3. LockInv /\ VerbInv /\ SetInv
  BY <1>1 DEF LockInv, VerbInv, SetInv, Locked, Pending
<1>4. AnswersAreKept
  BY DEF Init, AnswersAreKept, Absent
<1>5. QED
  BY <1>2, <1>3, <1>4 DEF Inv

LEMMA InvStep == Inv /\ [Next]_vars => Inv'
<1> SUFFICES ASSUME Inv, [Next]_vars PROVE Inv'
  OBVIOUS
<1>1. ASSUME NEW r \in Runs, ScanStep(r) \/ AnswerStep(r) \/ InitStep(r) \/ Kill(r) PROVE Inv'
  BY <1>1, ScanSteps, InitSteps, KillStep, ProposeOrWithdraw, LockStep, LoadStep, SaveTriageStep,
     WriteSignatureStep, WriteDocumentStep, RemoveDocumentStep, RemoveSignatureStep DEF AnswerStep
<1>2. CASE ChangeHost \/ Damage
  BY <1>2, WorldStep
<1>3. CASE UNCHANGED vars
  <2>1. UNCHANGED <<session, triage, doc, holder, run, standing>>
    BY <1>3 DEF vars
  <2>2. \A r \in Runs : Store(r)' = Store(r) /\ Judges(r)' = Judges(r) /\ Wanted(r)' = Wanted(r)
    BY <2>1 DEF Job, Store, Judges, Records, Wanted
  <2>3. QED
    BY <2>1, <2>2 DEF Inv, Typed, LockInv, VerbInv, SetInv, AnswersAreKept
<1>4. QED
  BY <1>1, <1>2, <1>3 DEF Next

\* The triage store and the store of judgements hold, whenever they can be
\* read, exactly the answers commands have stored and nobody has replaced or
\* withdrawn: however `triage` and `adjudicate` commands interleave, are killed
\* or fail between their reads and their writes (adjudicate.go, triage.go).
THEOREM AnswersAlwaysKept == Spec => []AnswersAreKept
<1>1. Inv => AnswersAreKept
  BY DEF Inv
<1>2. QED
  BY <1>1, InvInit, InvStep, PTL DEF Spec

\* Two commands are never both between the read of a store and its write.
THEOREM OneRewriterOfAStore ==
    Spec => [](\A p, q \in Runs :
                   {run[p].pc, run[q].pc} \subseteq Locked /\ Store(p) = Store(q) => p = q)
<1>1. Inv => \A p, q \in Runs :
                 {run[p].pc, run[q].pc} \subseteq Locked /\ Store(p) = Store(q) => p = q
  <2>1. Inv => \A p \in Runs : run[p].pc \in Locked => holder[Store(p)] = p
    BY DEF Inv, LockInv
  <2>2. QED
    BY <2>1
<1>2. QED
  BY <1>1, InvInit, InvStep, PTL DEF Spec
-----------------------------------------------------------------------------
(* The scans, and `baseline init`.                                         *)

Fields == {"pc", "found", "gaps", "saw", "stamp", "base", "raced", "shown", "hidden", "record",
           "set", "stood", "faulty", "at", "meaning", "exit"}

\* Where the three kinds of command can be.
Scanning == {"scanned", "stamped", "saved", "viewed", "triaged"}
Answering == {"ready", "locked", "loaded", "signed", "removed"}
Reading == {"judging", "halfread", "read"}
Ended == {"done", "killed"}

PhaseOf(r) ==
    /\ run[r].pc \in Scanning => Job(r).verb = "scan"
    /\ run[r].pc \in Answering => Records(r) \/ Withdraws(r)
    /\ run[r].pc \in Reading => Job(r).verb = "init"

\* What the gaps of a scan are: of what it saw, of what it was asked for, and
\* of the triage store.
GapsSeen(j, saw, faulty) ==
    {g \in {"integrity-coverage", "unread", "aur-provenance", "privdrop", "privilege-coverage",
            "triage-store"} :
        \/ g = "integrity-coverage" /\ j.tier # "meta" /\ "contents" \notin saw
        \/ g = "unread" /\ "unread" \in saw
        \/ g = "aur-provenance" /\ j.noNet
        \/ g = "privdrop" /\ "kept" \in saw
        \/ g = "privilege-coverage" /\ Degraded(j)
        \/ g = "triage-store" /\ faulty}

VerdictOf(r) ==
    /\ run[r].pc \in Scanning \/ Reported(r) =>
           ~Refused(Job(r)) /\ run[r].gaps = GapsSeen(Job(r), run[r].saw, run[r].faulty)
    /\ run[r].pc \in Scanning \ {"triaged"} => ~run[r].faulty
    /\ Reported(r) => run[r].exit = Verdict(r) \/ (run[r].exit = 2 /\ Verdict(r) = 0)

\* A record that a command made of a finding it saw.
Genuine(rec, saw) ==
    /\ rec.verb \in Verbs /\ rec.at \in Nat /\ rec.expires \in Nat
    /\ rec.expires <= rec.at + MaxDays[rec.verb]
    /\ rec.fp[3] = "rule" => rec.verb = "adjudicate"
    /\ \E f \in saw : /\ rec.fp[1] = f.rule
                      /\ rec.fp[3] # "rule" => rec.fp[2] = f.subject
                      /\ rec.fp[3] = "pin" => rec.evidence = f.evidence

SelfOf(r) ==
    /\ DOMAIN run[r] = Fields /\ run[r].stamp \in Nat /\ run[r].at \in Nat
    /\ run[r].pc = "idle" => run[r] = Idle
    /\ PhaseOf(r) /\ VerdictOf(r)
    /\ run[r].pc \notin {"viewed", "triaged"} \cup Ended => run[r].base = NoReport
    /\ run[r].pc \notin {"triaged"} \cup Ended => run[r].hidden = {}
    /\ run[r].pc \in Answering \ {"removed"} /\ Records(r) =>
           Genuine(run[r].record, run[r].found) /\ run[r].record.verb = Job(r).verb

\* The report a run is compared with is of a run that has scanned.
ViewOf(r) ==
    run[r].pc \in {"viewed", "triaged", "done"} /\ run[r].base.of # None =>
        /\ run[r].base.of \in Runs /\ run[run[r].base.of].pc # "idle"
        /\ run[r].base.ids = Ids(run[run[r].base.of].found)
        /\ ~run[r].raced => run[r].base.of # r
        /\ run[r].shown \cup run[r].hidden \subseteq run[r].found
        /\ Ids(run[r].shown \cup run[r].hidden) = Ids(run[r].found) \ run[r].base.ids

\* What f stands for in found, the command that answered saw under the same id.
ShownAs(f, found, a) == \E g \in found, h \in a.saw :
    /\ FindingID(g) = FindingID(f) /\ FindingID(h) = FindingID(f)
    /\ a.record.fp[3] = "pin" => g.evidence = h.evidence
HiddenBy(r, f, a) ==
    /\ a.record.verb \in {"ack", "snooze"} /\ InForce(a, r)
    /\ ShownAs(f, run[r].found, a)
HideOf(r) == \A f \in run[r].hidden : \E a \in answers : HiddenBy(r, f, a)

\* These records are all of given answers, of the kind the store is for.
AnsweredIn(store, records, given) ==
    \A q \in records : \E a \in given :
        a.record = q /\ (a.record.verb = "adjudicate" <=> store = "judgements")

ReadOf(r) ==
    run[r].pc \in {"halfread", "read"} =>
        /\ run[r].set \subseteq run[r].stood \/ (run[r].pc = "read" /\ run[r].faulty)
        /\ AnsweredIn("judgements", run[r].stood, answers)

JudgedBy(r, f, a) ==
    /\ a.record.verb = "adjudicate" /\ InForce(a, r)
    /\ a.record \in run[r].stood
    /\ Matches(a.record, f) /\ SameEvidence(a.record, f)
InitOf(r) ==
    IsDone(r, "init") /\ run[r].exit = 0 =>
        /\ run[r].gaps \subseteq Recordable /\ "contents" \in run[r].saw
        /\ \A f \in run[r].found : Critical(f) => \E a \in answers : JudgedBy(r, f, a)

ReportInv == \A p \in reports :
    /\ DOMAIN p = {"of", "stamp", "ids", "whole"}
    /\ p.of \in Runs /\ run[p.of].pc \notin {"idle", "scanned"}
    /\ p.ids = Ids(run[p.of].found) /\ p.stamp = run[p.of].stamp

AnswerInv == \A a \in answers : Genuine(a.record, a.saw)

StoreInv ==
    /\ \A s \in Stores : AnsweredIn(s, standing[s], answers)
    /\ AnsweredIn("triage", triage.records, answers)
    /\ doc.state \in {"absent", "whole", "unreadable"}

HostOK ==
    /\ {"findings", "semantics", "now", "clock"} \subseteq DOMAIN host
    /\ host.now \in Nat /\ host.clock \in Nat

RunInv == \A r \in Runs : SelfOf(r) /\ ViewOf(r) /\ HideOf(r) /\ ReadOf(r) /\ InitOf(r)

Scans == HostOK /\ RunInv /\ ReportInv /\ AnswerInv /\ StoreInv

-----------------------------------------------------------------------------
(* What the invariant says of the properties.                              *)

LEMMA ScansGivesExit == Inv /\ Scans => ExitIsVerdict
<1> SUFFICES ASSUME Inv, Scans, NEW r \in Runs, Reported(r)
             PROVE  LET j == Job(r)
                        complete == /\ j.root \/ (j.offline /\ ~j.degraded)
                                    /\ run[r].saw \cap {"unread", "kept"} = {}
                                    /\ j.tier = "meta" \/ "contents" \in run[r].saw
                                    /\ ~j.noNet /\ ~run[r].faulty
                        grave == \E f \in run[r].found : f.severity >= j.floor IN
                    /\ run[r].exit \in {0, 1} => complete /\ (run[r].exit = 1) = grave
                    /\ run[r].exit = 3 => ~complete
  BY DEF ExitIsVerdict
<1> DEFINE j == Job(r)
           complete == /\ j.root \/ (j.offline /\ ~j.degraded)
                       /\ run[r].saw \cap {"unread", "kept"} = {}
                       /\ j.tier = "meta" \/ "contents" \in run[r].saw
                       /\ ~j.noNet /\ ~run[r].faulty
           grave == \E f \in run[r].found : f.severity >= j.floor
<1>1. VerdictOf(r)
  BY DEF Scans, RunInv, SelfOf
<1>2. ~Refused(j) /\ run[r].gaps = GapsSeen(j, run[r].saw, run[r].faulty)
  BY <1>1 DEF VerdictOf
<1>3. run[r].exit = Verdict(r) \/ (run[r].exit = 2 /\ Verdict(r) = 0)
  BY <1>1 DEF VerdictOf
<1>4. run[r].gaps = {} <=> complete
  BY <1>2, Zenon DEF GapsSeen, Refused, Degraded
<1>5. Verdict(r) = IF run[r].gaps # {} THEN 3 ELSE IF grave THEN 1 ELSE 0
  BY DEF Verdict, ExitCode
<1>6. grave \in BOOLEAN
  OBVIOUS
<1> HIDE DEF complete, grave
<1>7. /\ run[r].exit \in {0, 1} => complete /\ (run[r].exit = 1) = grave
      /\ run[r].exit = 3 => ~complete
  BY <1>3, <1>4, <1>5, <1>6
<1>8. QED
  BY <1>7 DEF complete, grave

LEMMA ScansGivesSince == Inv /\ Scans => SinceLastIsDifference
BY DEF Scans, RunInv, ViewOf, SinceLastIsDifference

LEMMA ScansGivesHidden == Inv /\ Scans => HiddenWasAnswered
BY DEF Scans, RunInv, HideOf, HiddenBy, ShownAs, HiddenWasAnswered

LEMMA ScansGivesBaseline == Inv /\ Scans => BaselineIsJudged
BY DEF Scans, RunInv, InitOf, JudgedBy, BaselineIsJudged

-----------------------------------------------------------------------------
(* A step of one run.                                                      *)

\* r moves, and what others may rely on of it stays: what it has found, the
\* stamp of its report, and every answer there is.
Steps(r) ==
    /\ Moves(r) /\ JobsSame
    /\ run'[r].pc # "idle"
    /\ run[r].pc # "idle" => run'[r].found = run[r].found
    /\ run[r].pc \notin {"idle", "scanned"} =>
           run'[r].stamp = run[r].stamp /\ run'[r].pc # "scanned"
    /\ answers \subseteq answers'

Own(r) == SelfOf(r) /\ ViewOf(r) /\ HideOf(r) /\ ReadOf(r) /\ InitOf(r)

LEMMA JobOf ==
    ASSUME JobsSame, NEW q
    PROVE  /\ Job(q)' = Job(q) /\ Store(q)' = Store(q) /\ Judges(q)' = Judges(q)
           /\ Records(q)' = Records(q) /\ Withdraws(q)' = Withdraws(q)
BY DEF JobsSame, Job, Store, Judges, Records, Withdraws

\* More answers take no reason away.
LEMMA MoreAnswers ==
    ASSUME NEW store, NEW records, NEW few, NEW more, few \subseteq more, AnsweredIn(store, records, few)
    PROVE  AnsweredIn(store, records, more)
BY DEF AnsweredIn

\* Whoever does not move keeps its part.
LEMMA OthersKeep ==
    ASSUME Scans, JobsSame, answers \subseteq answers',
           NEW q \in Runs, run'[q] = run[q], Own(q),
           \A p \in Runs : run[p].pc # "idle" => run'[p].found = run[p].found /\ run'[p].pc # "idle"
    PROVE  Own(q)'
<1>1. Job(q)' = Job(q) /\ Records(q)' = Records(q) /\ Withdraws(q)' = Withdraws(q)
  BY JobOf
<1>2. SelfOf(q)'
  <2>1. PhaseOf(q)'
    BY <1>1 DEF Own, SelfOf, PhaseOf
  <2>2. VerdictOf(q)'
    BY <1>1 DEF Own, SelfOf, VerdictOf, Reported, IsDone, Verdict
  <2>3. QED
    BY <1>1, <2>1, <2>2 DEF Own, SelfOf
<1>3. ViewOf(q)'
  BY DEF Own, ViewOf
<1>4. HideOf(q)'
  BY DEF Own, HideOf, HiddenBy, ShownAs, InForce
<1>5. ReadOf(q)'
  BY MoreAnswers DEF Own, ReadOf
<1>6. InitOf(q)'
  BY <1>1 DEF Own, InitOf, JudgedBy, InForce, IsDone
<1>7. QED
  BY <1>2, <1>3, <1>4, <1>5, <1>6 DEF Own

\* The invariant after a step of r, once its own part and the stores are seen to.
LEMMA ScansStepOf ==
    ASSUME Scans, NEW r \in Runs, Steps(r), Own(r)', HostOK', ReportInv', AnswerInv', StoreInv'
    PROVE  Scans'
<1>1. \A p \in Runs : run[p].pc # "idle" => run'[p].found = run[p].found /\ run'[p].pc # "idle"
  BY DEF Steps, Moves
<1>2. ASSUME NEW q \in Runs \ {r} PROVE Own(q)'
  <2>1. run'[q] = run[q] /\ Own(q)
    BY DEF Steps, Moves, Scans, RunInv, Own
  <2>2. QED
    BY <1>1, <2>1, OthersKeep DEF Steps
<1>3. RunInv'
  BY <1>2 DEF RunInv, Own
<1>4. QED
  BY <1>3 DEF Scans

\* The reports there are stay those of runs that have scanned.
LEMMA ReportsKeep ==
    ASSUME Scans, NEW r \in Runs, Steps(r), UNCHANGED reports
    PROVE  ReportInv'
<1> SUFFICES ASSUME NEW p \in reports
             PROVE  /\ DOMAIN p = {"of", "stamp", "ids", "whole"}
                    /\ p.of \in Runs /\ run'[p.of].pc \notin {"idle", "scanned"}
                    /\ p.ids = Ids(run'[p.of].found) /\ p.stamp = run'[p.of].stamp
  BY DEF ReportInv
<1>1. /\ DOMAIN p = {"of", "stamp", "ids", "whole"}
      /\ p.of \in Runs /\ run[p.of].pc \notin {"idle", "scanned"}
      /\ p.ids = Ids(run[p.of].found) /\ p.stamp = run[p.of].stamp
  BY DEF Scans, ReportInv
<1>2. CASE p.of = r
  BY <1>1, <1>2 DEF Steps
<1>3. CASE p.of # r
  BY <1>1, <1>3 DEF Steps, Moves
<1>4. QED
  BY <1>2, <1>3

\* A step that leaves the answers and their stores alone.
LEMMA StoresKeep ==
    ASSUME Scans, UNCHANGED <<answers, standing, triage, doc>>
    PROVE  AnswerInv' /\ StoreInv'
BY DEF Scans, AnswerInv, StoreInv, AnsweredIn

LEMMA QuietStep ==
    ASSUME Scans, NEW r \in Runs, Steps(r), Own(r)', UNCHANGED <<host, reports, answers, standing, triage, doc>>
    PROVE  Scans'
<1>1. HostOK'
  BY DEF Scans, HostOK
<1>2. QED
  BY <1>1, ReportsKeep, StoresKeep, ScansStepOf

\* A run is in one place.
LEMMA OwnOf == ASSUME Scans, NEW r \in Runs PROVE Own(r) /\ SelfOf(r) /\ PhaseOf(r) /\ VerdictOf(r)
BY DEF Scans, RunInv, Own, SelfOf

\* A command that records or withdraws has nothing to show as a scan or as a
\* `baseline init`.
LEMMA AnsweringOwn ==
    ASSUME Scans, NEW r \in Runs, Steps(r), Records(r) \/ Withdraws(r),
           run[r].pc \in Answering \cup {"idle"}, run'[r].pc \in Answering \cup {"done"},
           DOMAIN run'[r] = Fields, run'[r].stamp \in Nat, run'[r].at \in Nat,
           run'[r].base = run[r].base, run'[r].hidden = run[r].hidden,
           run'[r].pc \in Answering \ {"removed"} /\ Records(r) =>
               Genuine(run'[r].record, run'[r].found) /\ run'[r].record.verb = Job(r).verb
    PROVE  Own(r)'
<1>1. /\ Job(r)' = Job(r) /\ Records(r)' = Records(r) /\ Withdraws(r)' = Withdraws(r)
      /\ Job(r).verb \notin {"scan", "init"}
  BY JobOf DEF Steps, Records, Withdraws
<1>2. run[r].base = NoReport /\ run[r].hidden = {}
  <2>1. SelfOf(r)
    BY OwnOf
  <2>2. QED
    BY <2>1 DEF SelfOf, Answering, Ended
<1>3. PhaseOf(r)' /\ VerdictOf(r)'
  BY <1>1 DEF PhaseOf, VerdictOf, Reported, IsDone, Answering, Scanning, Reading
<1>4. SelfOf(r)'
  BY <1>1, <1>2, <1>3 DEF SelfOf, Answering
<1>5. ViewOf(r)' /\ HideOf(r)' /\ ReadOf(r)' /\ InitOf(r)'
  BY <1>1, <1>2 DEF ViewOf, HideOf, ReadOf, InitOf, IsDone, NoReport, Answering
<1>6. QED
  BY <1>4, <1>5 DEF Own

-----------------------------------------------------------------------------
(* The commands that record and withdraw answers.                          *)

\* Nothing of r changes but these fields.
SameBut(r, fields) ==
    /\ Moves(r) /\ DOMAIN run'[r] = Fields
    /\ \A k \in Fields \ fields : run'[r][k] = run[r][k]

LEMMA GoTo ==
    ASSUME Inv, Scans, NEW r \in Runs, NEW to, Go(r, to)
    PROVE  SameBut(r, {"pc"}) /\ run'[r].pc = to
<1>1. DOMAIN run = Runs /\ DOMAIN run[r] = Fields
  BY OwnOf DEF Inv, Typed, SelfOf
<1>2. QED
  BY <1>1 DEF Go, SameBut, Moves, Fields

LEMMA DoneWith ==
    ASSUME Inv, Scans, NEW r \in Runs, NEW code, Done(r, code)
    PROVE  SameBut(r, {"pc", "exit"}) /\ run'[r].pc = "done" /\ run'[r].exit = code
<1>1. DOMAIN run = Runs /\ DOMAIN run[r] = Fields
  BY OwnOf DEF Inv, Typed, SelfOf
<1>2. QED
  BY <1>1 DEF Done, SameBut, Moves, Fields

LEMMA SameButSteps ==
    ASSUME Scans, NEW r \in Runs, SameBut(r, {"pc", "exit", "set"}), JobsSame,
           run'[r].pc \notin {"idle", "scanned"}, answers \subseteq answers'
    PROVE  Steps(r)
BY DEF Steps, SameBut, Fields

LEMMA Wider ==
    ASSUME NEW r, NEW fewer, NEW more, SameBut(r, fewer), fewer \subseteq more
    PROVE  SameBut(r, more)
BY DEF SameBut

\* A command that goes on, or ends, with its record as it is.
LEMMA AnsweringMoves ==
    ASSUME Inv, Scans, NEW r \in Runs, SameBut(r, {"pc", "exit", "set"}), JobsSame,
           answers \subseteq answers', Records(r) \/ Withdraws(r),
           run[r].pc \in Answering \cup {"idle"}, run'[r].pc \in Answering \cup {"done"},
           run[r].pc \in {"idle", "removed"} /\ Records(r) => run'[r].pc \in {"removed", "done"}
    PROVE  Steps(r) /\ Own(r)'
<1>1. Steps(r)
  BY SameButSteps DEF Answering
<1>2. /\ DOMAIN run'[r] = Fields /\ run'[r].stamp = run[r].stamp /\ run'[r].at = run[r].at
      /\ run'[r].base = run[r].base /\ run'[r].hidden = run[r].hidden
      /\ run'[r].record = run[r].record /\ run'[r].found = run[r].found
  BY DEF SameBut, Fields
<1>3. SelfOf(r)
  BY OwnOf
<1>4. run'[r].pc \in Answering \ {"removed"} /\ Records(r) =>
          Genuine(run[r].record, run[r].found) /\ run[r].record.verb = Job(r).verb
  BY <1>3 DEF SelfOf, Answering
<1>5. run'[r].stamp \in Nat /\ run'[r].at \in Nat
  BY <1>2, <1>3 DEF SelfOf
<1>6. QED
  BY <1>1, <1>2, <1>4, <1>5, AnsweringOwn

\* The record of a finding that was found is genuine.
LEMMA NewIsGenuine ==
    ASSUME NEW f, NEW saw, f \in saw, NEW verb \in Verbs, NEW scope, NEW days, NEW semantics,
           NEW now \in Nat, Admissible(verb, f, scope, days, semantics)
    PROVE  /\ Genuine(New(verb, f, scope, days, semantics, now), saw)
           /\ New(verb, f, scope, days, semantics, now).verb = verb
<1> DEFINE rec == New(verb, f, scope, days, semantics, now)
<1>1. days \in Nat /\ days <= MaxDays[verb] /\ MaxDays[verb] \in Nat
  BY MaxDaysAssumption DEF Admissible
<1>2. /\ rec.verb = verb /\ rec.at = now /\ rec.expires = now + days
      /\ rec.fp[1] = f.rule /\ rec.fp[2] = (IF scope = "rule" THEN "*" ELSE f.subject) /\ rec.fp[3] = scope
      /\ rec.evidence = IF scope = "pin" THEN f.evidence ELSE 0
  BY DEF New, FingerprintFor
<1>3. scope = "rule" => verb = "adjudicate"
  BY DEF Admissible
<1> HIDE DEF rec
<1>4. Genuine(rec, saw)
  BY <1>1, <1>2, <1>3 DEF Genuine
<1>5. QED
  BY <1>2, <1>4 DEF rec

LEMMA ProposeScans == ASSUME Inv, Scans, NEW r \in Runs, Propose(r) PROVE Scans'
<1>1. /\ UNCHANGED <<session, host, reports, triage, doc, holder, answers, standing>>
      /\ run[r].pc = "idle" /\ Records(r) /\ JobsSame
  BY JobsStay DEF Propose, stores, ghosts, Inv
<1>2. CASE Done(r, 2)
  <2>1. SameBut(r, {"pc", "exit", "set"}) /\ run'[r].pc = "done"
    BY <1>2, DoneWith, Wider
  <2>2. Steps(r) /\ Own(r)'
    BY <1>1, <2>1, AnsweringMoves DEF Answering
  <2>3. QED
    BY <1>1, <2>2, QuietStep
<1>3. CASE ~Done(r, 2)
  <2> DEFINE j == Job(r)
  <2>1. PICK f \in Found(j) :
            /\ Admissible(j.verb, f, j.scope, j.days, host.semantics)
            /\ run' = [run EXCEPT ![r].pc = "ready", ![r].found = Found(j), ![r].at = host.now,
                          ![r].record = New(j.verb, f, j.scope, j.days, host.semantics, host.now)]
    BY <1>3 DEF Propose
  <2>2. DOMAIN run = Runs /\ DOMAIN run[r] = Fields /\ SelfOf(r) /\ host.now \in Nat
    BY OwnOf DEF Inv, Typed, SelfOf, Scans, HostOK
  <2> DEFINE rec == New(j.verb, f, j.scope, j.days, host.semantics, host.now)
  <2>3. Genuine(rec, Found(j)) /\ rec.verb = j.verb
    BY <1>1, <2>1, <2>2, NewIsGenuine DEF Records, Verbs
  <2> HIDE DEF rec
  <2>4. run' = [run EXCEPT ![r].pc = "ready", ![r].found = Found(j), ![r].at = host.now,
                           ![r].record = rec]
    BY <2>1 DEF rec
  <2> HIDE DEF j
  <2>5. /\ Moves(r) /\ DOMAIN run'[r] = Fields /\ run'[r].pc = "ready" /\ run'[r].found = Found(j)
        /\ run'[r].at = host.now /\ run'[r].record = rec /\ run'[r].stamp = run[r].stamp
        /\ run'[r].base = run[r].base /\ run'[r].hidden = run[r].hidden
    BY <2>2, <2>4 DEF Moves, Fields
  <2>6. Steps(r) /\ run'[r].stamp \in Nat
    BY <1>1, <2>2, <2>5 DEF Steps, SelfOf
  <2>7. Own(r)'
    BY <1>1, <2>2, <2>3, <2>5, <2>6, AnsweringOwn DEF Answering, j
  <2>8. QED
    BY <1>1, <2>6, <2>7, QuietStep
<1>4. QED
  BY <1>2, <1>3

LEMMA WithdrawScans == ASSUME Inv, Scans, NEW r \in Runs, Withdraw(r) PROVE Scans'
<1>1. /\ UNCHANGED <<session, host, reports, triage, doc, holder, answers, standing>>
      /\ run[r].pc = "idle" /\ Withdraws(r) /\ ~Records(r) /\ JobsSame
  BY JobsStay DEF Withdraw, Withdraws, Records, stores, ghosts, Inv
<1>2. SameBut(r, {"pc", "exit", "set"}) /\ run'[r].pc \in {"done", "ready"}
  BY DoneWith, GoTo, Wider DEF Withdraw
<1>3. Steps(r) /\ Own(r)'
  BY <1>1, <1>2, AnsweringMoves DEF Answering
<1>4. QED
  BY <1>1, <1>3, QuietStep

LEMMA AnsweringVerb ==
    ASSUME Scans, NEW r \in Runs, run[r].pc \in Answering
    PROVE  Records(r) \/ Withdraws(r)
BY OwnOf DEF PhaseOf

LEMMA LockOrLoadScans == ASSUME Inv, Scans, NEW r \in Runs, Lock(r) \/ Load(r) PROVE Scans'
<1>1. /\ UNCHANGED <<session, host, reports, triage, doc, answers, standing>>
      /\ run[r].pc \in {"ready", "locked"} /\ JobsSame
  BY JobsStay DEF Lock, Load, stores, ghosts, Inv
<1>2. SameBut(r, {"pc", "exit", "set"}) /\ run'[r].pc \in {"done", "locked", "loaded"}
  <2>1. CASE run' = [run EXCEPT ![r].pc = "loaded", ![r].set = Rewritten(r)]
    <3>1. DOMAIN run = Runs /\ DOMAIN run[r] = Fields
      BY OwnOf DEF Inv, Typed, SelfOf
    <3>2. QED
      BY <2>1, <3>1 DEF SameBut, Moves, Fields
  <2>2. CASE ~(run' = [run EXCEPT ![r].pc = "loaded", ![r].set = Rewritten(r)])
    BY <2>2, DoneWith, GoTo, Wider DEF Lock, Load, Finish
  <2>3. QED
    BY <2>1, <2>2
<1>3. Records(r) \/ Withdraws(r)
  BY <1>1, AnsweringVerb DEF Answering
<1>4. Steps(r) /\ Own(r)'
  BY <1>1, <1>2, <1>3, AnsweringMoves DEF Answering
<1>5. QED
  BY <1>1, <1>4, QuietStep

\* A write of the signature, the removal of it, a write that fails and the end
\* of the command change nothing that the answers are read from.
LEMMA NothingWritten ==
    ASSUME Inv, Scans, NEW r \in Runs, run[r].pc \in Answering, JobsSame,
           UNCHANGED <<host, reports, triage, doc, answers, standing>>,
           (run[r].pc = "loaded" /\ Go(r, "signed")) \/ (\E code : Finish(r, code))
    PROVE  Scans'
<1>1. /\ SameBut(r, {"pc", "exit", "set"})
      /\ run'[r].pc = "done" \/ (run[r].pc = "loaded" /\ run'[r].pc = "signed")
  BY DoneWith, GoTo, Wider DEF Finish
<1>2. Steps(r) /\ Own(r)'
  BY <1>1, AnsweringVerb, AnsweringMoves DEF Answering
<1>3. QED
  BY <1>2, QuietStep

\* A write that lands: what it makes of the store are answers of its kind.
LEMMA CommitStores ==
    ASSUME Inv, Scans, NEW r \in Runs, Commit(r), run[r].pc \in Pending
    PROVE  /\ answers \subseteq answers' /\ AnswerInv'
           /\ \A s \in Stores : AnsweredIn(s, standing'[s], answers')
           /\ AnsweredIn(Store(r), run[r].set, answers')
<1>1. answers \subseteq answers' /\ Store(r) \in Stores /\ DOMAIN standing = Stores
  BY StoreType DEF Commit, Inv, Typed
<1>2. Records(r) => /\ Genuine(run[r].record, run[r].found) /\ run[r].record.verb = Job(r).verb
                    /\ [record |-> run[r].record, saw |-> run[r].found] \in answers'
  <2>1. Records(r) => /\ Genuine(run[r].record, run[r].found) /\ run[r].record.verb = Job(r).verb
    BY OwnOf DEF SelfOf, Pending, Answering
  <2>2. QED
    BY <2>1 DEF Commit
<1>3. AnswerInv'
  <2>1. ASSUME NEW a \in answers' PROVE Genuine(a.record, a.saw)
    <3>1. CASE a \in answers
      BY <3>1 DEF Scans, AnswerInv
    <3>2. CASE a \notin answers
      <4>1. Records(r) /\ a = [record |-> run[r].record, saw |-> run[r].found]
        BY <3>2 DEF Commit
      <4>2. QED
        BY <1>2, <4>1
    <3>3. QED
      BY <3>1, <3>2
  <2>2. QED
    BY <2>1 DEF AnswerInv
<1>4. AnsweredIn(Store(r), run[r].set, answers')
  <2>1. run[r].set = Wanted(r) /\ AnsweredIn(Store(r), standing[Store(r)], answers)
    BY <1>1 DEF Inv, SetInv, Scans, StoreInv
  <2>2. ASSUME NEW q \in run[r].set
        PROVE  \E a \in answers' : a.record = q /\ (a.record.verb = "adjudicate" <=> Store(r) = "judgements")
    <3>1. CASE q \in standing[Store(r)]
      BY <1>1, <2>1, <3>1 DEF AnsweredIn
    <3>2. CASE q \notin standing[Store(r)]
      <4>1. Records(r) /\ q = run[r].record
        BY <2>1, <3>2 DEF Wanted
      <4>2. Job(r).verb = "adjudicate" <=> Store(r) = "judgements"
        BY <4>1 DEF Records, Store, Judges
      <4>3. QED
        BY <1>2, <4>1, <4>2
    <3>3. QED
      BY <3>1, <3>2
  <2>3. QED
    BY <2>2 DEF AnsweredIn
<1>5. ASSUME NEW s \in Stores PROVE AnsweredIn(s, standing'[s], answers')
  <2>1. AnsweredIn(s, standing[s], answers')
    BY <1>1, MoreAnswers DEF Scans, StoreInv
  <2>2. standing'[s] = standing[s] \/ (s = Store(r) /\ standing'[s] = run[r].set)
    BY <1>1 DEF Commit, Inv, SetInv, Wanted
  <2>3. QED
    BY <1>4, <2>1, <2>2 DEF AnsweredIn
<1>6. QED
  BY <1>1, <1>3, <1>4, <1>5

LEMMA LandedScans ==
    ASSUME Inv, Scans, NEW r \in Runs, Commit(r), run[r].pc \in Pending, JobsSame,
           UNCHANGED <<host, reports>>,
           Finish(r, 0) \/ (run[r].pc = "loaded" /\ Go(r, "removed")),
           \/ ~Judges(r) /\ triage'.records = run[r].set /\ UNCHANGED doc
           \/ UNCHANGED triage /\ doc'.state \in {"absent", "whole", "unreadable"}
    PROVE  Scans'
<1>1. SameBut(r, {"pc", "exit", "set"}) /\ run'[r].pc \in {"done", "removed"}
  BY DoneWith, GoTo, Wider DEF Finish
<1>2. answers \subseteq answers' /\ AnswerInv'
  BY CommitStores
<1>3. Steps(r) /\ Own(r)'
  BY <1>1, <1>2, AnsweringVerb, AnsweringMoves DEF Pending, Answering
<1>4. StoreInv'
  <2>1. AnsweredIn("triage", triage'.records, answers')
    <3>1. CASE ~Judges(r) /\ triage'.records = run[r].set
      BY <3>1, CommitStores DEF Store
    <3>2. CASE UNCHANGED triage
      BY <1>2, <3>2, MoreAnswers DEF Scans, StoreInv
    <3>3. QED
      BY <3>1, <3>2
  <2>2. QED
    BY <2>1, CommitStores DEF Scans, StoreInv
<1>5. HostOK'
  BY DEF Scans, HostOK
<1>6. QED
  BY <1>2, <1>3, <1>4, <1>5, ReportsKeep, ScansStepOf

LEMMA WriteScans ==
    ASSUME Inv, Scans, NEW r \in Runs,
           \/ SaveTriage(r) \/ WriteSignature(r) \/ WriteDocument(r)
           \/ RemoveDocument(r) \/ RemoveSignature(r)
    PROVE  Scans'
<1>1. JobsSame /\ UNCHANGED <<host, reports>>
  BY JobsStay DEF Inv, SaveTriage, WriteSignature, WriteDocument, RemoveDocument, RemoveSignature
<1>2. CASE SaveTriage(r)
  <2>1. CASE Finish(r, 3) /\ UNCHANGED <<triage, doc, ghosts>>
    BY <1>1, <1>2, <2>1, NothingWritten DEF SaveTriage, ghosts, Answering
  <2>2. CASE triage' = (IF run[r].set = {} THEN Absent ELSE Whole(run[r].set)) /\ Commit(r) /\ Finish(r, 0)
    <3>1. triage'.records = run[r].set /\ UNCHANGED doc /\ ~Judges(r) /\ run[r].pc \in Pending
      BY <1>2, <2>2 DEF SaveTriage, Absent, Whole, Pending
    <3>2. QED
      BY <1>1, <2>2, <3>1, LandedScans
  <2>3. QED
    BY <1>2, <2>1, <2>2 DEF SaveTriage
<1>3. CASE WriteSignature(r)
  BY <1>1, <1>3, NothingWritten DEF WriteSignature, ghosts, Answering
<1>4. CASE WriteDocument(r)
  <2>1. CASE Finish(r, 3) /\ UNCHANGED <<doc, ghosts>>
    BY <1>1, <1>4, <2>1, NothingWritten DEF WriteDocument, ghosts, Answering
  <2>2. CASE doc' = Whole(run[r].set) /\ Commit(r) /\ Finish(r, 0)
    BY <1>1, <1>4, <2>2, LandedScans DEF WriteDocument, Whole, Pending
  <2>3. QED
    BY <1>4, <2>1, <2>2 DEF WriteDocument
<1>5. CASE RemoveDocument(r)
  <2>1. CASE Finish(r, 3) /\ UNCHANGED <<doc, ghosts>>
    BY <1>1, <1>5, <2>1, NothingWritten DEF RemoveDocument, ghosts, Answering
  <2>2. CASE doc' = Absent /\ Commit(r) /\ Go(r, "removed")
    BY <1>1, <1>5, <2>2, LandedScans DEF RemoveDocument, Absent, Pending
  <2>3. QED
    BY <1>5, <2>1, <2>2 DEF RemoveDocument
<1>6. CASE RemoveSignature(r)
  BY <1>1, <1>6, NothingWritten DEF RemoveSignature, ghosts, Answering
<1>7. QED
  BY <1>2, <1>3, <1>4, <1>5, <1>6

\* A run that is killed says nothing; what it hid from a listing it hid.
LEMMA KillScans == ASSUME Inv, Scans, NEW r \in Runs, Kill(r) PROVE Scans'
<1>1. JobsSame /\ UNCHANGED <<host, reports, triage, doc, answers, standing>> /\ Go(r, "killed")
  BY JobsStay DEF Kill, Inv, stores, ghosts
<1>2. SameBut(r, {"pc"}) /\ run'[r].pc = "killed"
  BY <1>1, GoTo
<1>3. Steps(r)
  BY <1>1, <1>2, Wider, SameButSteps
<1>4. SelfOf(r) /\ HideOf(r)
  BY OwnOf DEF Own
<1>5. Own(r)'
  <2>1. /\ run'[r].pc = "killed" /\ DOMAIN run'[r] = Fields
        /\ run'[r].stamp = run[r].stamp /\ run'[r].at = run[r].at /\ run'[r].found = run[r].found
        /\ run'[r].hidden = run[r].hidden /\ run'[r].meaning = run[r].meaning
    BY <1>2 DEF SameBut, Fields
  <2>2. SelfOf(r)'
    BY <1>4, <2>1 DEF SelfOf, PhaseOf, VerdictOf, Scanning, Answering, Reading, Reported, IsDone, Ended
  <2>3. HideOf(r)'
    BY <1>1, <1>4, <2>1 DEF HideOf, HiddenBy, ShownAs, InForce
  <2>4. ViewOf(r)' /\ ReadOf(r)' /\ InitOf(r)'
    BY <2>1 DEF ViewOf, ReadOf, InitOf, IsDone
  <2>5. QED
    BY <2>2, <2>3, <2>4 DEF Own
<1>6. QED
  BY <1>1, <1>3, <1>5, QuietStep

-----------------------------------------------------------------------------
(* The scans.                                                              *)

\* The gaps a scan begins with are of what it saw.
LEMMA FullScanFacts ==
    ASSUME Inv, Scans, NEW r \in Runs, NEW to, FullScan(r, to), run[r].pc = "idle"
    PROVE  /\ SameBut(r, {"pc", "found", "at", "gaps", "saw"}) /\ JobsSame
           /\ run'[r].pc = to /\ run'[r].at \in Nat
           /\ Job(r).verb = "scan" => run'[r].gaps = GapsSeen(Job(r), run'[r].saw, FALSE)
<1> DEFINE j == Job(r)
<1>1. DOMAIN run = Runs /\ DOMAIN run[r] = Fields /\ host.now \in Nat
  BY OwnOf DEF Inv, Typed, SelfOf, Scans, HostOK
<1>2. PICK dropped \in DropAll(j) :
          run' = [run EXCEPT ![r].pc = to, ![r].found = Found(j), ![r].at = host.now,
                             ![r].gaps = Gaps(j, dropped),
                             ![r].saw = {w \in {"unread", "contents", "kept"} :
                                            \/ w = "unread" /\ host.unread
                                            \/ w = "contents" /\ host.contents
                                            \/ w = "kept" /\ ~dropped}]
  BY DEF FullScan
<1> DEFINE saw == {w \in {"unread", "contents", "kept"} :
                      \/ w = "unread" /\ host.unread
                      \/ w = "contents" /\ host.contents
                      \/ w = "kept" /\ ~dropped}
           found == Found(j)
           gaps == Gaps(j, dropped)
<1>3. run' = [run EXCEPT ![r].pc = to, ![r].found = found, ![r].at = host.now,
                         ![r].gaps = gaps, ![r].saw = saw]
  BY <1>2
<1>4. j.verb = "scan" => gaps = GapsSeen(j, saw, FALSE)
  BY DEF Gaps, GapsSeen
<1> HIDE DEF found, gaps, saw, j
<1>5. /\ SameBut(r, {"pc", "found", "at", "gaps", "saw"}) /\ run'[r].pc = to /\ run'[r].at = host.now
      /\ run'[r].gaps = gaps /\ run'[r].saw = saw
  BY <1>1, <1>3 DEF SameBut, Moves, Fields
<1>6. JobsSame
  BY JobsStay DEF FullScan, Inv
<1>7. QED
  BY <1>1, <1>4, <1>5, <1>6 DEF j

\* A run that is done before it has scanned.
LEMMA DoneAtOnce ==
    ASSUME Inv, Scans, NEW r \in Runs, run[r].pc = "idle", NEW code, Done(r, code), JobsSame,
           answers \subseteq answers', Job(r).verb = "init" => code # 0
    PROVE  Steps(r) /\ Own(r)'
<1>1. SameBut(r, {"pc", "exit", "set"}) /\ run'[r].pc = "done" /\ run'[r].exit = code
  BY DoneWith, Wider
<1>2. Steps(r)
  BY <1>1, SameButSteps
<1>3. run[r] = Idle
  BY OwnOf DEF SelfOf
<1>4. /\ DOMAIN run'[r] = Fields /\ run'[r].stamp = 0 /\ run'[r].at = 0 /\ run'[r].faulty = FALSE
      /\ run'[r].base = NoReport /\ run'[r].hidden = {}
  BY <1>1, <1>3 DEF SameBut, Fields, Idle
<1>5. Job(r)' = Job(r)
  BY JobOf
<1>6. SelfOf(r)'
  BY <1>1, <1>4 DEF SelfOf, PhaseOf, VerdictOf, Scanning, Answering, Reading, Reported, IsDone
<1>7. ViewOf(r)' /\ HideOf(r)' /\ ReadOf(r)' /\ InitOf(r)'
  BY <1>1, <1>4, <1>5 DEF ViewOf, HideOf, ReadOf, InitOf, IsDone, NoReport
<1>8. QED
  BY <1>2, <1>6, <1>7 DEF Own

LEMMA ScanScans == ASSUME Inv, Scans, NEW r \in Runs, Scan(r) PROVE Scans'
<1>1. /\ UNCHANGED <<host, reports, triage, doc, answers, standing>>
      /\ run[r].pc = "idle" /\ Job(r).verb = "scan" /\ JobsSame
  BY JobsStay, FullScanFacts DEF Scan, stores, ghosts, Inv
<1>2. CASE \E code : Done(r, code)
  BY <1>1, <1>2, DoneAtOnce, QuietStep
<1>3. CASE ~Refused(Job(r)) /\ FullScan(r, "scanned")
  <2>1. /\ SameBut(r, {"pc", "found", "at", "gaps", "saw"})
        /\ run'[r].pc = "scanned" /\ run'[r].at \in Nat
        /\ run'[r].gaps = GapsSeen(Job(r), run'[r].saw, FALSE)
    BY <1>1, <1>3, FullScanFacts
  <2>2. run[r] = Idle
    BY <1>1, OwnOf DEF SelfOf
  <2>3. /\ DOMAIN run'[r] = Fields /\ run'[r].stamp = 0 /\ run'[r].faulty = FALSE
        /\ run'[r].base = NoReport /\ run'[r].hidden = {}
    BY <2>1, <2>2 DEF SameBut, Fields, Idle
  <2>4. Steps(r)
    BY <1>1, <2>1 DEF Steps, SameBut
  <2>5. Job(r)' = Job(r)
    BY <1>1, JobOf
  <2>6. VerdictOf(r)'
    BY <1>3, <2>1, <2>3, <2>5 DEF VerdictOf, Reported, IsDone
  <2>7. SelfOf(r)'
    BY <1>1, <2>1, <2>3, <2>5, <2>6 DEF SelfOf, PhaseOf, Scanning, Answering, Reading, Ended
  <2>8. ViewOf(r)' /\ HideOf(r)' /\ ReadOf(r)' /\ InitOf(r)'
    BY <2>1, <2>3 DEF ViewOf, HideOf, ReadOf, InitOf, IsDone
  <2>9. QED
    BY <1>1, <2>4, <2>7, <2>8, QuietStep DEF Own
<1>4. QED
  BY <1>2, <1>3 DEF Scan

\* Until its listing is compared, a scan has hidden nothing and has its verdict
\* from what it has seen.
LEMMA EarlyOwn ==
    ASSUME Inv, Scans, NEW r \in Runs, Steps(r), SameBut(r, {"pc", "stamp", "shown"}),
           run[r].pc \in {"scanned", "stamped", "saved"}, run'[r].pc \in {"stamped", "saved", "viewed"},
           run'[r].stamp \in Nat
    PROVE  Own(r)'
<1>1. /\ DOMAIN run'[r] = Fields /\ run'[r].gaps = run[r].gaps
      /\ run'[r].saw = run[r].saw /\ run'[r].faulty = run[r].faulty /\ run'[r].at = run[r].at
      /\ run'[r].base = run[r].base /\ run'[r].hidden = run[r].hidden
  BY DEF SameBut, Fields
<1>2. SelfOf(r) /\ Job(r)' = Job(r)
  BY OwnOf, JobOf DEF Steps
<1>3. run[r].base = NoReport /\ run[r].hidden = {}
  BY <1>2 DEF SelfOf, Ended
<1>4. SelfOf(r)'
  BY <1>1, <1>2, <1>3
     DEF SelfOf, PhaseOf, VerdictOf, Scanning, Answering, Reading, Reported, IsDone
<1>5. ViewOf(r)' /\ HideOf(r)' /\ ReadOf(r)' /\ InitOf(r)'
  BY <1>1, <1>3 DEF ViewOf, HideOf, ReadOf, InitOf, IsDone, NoReport
<1>6. QED
  BY <1>4, <1>5 DEF Own

LEMMA StampScans == ASSUME Inv, Scans, NEW r \in Runs, Stamp(r) PROVE Scans'
<1>1. /\ UNCHANGED <<session, reports, triage, doc, answers, standing>>
      /\ run[r].pc = "scanned" /\ JobsSame
  BY JobsStay DEF Stamp, stores, ghosts, Inv
<1>2. DOMAIN run = Runs /\ DOMAIN run[r] = Fields /\ SelfOf(r) /\ HostOK
  BY OwnOf DEF Inv, Typed, SelfOf, Scans
<1>3. /\ SameBut(r, {"pc", "stamp"}) /\ run'[r].stamp \in Nat
      /\ run'[r].pc \in {"stamped", "saved"}
  <2>1. CASE Go(r, "saved")
    <3>1. SameBut(r, {"pc"}) /\ run'[r].pc = "saved"
      BY <2>1, GoTo
    <3>2. run'[r].stamp = run[r].stamp
      BY <3>1 DEF SameBut, Fields
    <3>3. QED
      BY <1>2, <3>1, <3>2, Wider DEF SelfOf
  <2>2. CASE ~Go(r, "saved")
    BY <1>2, <2>2 DEF Stamp, SameBut, Moves, Fields, HostOK
  <2>3. QED
    BY <2>1, <2>2
<1>4. HostOK'
  BY <1>2 DEF Stamp, HostOK
<1>5. Steps(r)
  BY <1>1, <1>3 DEF Steps, SameBut, Fields
<1>6. Own(r)'
  BY <1>1, <1>3, <1>5, EarlyOwn, Wider
<1>7. QED
  BY <1>1, <1>4, <1>5, <1>6, ReportsKeep, StoresKeep, ScansStepOf

\* The report that is written is of what the run has found.
LEMMA SaveScans == ASSUME Inv, Scans, NEW r \in Runs, Save(r) PROVE Scans'
<1>1. /\ UNCHANGED <<host, triage, doc, answers, standing>>
      /\ run[r].pc = "stamped" /\ JobsSame
  BY JobsStay DEF Save, ghosts, Inv
<1>2. SameBut(r, {"pc"}) /\ run'[r].pc = "saved"
  BY GoTo DEF Save
<1>3. Steps(r)
  BY <1>1, <1>2, Wider, SameButSteps
<1>4. SelfOf(r)
  BY OwnOf
<1>5. /\ DOMAIN run'[r] = Fields /\ run'[r].found = run[r].found /\ run'[r].gaps = run[r].gaps
      /\ run'[r].saw = run[r].saw /\ run'[r].faulty = run[r].faulty /\ run'[r].at = run[r].at
      /\ run'[r].base = run[r].base /\ run'[r].hidden = run[r].hidden /\ run'[r].stamp = run[r].stamp
  BY <1>2 DEF SameBut, Fields
<1>6. Own(r)'
  BY <1>1, <1>2, <1>3, <1>4, <1>5, EarlyOwn, Wider DEF SelfOf
<1>7. ReportInv'
  <2>1. UNCHANGED reports => ReportInv'
    BY <1>3, ReportsKeep
  <2>2. ASSUME NEW p \in reports
        PROVE  /\ DOMAIN p = {"of", "stamp", "ids", "whole"}
               /\ p.of \in Runs /\ run'[p.of].pc \notin {"idle", "scanned"}
               /\ p.ids = Ids(run'[p.of].found) /\ p.stamp = run'[p.of].stamp
    <3>1. /\ DOMAIN p = {"of", "stamp", "ids", "whole"}
          /\ p.of \in Runs /\ run[p.of].pc \notin {"idle", "scanned"}
          /\ p.ids = Ids(run[p.of].found) /\ p.stamp = run[p.of].stamp
      BY DEF Scans, ReportInv
    <3>2. CASE p.of = r
      BY <3>1, <3>2, <1>3 DEF Steps
    <3>3. CASE p.of # r
      BY <3>1, <3>3, <1>3 DEF Steps, Moves
    <3>4. QED
      BY <3>2, <3>3
  <2>3. DEFINE p == Stored(r)
  <2>4. /\ DOMAIN p = {"of", "stamp", "ids", "whole"}
        /\ p.of = r /\ run'[r].pc \notin {"idle", "scanned"}
        /\ p.ids = Ids(run'[r].found) /\ p.stamp = run'[r].stamp
    BY <1>2, <1>5 DEF Stored
  <2>5. reports' \subseteq reports \cup {p}
    BY DEF Save
  <2>6. ASSUME NEW q \in reports'
        PROVE  /\ DOMAIN q = {"of", "stamp", "ids", "whole"}
               /\ q.of \in Runs /\ run'[q.of].pc \notin {"idle", "scanned"}
               /\ q.ids = Ids(run'[q.of].found) /\ q.stamp = run'[q.of].stamp
    <3>1. CASE q \in reports
      BY <2>2, <3>1
    <3>2. CASE q = p
      <4> HIDE DEF p
      <4>1. QED
        BY <2>4, <3>2
    <3>3. QED
      BY <2>5, <3>1, <3>2
  <2>7. QED
    BY <2>6 DEF ReportInv
<1>8. HostOK'
  BY <1>1 DEF Scans, HostOK
<1>9. QED
  BY <1>1, <1>3, <1>6, <1>7, <1>8, StoresKeep, ScansStepOf

\* A report that is not the newest that can be read, of a run nobody has raced,
\* is not that run's own.
LEMMA PreviousIsOfAnother ==
    ASSUME Scans, NEW r \in Runs, NEW q \in LoadPrevious,
           ~(\E p \in reports : p.of # r /\ p.stamp >= run[r].stamp)
    PROVE  q.of # r
<1>1. SUFFICES ASSUME q.of = r PROVE FALSE
  OBVIOUS
<1>2. q \in reports /\ Cardinality(Newer(q)) = 1
  BY DEF LoadPrevious, LoadNth
<1>3. Newer(q) # {}
  BY <1>2, FS_EmptySet
<1>4. PICK p \in reports : p.stamp > q.stamp
  BY <1>3 DEF Newer
<1>5. /\ q.stamp = run[r].stamp /\ p.of \in Runs /\ p.stamp = run[p.of].stamp
      /\ run[r].stamp \in Nat /\ run[p.of].stamp \in Nat
  BY <1>1, <1>2, <1>4, OwnOf DEF Scans, ReportInv, SelfOf
<1>6. p.of # r
  BY <1>4, <1>5
<1>7. QED
  BY <1>4, <1>5, <1>6

\* What is listed as new was found, and has the ids that are new.
LEMMA WhatIsAdded ==
    ASSUME NEW found, NEW ids, NEW listed \in Added(found, ids)
    PROVE  listed \subseteq found /\ Ids(listed) = Ids(found) \ ids
<1>1. listed \subseteq found /\ Ids(listed) = Ids({f \in found : FindingID(f) \notin ids})
  BY DEF Added
<1>2. Ids({f \in found : FindingID(f) \notin ids}) = Ids(found) \ ids
  BY DEF Ids
<1>3. QED
  BY <1>1, <1>2

LEMMA ViewScans == ASSUME Inv, Scans, NEW r \in Runs, View(r) PROVE Scans'
<1>1. /\ UNCHANGED <<host, reports, triage, doc, answers, standing>>
      /\ run[r].pc = "saved" /\ JobsSame
  BY JobsStay DEF View, stores, ghosts, Inv
<1>2. DOMAIN run = Runs /\ DOMAIN run[r] = Fields /\ SelfOf(r)
  BY OwnOf DEF Inv, Typed, SelfOf
<1>3. CASE run' = [run EXCEPT ![r].pc = "viewed", ![r].shown = run[r].found]
  <2>1. SameBut(r, {"pc", "stamp", "shown"}) /\ run'[r].pc = "viewed" /\ run'[r].stamp = run[r].stamp
    BY <1>2, <1>3 DEF SameBut, Moves, Fields
  <2>2. Steps(r)
    BY <1>1, <2>1 DEF Steps, SameBut, Fields
  <2>3. Own(r)'
    BY <1>1, <1>2, <2>1, <2>2, EarlyOwn DEF SelfOf
  <2>4. QED
    BY <1>1, <2>2, <2>3, QuietStep
<1>4. CASE \E q \in LoadPrevious : \E listed \in Added(run[r].found, q.ids) :
              run' = [run EXCEPT ![r].pc = "viewed", ![r].base = q, ![r].shown = listed,
                          ![r].raced = \E p \in reports : p.of # r /\ p.stamp >= run[r].stamp]
  <2>1. PICK q, listed :
              /\ q \in LoadPrevious /\ listed \in Added(run[r].found, q.ids)
              /\ run' = [run EXCEPT ![r].pc = "viewed", ![r].base = q, ![r].shown = listed,
                             ![r].raced = \E p \in reports : p.of # r /\ p.stamp >= run[r].stamp]
    BY <1>4
  <2> DEFINE late == \E p \in reports : p.of # r /\ p.stamp >= run[r].stamp
  <2>2. run' = [run EXCEPT ![r].pc = "viewed", ![r].base = q, ![r].shown = listed, ![r].raced = late]
    BY <2>1, Zenon
  <2>3. ~late => q.of # r
    BY <2>1, PreviousIsOfAnother
  <2> HIDE DEF late
  <2>4. /\ SameBut(r, {"pc", "base", "shown", "raced"}) /\ run'[r].pc = "viewed"
        /\ run'[r].base = q /\ run'[r].shown = listed /\ run'[r].raced = late
    BY <1>2, <2>2 DEF SameBut, Moves, Fields
  <2>5. /\ DOMAIN run'[r] = Fields /\ run'[r].gaps = run[r].gaps /\ run'[r].found = run[r].found
        /\ run'[r].saw = run[r].saw /\ run'[r].faulty = run[r].faulty /\ run'[r].at = run[r].at
        /\ run'[r].hidden = run[r].hidden /\ run'[r].stamp = run[r].stamp
    BY <2>4 DEF SameBut, Fields
  <2>6. Steps(r)
    BY <1>1, <2>4, <2>5 DEF Steps, SameBut
  <2>7. run[r].hidden = {} /\ Job(r)' = Job(r)
    BY <1>1, <1>2, JobOf DEF SelfOf, Ended
  <2>8. SelfOf(r)'
    BY <1>1, <1>2, <2>4, <2>5, <2>7
       DEF SelfOf, PhaseOf, VerdictOf, Scanning, Answering, Reading, Reported, IsDone
  <2>9. ViewOf(r)'
    <3>1. q.of \in Runs /\ run[q.of].pc \notin {"idle", "scanned"} /\ q.ids = Ids(run[q.of].found)
      BY <2>1 DEF LoadPrevious, LoadNth, Scans, ReportInv
    <3>2. run'[q.of].pc # "idle" /\ q.ids = Ids(run'[q.of].found)
      <4>1. CASE q.of = r
        BY <3>1, <4>1, <2>4, <2>5
      <4>2. CASE q.of # r
        BY <3>1, <4>2, <2>4 DEF SameBut, Moves
      <4>3. QED
        BY <4>1, <4>2
    <3>3. listed \subseteq run[r].found /\ Ids(listed) = Ids(run[r].found) \ q.ids
      BY <2>1, WhatIsAdded
    <3>4. run'[r].shown \cup run'[r].hidden = listed
      BY <2>4, <2>5, <2>7
    <3>5. QED
      BY <2>3, <2>4, <2>5, <3>1, <3>2, <3>3, <3>4 DEF ViewOf
  <2>10. HideOf(r)' /\ ReadOf(r)' /\ InitOf(r)'
    BY <2>4, <2>5, <2>7 DEF HideOf, ReadOf, InitOf, IsDone
  <2>11. QED
    BY <1>1, <2>6, <2>8, <2>9, <2>10, QuietStep DEF Own
<1>5. QED
  BY <1>3, <1>4 DEF View

\* A record in force is of a meaning that is current, and has not lapsed.
LEMMA ActiveInForce ==
    ASSUME NEW rec, NEW findings, NEW semantics, NEW now \in Nat, NEW saw, Genuine(rec, saw),
           State(rec, findings, semantics, now) = "active"
    PROVE  /\ rec.bound \in {Undeclared, semantics[rec.fp[1]]}
           /\ now < rec.expires /\ now < rec.at + MaxDays[rec.verb]
           /\ rec.verb \in Verbs \ {"note"}
<1>1. Current(rec, semantics) /\ ~(now >= rec.expires) /\ rec.verb # "note"
  BY DEF State
<1>2. /\ rec.verb \in Verbs /\ rec.at \in Nat /\ rec.expires \in Nat
      /\ rec.expires <= rec.at + MaxDays[rec.verb] /\ MaxDays[rec.verb] \in Nat
  BY MaxDaysAssumption DEF Genuine
<1>3. QED
  BY <1>1, <1>2 DEF Current

\* The answer a hides, now, what has the id of f.
Answers(f, found, a) ==
    /\ a.record.verb \in {"ack", "snooze"}
    /\ a.record.bound \in {Undeclared, host.semantics[a.record.fp[1]]}
    /\ host.now < a.record.expires
    /\ host.now < a.record.at + MaxDays[a.record.verb]
    /\ ShownAs(f, found, a)

\* What the triage store suppresses by an id, somebody was shown under it.
LEMMA SuppressedWasAnswered ==
    ASSUME Scans, NEW found, NEW f,
           FindingID(f) \in Ids(Suppressed(triage.records, found, host.semantics, host.now))
    PROVE  \E a \in answers : Answers(f, found, a)
<1>1. PICK g \in found, rec \in triage.records :
          /\ FindingID(g) = FindingID(f)
          /\ State(rec, found, host.semantics, host.now) = "active" /\ Covers(rec, g)
  BY DEF Ids, Suppressed
<1>2. PICK a \in answers : a.record = rec /\ a.record.verb # "adjudicate"
  BY DEF Scans, StoreInv, AnsweredIn
<1>3. Genuine(rec, a.saw) /\ host.now \in Nat
  BY <1>2 DEF Scans, AnswerInv, HostOK
<1>4. /\ rec.bound \in {Undeclared, host.semantics[rec.fp[1]]}
      /\ host.now < rec.expires /\ host.now < rec.at + MaxDays[rec.verb]
      /\ rec.verb \in {"ack", "snooze"}
  BY <1>1, <1>2, <1>3, ActiveInForce DEF Verbs
<1>5. PICK h \in a.saw : /\ rec.fp[1] = h.rule /\ rec.fp[2] = h.subject
                         /\ rec.fp[3] = "pin" => rec.evidence = h.evidence
  BY <1>3, <1>4 DEF Genuine
<1>6. rec.fp[3] # "rule"
  BY <1>3, <1>4 DEF Genuine
<1>7. g.rule = h.rule /\ g.subject = h.subject /\ (rec.fp[3] = "pin" => g.evidence = h.evidence)
  BY <1>1, <1>5, <1>6 DEF Covers, Matches, SameEvidence
<1>8. FindingID(h) = FindingID(f)
  BY <1>1, <1>7 DEF FindingID, FingerprintFor
<1>9. QED
  BY <1>1, <1>2, <1>4, <1>7, <1>8 DEF Answers, ShownAs

LEMMA ApplyTriageScans == ASSUME Inv, Scans, NEW r \in Runs, ApplyTriage(r) PROVE Scans'
<1>1. /\ UNCHANGED <<host, reports, triage, doc, answers, standing>>
      /\ run[r].pc = "viewed" /\ JobsSame
  BY JobsStay DEF ApplyTriage, stores, ghosts, Inv
<1>2. DOMAIN run = Runs /\ DOMAIN run[r] = Fields /\ SelfOf(r) /\ VerdictOf(r) /\ host.now \in Nat
  BY OwnOf DEF Inv, Typed, SelfOf, Scans, HostOK
<1> DEFINE out == Suppressed(triage.records, run[r].found, host.semantics, host.now)
           persists == Persists(Job(r))
           hidden == IF persists THEN {f \in run[r].shown : FindingID(f) \in Ids(out)} ELSE {}
           shown == IF persists THEN run[r].shown \ {f \in run[r].shown : FindingID(f) \in Ids(out)}
                                ELSE run[r].shown
           faulty == TriageFaults /\ persists
           gaps == run[r].gaps \cup IF faulty THEN {"triage-store"} ELSE {}
<1>3. run' = [run EXCEPT ![r].pc = "triaged", ![r].gaps = gaps, ![r].faulty = faulty,
                         ![r].at = host.now, ![r].meaning = host.semantics,
                         ![r].hidden = hidden, ![r].shown = shown]
  BY <1>2 DEF ApplyTriage
<1>4. shown \cup hidden = run[r].shown /\ faulty \in BOOLEAN
  OBVIOUS
<1>5. \A f \in hidden : \E a \in answers : Answers(f, run[r].found, a)
  BY SuppressedWasAnswered
<1>6. run[r].gaps = GapsSeen(Job(r), run[r].saw, FALSE) /\ ~Refused(Job(r))
  BY <1>1, <1>2 DEF VerdictOf, Scanning, GapsSeen
<1>7. gaps = GapsSeen(Job(r), run[r].saw, faulty)
  <2> HIDE DEF faulty
  <2>1. QED
    BY <1>6 DEF GapsSeen
<1> HIDE DEF out, persists, hidden, shown, faulty, gaps
<1>8. /\ SameBut(r, {"pc", "gaps", "faulty", "at", "meaning", "hidden", "shown"})
      /\ run'[r].pc = "triaged" /\ run'[r].gaps = gaps /\ run'[r].faulty = faulty
      /\ run'[r].at = host.now /\ run'[r].meaning = host.semantics
      /\ run'[r].hidden = hidden /\ run'[r].shown = shown
  BY <1>2, <1>3 DEF SameBut, Moves, Fields
<1>9. /\ DOMAIN run'[r] = Fields /\ run'[r].found = run[r].found /\ run'[r].stamp = run[r].stamp
      /\ run'[r].saw = run[r].saw /\ run'[r].base = run[r].base /\ run'[r].raced = run[r].raced
  BY <1>8 DEF SameBut, Fields
<1>10. Steps(r) /\ Job(r)' = Job(r)
  BY <1>1, <1>8, <1>9, JobOf DEF Steps, SameBut
<1>11. SelfOf(r)'
  <2>1. VerdictOf(r)'
    BY <1>6, <1>7, <1>8, <1>9, <1>10 DEF VerdictOf, Reported, IsDone
  <2>2. PhaseOf(r)'
    BY <1>1, <1>2, <1>8, <1>10 DEF SelfOf, PhaseOf, Scanning, Answering, Reading
  <2>3. QED
    BY <1>2, <1>8, <1>9, <2>1, <2>2 DEF SelfOf, Answering
<1>12. ViewOf(r)'
  <2>1. ViewOf(r) /\ run[r].hidden = {}
    BY <1>1, <1>2, OwnOf DEF Own, SelfOf, Ended
  <2>2. \A p \in Runs : run[p].pc # "idle" => run'[p].found = run[p].found /\ run'[p].pc # "idle"
    BY <1>10 DEF Steps, Moves
  <2>3. shown \cup hidden = run[r].shown \cup run[r].hidden
    BY <1>4, <2>1
  <2>4. QED
    BY <1>1, <1>8, <1>9, <2>1, <2>2, <2>3 DEF ViewOf
<1>13. HideOf(r)'
  BY <1>1, <1>5, <1>8, <1>9 DEF HideOf, HiddenBy, InForce, Answers, ShownAs
<1>14. ReadOf(r)' /\ InitOf(r)'
  BY <1>8 DEF ReadOf, InitOf, IsDone
<1>15. QED
  BY <1>1, <1>10, <1>11, <1>12, <1>13, <1>14, QuietStep DEF Own

LEMMA RenderScans == ASSUME Inv, Scans, NEW r \in Runs, Render(r) PROVE Scans'
<1>1. /\ UNCHANGED <<host, reports, triage, doc, answers, standing>>
      /\ run[r].pc = "triaged" /\ JobsSame
  BY JobsStay DEF Render, stores, ghosts, Inv
<1>2. PICK code : /\ Done(r, code)
                  /\ code = Verdict(r) \/ (code = 2 /\ Verdict(r) = 0)
  BY DEF Render
<1>3. SameBut(r, {"pc", "exit"}) /\ run'[r].pc = "done" /\ run'[r].exit = code
  BY <1>2, DoneWith
<1>4. Steps(r)
  BY <1>1, <1>3, Wider, SameButSteps
<1>5. Job(r)' = Job(r) /\ Job(r).verb = "scan"
  BY <1>1, JobOf, OwnOf DEF PhaseOf, Scanning
<1>6. /\ DOMAIN run'[r] = Fields /\ run'[r].found = run[r].found /\ run'[r].stamp = run[r].stamp
      /\ run'[r].saw = run[r].saw /\ run'[r].base = run[r].base /\ run'[r].raced = run[r].raced
      /\ run'[r].gaps = run[r].gaps /\ run'[r].faulty = run[r].faulty /\ run'[r].at = run[r].at
      /\ run'[r].shown = run[r].shown /\ run'[r].hidden = run[r].hidden
      /\ run'[r].meaning = run[r].meaning
  BY <1>3 DEF SameBut, Fields
<1>7. Own(r)
  BY OwnOf
<1>8. SelfOf(r)'
  <2>1. Verdict(r)' = Verdict(r)
    BY <1>5, <1>6 DEF Verdict
  <2>2. VerdictOf(r)'
    BY <1>1, <1>2, <1>3, <1>5, <1>6, <1>7, <2>1 DEF Own, SelfOf, VerdictOf, Reported, IsDone, Scanning
  <2>3. QED
    BY <1>3, <1>6, <1>7, <2>2 DEF Own, SelfOf, PhaseOf, Scanning, Answering, Reading, Ended
<1>9. ViewOf(r)'
  <2>1. \A p \in Runs : run[p].pc # "idle" => run'[p].found = run[p].found /\ run'[p].pc # "idle"
    BY <1>4 DEF Steps, Moves
  <2>2. QED
    BY <1>1, <1>6, <1>7, <2>1 DEF Own, ViewOf
<1>10. HideOf(r)'
  BY <1>1, <1>6, <1>7 DEF Own, HideOf, HiddenBy, ShownAs, InForce
<1>11. ReadOf(r)' /\ InitOf(r)'
  BY <1>3, <1>5 DEF ReadOf, InitOf, IsDone
<1>12. QED
  BY <1>1, <1>4, <1>8, <1>9, <1>10, <1>11, QuietStep DEF Own

-----------------------------------------------------------------------------
(* `baseline init`.                                                        *)

\* It shows nothing as a scan would.
LEMMA InitOwn ==
    ASSUME Inv, Scans, NEW r \in Runs, Steps(r), Job(r).verb = "init",
           run[r].pc \in Reading \cup {"idle"}, run'[r].pc \in Reading \cup {"done"},
           DOMAIN run'[r] = Fields, run'[r].stamp = run[r].stamp, run'[r].at \in Nat,
           run'[r].base = run[r].base, run'[r].hidden = run[r].hidden
    PROVE  SelfOf(r)' /\ ViewOf(r)' /\ HideOf(r)'
<1>1. Job(r)' = Job(r) /\ SelfOf(r)
  BY JobOf, OwnOf DEF Steps
<1>2. run[r].base = NoReport /\ run[r].hidden = {}
  BY <1>1 DEF SelfOf, Reading, Ended
<1>3. SelfOf(r)'
  BY <1>1, <1>2 DEF SelfOf, PhaseOf, VerdictOf, Scanning, Answering, Reading, Reported, IsDone
<1>4. ViewOf(r)' /\ HideOf(r)'
  BY <1>2 DEF ViewOf, HideOf, NoReport
<1>5. QED
  BY <1>3, <1>4

LEMMA BeginInitScans == ASSUME Inv, Scans, NEW r \in Runs, BeginInit(r) PROVE Scans'
<1>1. /\ UNCHANGED <<host, reports, triage, doc, answers, standing>>
      /\ run[r].pc = "idle" /\ Job(r).verb = "init" /\ JobsSame
  BY JobsStay, FullScanFacts DEF BeginInit, stores, ghosts, Inv
<1>2. CASE Done(r, 2)
  BY <1>1, <1>2, DoneAtOnce, QuietStep
<1>3. CASE FullScan(r, "judging")
  <2>1. /\ SameBut(r, {"pc", "found", "at", "gaps", "saw"})
        /\ run'[r].pc = "judging" /\ run'[r].at \in Nat
    BY <1>1, <1>3, FullScanFacts
  <2>2. /\ DOMAIN run'[r] = Fields /\ run'[r].stamp = run[r].stamp
        /\ run'[r].base = run[r].base /\ run'[r].hidden = run[r].hidden
    BY <2>1 DEF SameBut, Fields
  <2>3. Steps(r)
    BY <1>1, <2>1 DEF Steps, SameBut
  <2>4. SelfOf(r)' /\ ViewOf(r)' /\ HideOf(r)'
    BY <1>1, <2>1, <2>2, <2>3, InitOwn DEF Reading
  <2>5. ReadOf(r)' /\ InitOf(r)'
    BY <2>1 DEF ReadOf, InitOf, IsDone
  <2>6. QED
    BY <1>1, <2>3, <2>4, <2>5, QuietStep DEF Own
<1>4. QED
  BY <1>2, <1>3 DEF BeginInit

\* What is read of a document that can be read is what stands.
LEMMA ReadDocumentScans == ASSUME Inv, Scans, NEW r \in Runs, ReadDocument(r) PROVE Scans'
<1>1. /\ UNCHANGED <<host, reports, triage, doc, answers, standing>>
      /\ run[r].pc = "judging" /\ JobsSame
  BY JobsStay DEF ReadDocument, stores, ghosts, Inv
<1>2. DOMAIN run = Runs /\ DOMAIN run[r] = Fields /\ SelfOf(r) /\ Job(r).verb = "init"
  BY <1>1, OwnOf DEF Inv, Typed, SelfOf, PhaseOf, Reading
<1> DEFINE to == IF doc.state = "whole" THEN "halfread" ELSE "read"
           gaps == run[r].gaps \cup (IF host.locked THEN {"db-lock"} ELSE {})
           faulty == doc.state = "unreadable"
<1>3. run' = [run EXCEPT ![r].pc = to, ![r].set = doc.records, ![r].faulty = faulty,
                         ![r].gaps = gaps, ![r].stood = standing["judgements"]]
  BY <1>2 DEF ReadDocument
<1>4. doc.records \subseteq standing["judgements"] \/ (to = "read" /\ faulty)
  BY DEF Scans, StoreInv, Inv, AnswersAreKept
<1>5. to \in {"halfread", "read"} /\ faulty \in BOOLEAN
  OBVIOUS
<1> HIDE DEF to, gaps, faulty
<1>6. /\ SameBut(r, {"pc", "set", "faulty", "gaps", "stood"})
      /\ run'[r].pc = to /\ run'[r].set = doc.records /\ run'[r].faulty = faulty
      /\ run'[r].stood = standing["judgements"]
  BY <1>2, <1>3 DEF SameBut, Moves, Fields
<1>7. /\ DOMAIN run'[r] = Fields /\ run'[r].stamp = run[r].stamp /\ run'[r].at = run[r].at
      /\ run'[r].base = run[r].base /\ run'[r].hidden = run[r].hidden
  BY <1>6 DEF SameBut, Fields
<1>8. Steps(r)
  BY <1>1, <1>5, <1>6 DEF Steps, SameBut, Fields
<1>9. SelfOf(r)' /\ ViewOf(r)' /\ HideOf(r)'
  BY <1>1, <1>2, <1>5, <1>6, <1>7, <1>8, InitOwn DEF Reading, SelfOf
<1>10. ReadOf(r)' /\ InitOf(r)'
  BY <1>1, <1>4, <1>5, <1>6 DEF ReadOf, InitOf, IsDone, Scans, StoreInv, Stores
<1>11. QED
  BY <1>1, <1>8, <1>9, <1>10, QuietStep DEF Own

LEMMA ReadSignatureScans == ASSUME Inv, Scans, NEW r \in Runs, ReadSignature(r) PROVE Scans'
<1>1. /\ UNCHANGED <<host, reports, triage, doc, answers, standing>>
      /\ run[r].pc = "halfread" /\ JobsSame
  BY JobsStay DEF ReadSignature, stores, ghosts, Inv
<1>2. /\ DOMAIN run = Runs /\ DOMAIN run[r] = Fields /\ SelfOf(r) /\ ReadOf(r)
      /\ Job(r).verb = "init"
  BY <1>1, OwnOf DEF Own, Inv, Typed, SelfOf, PhaseOf, Reading
<1> DEFINE verified == Verified(Whole(run[r].set), sig)
           faulty == ~verified
           set == IF verified THEN run[r].set ELSE {}
<1>3. run' = [run EXCEPT ![r].pc = "read", ![r].faulty = faulty, ![r].set = set]
  BY <1>2 DEF ReadSignature
<1>4. set \subseteq run[r].stood
  BY <1>1, <1>2 DEF ReadOf
<1> HIDE DEF faulty, set
<1>5. /\ SameBut(r, {"pc", "faulty", "set"}) /\ run'[r].pc = "read" /\ run'[r].set = set
  BY <1>2, <1>3 DEF SameBut, Moves, Fields
<1>6. /\ DOMAIN run'[r] = Fields /\ run'[r].stamp = run[r].stamp /\ run'[r].at = run[r].at
      /\ run'[r].base = run[r].base /\ run'[r].hidden = run[r].hidden
      /\ run'[r].stood = run[r].stood
  BY <1>5 DEF SameBut, Fields
<1>7. Steps(r)
  BY <1>1, <1>5 DEF Steps, SameBut, Fields
<1>8. SelfOf(r)' /\ ViewOf(r)' /\ HideOf(r)'
  BY <1>1, <1>2, <1>5, <1>6, <1>7, InitOwn DEF Reading, SelfOf
<1>9. ReadOf(r)' /\ InitOf(r)'
  BY <1>1, <1>2, <1>4, <1>5, <1>6 DEF ReadOf, InitOf, IsDone
<1>10. QED
  BY <1>1, <1>7, <1>8, <1>9, QuietStep DEF Own

\* What a judgement of the store suppresses is judged, by what stood in it.
LEMMA SuppressedIsJudged ==
    ASSUME Scans, NEW r \in Runs, NEW set, set \subseteq run[r].stood, SelfOf(r),
           AnsweredIn("judgements", run[r].stood, answers),
           NEW f \in Suppressed(set, run[r].found, host.semantics, run[r].at)
    PROVE  \E a \in answers :
               /\ a.record.verb = "adjudicate" /\ a.record \in run[r].stood
               /\ a.record.bound \in {Undeclared, host.semantics[a.record.fp[1]]}
               /\ run[r].at < a.record.expires
               /\ run[r].at < a.record.at + MaxDays[a.record.verb]
               /\ Matches(a.record, f) /\ SameEvidence(a.record, f)
<1>1. PICK rec \in set : /\ State(rec, run[r].found, host.semantics, run[r].at) = "active"
                         /\ Covers(rec, f)
  BY DEF Suppressed
<1>2. PICK a \in answers : a.record = rec /\ a.record.verb = "adjudicate"
  BY <1>1 DEF AnsweredIn
<1>3. Genuine(rec, a.saw) /\ run[r].at \in Nat
  BY <1>2 DEF Scans, AnswerInv, SelfOf
<1>4. /\ rec.bound \in {Undeclared, host.semantics[rec.fp[1]]}
      /\ run[r].at < rec.expires /\ run[r].at < rec.at + MaxDays[rec.verb]
  BY <1>1, <1>3, ActiveInForce
<1>5. QED
  BY <1>1, <1>2, <1>4 DEF Covers

LEMMA DecideScans == ASSUME Inv, Scans, NEW r \in Runs, Decide(r) PROVE Scans'
<1>1. /\ UNCHANGED <<host, reports, triage, doc, answers, standing>>
      /\ run[r].pc = "read" /\ JobsSame
  BY JobsStay DEF Decide, stores, ghosts, Inv
<1>2. /\ DOMAIN run = Runs /\ DOMAIN run[r] = Fields /\ SelfOf(r) /\ ReadOf(r)
      /\ Job(r).verb = "init"
  BY <1>1, OwnOf DEF Own, Inv, Typed, SelfOf, PhaseOf, Reading
<1> DEFINE out == Suppressed(run[r].set, run[r].found, host.semantics, run[r].at)
           open == {f \in run[r].found \ out : Critical(f)}
           exit == Bootstrap(r, open)
<1>3. run' = [run EXCEPT ![r].pc = "done", ![r].meaning = host.semantics, ![r].exit = exit]
  BY <1>2 DEF Decide
<1>4. exit = 0 => /\ "contents" \in run[r].saw /\ run[r].gaps \subseteq Recordable
                  /\ ~run[r].faulty /\ open = {}
  BY DEF Bootstrap
<1>5. exit = 0 => \A f \in run[r].found : Critical(f) => f \in out
  BY <1>4
<1> HIDE DEF exit
<1>6. /\ SameBut(r, {"pc", "meaning", "exit"})
      /\ run'[r].pc = "done" /\ run'[r].meaning = host.semantics /\ run'[r].exit = exit
  BY <1>2, <1>3 DEF SameBut, Moves, Fields
<1>7. /\ DOMAIN run'[r] = Fields /\ run'[r].stamp = run[r].stamp /\ run'[r].at = run[r].at
      /\ run'[r].base = run[r].base /\ run'[r].hidden = run[r].hidden
      /\ run'[r].stood = run[r].stood /\ run'[r].found = run[r].found
      /\ run'[r].gaps = run[r].gaps /\ run'[r].saw = run[r].saw
  BY <1>6 DEF SameBut, Fields
<1>8. Steps(r)
  BY <1>1, <1>6, <1>7 DEF Steps, SameBut
<1>9. SelfOf(r)' /\ ViewOf(r)' /\ HideOf(r)'
  BY <1>1, <1>2, <1>6, <1>7, <1>8, InitOwn DEF Reading, SelfOf
<1>10. ReadOf(r)'
  BY <1>6 DEF ReadOf
<1>11. InitOf(r)'
  <2>1. SUFFICES ASSUME exit = 0
                 PROVE  /\ run[r].gaps \subseteq Recordable /\ "contents" \in run[r].saw
                        /\ \A f \in run[r].found : Critical(f) => \E a \in answers : JudgedBy(r, f, a)'
    BY <1>1, <1>6, <1>7 DEF InitOf
  <2>2. /\ run[r].set \subseteq run[r].stood
        /\ AnsweredIn("judgements", run[r].stood, answers)
    BY <1>1, <1>2, <1>4, <2>1 DEF ReadOf
  <2>3. ASSUME NEW f \in run[r].found, Critical(f) PROVE \E a \in answers : JudgedBy(r, f, a)'
    <3>1. f \in out
      BY <1>5, <2>1, <2>3
    <3>2. PICK a \in answers :
               /\ a.record.verb = "adjudicate" /\ a.record \in run[r].stood
               /\ a.record.bound \in {Undeclared, host.semantics[a.record.fp[1]]}
               /\ run[r].at < a.record.expires
               /\ run[r].at < a.record.at + MaxDays[a.record.verb]
               /\ Matches(a.record, f) /\ SameEvidence(a.record, f)
      BY <1>2, <2>2, <3>1, SuppressedIsJudged
    <3>3. QED
      BY <1>6, <1>7, <3>2 DEF JudgedBy, InForce
  <2>4. QED
    BY <1>4, <2>1, <2>3
<1>12. QED
  BY <1>1, <1>8, <1>9, <1>10, <1>11, QuietStep DEF Own

-----------------------------------------------------------------------------
(* The host meanwhile.                                                     *)

\* A report that is damaged is still of the run that wrote it.
LEMMA DamagedReport ==
    ASSUME NEW q, DOMAIN q = {"of", "stamp", "ids", "whole"}
    PROVE  LET d == [q EXCEPT !.whole = FALSE] IN
           DOMAIN d = DOMAIN q /\ d.of = q.of /\ d.stamp = q.stamp /\ d.ids = q.ids
OBVIOUS

\* A part of answered records is answered.
LEMMA FewerRecords ==
    ASSUME NEW store, NEW some, NEW all, some \subseteq all, NEW given, AnsweredIn(store, all, given)
    PROVE  AnsweredIn(store, some, given)
BY DEF AnsweredIn

LEMMA WorldScans == ASSUME Inv, Scans, ChangeHost \/ Damage PROVE Scans'
<1>1. UNCHANGED <<holder, run, answers, standing>> /\ JobsSame
  BY JobsStay DEF ChangeHost, Damage, Alter, ghosts, Inv
<1>2. RunInv'
  <2>1. ASSUME NEW q \in Runs PROVE Own(q)'
    BY <1>1, OwnOf, OthersKeep
  <2>2. QED
    BY <2>1 DEF RunInv, Own
<1>3. HostOK'
  <2>1. CASE ChangeHost
    <3>1. CASE \E w \in session.later : Alter([host EXCEPT !.findings = w])
      BY <3>1 DEF Alter, Scans, HostOK
    <3>2. CASE Alter([host EXCEPT !.now = @ + 1])
      BY <3>2 DEF Alter, Scans, HostOK
    <3>3. CASE \E m \in session.meanings : Alter([host EXCEPT !.semantics = m])
      BY <3>3 DEF Alter, Scans, HostOK
    <3>4. CASE host.clock > 1 /\ Alter([host EXCEPT !.clock = @ - 1])
      BY <3>4 DEF Alter, Scans, HostOK
    <3>5. QED
      BY <2>1, <3>1, <3>2, <3>3, <3>4 DEF ChangeHost
  <2>2. CASE Damage
    BY <2>2 DEF Damage, Scans, HostOK
  <2>3. QED
    BY <2>1, <2>2
<1>4. ReportInv'
  <2>1. CASE UNCHANGED reports
    BY <1>1, <2>1 DEF Scans, ReportInv
  <2>2. CASE \E q \in reports : reports' = (reports \ {q}) \cup {[q EXCEPT !.whole = FALSE]}
    <3>1. PICK q \in reports : reports' = (reports \ {q}) \cup {[q EXCEPT !.whole = FALSE]}
      BY <2>2
    <3> DEFINE d == [q EXCEPT !.whole = FALSE]
    <3>2. /\ DOMAIN d = {"of", "stamp", "ids", "whole"}
          /\ d.of \in Runs /\ run[d.of].pc \notin {"idle", "scanned"}
          /\ d.ids = Ids(run[d.of].found) /\ d.stamp = run[d.of].stamp
      BY DamagedReport DEF Scans, ReportInv
    <3>3. reports' \subseteq reports \cup {d}
      BY <3>1
    <3> HIDE DEF d
    <3>4. QED
      BY <1>1, <3>2, <3>3 DEF Scans, ReportInv
  <2>3. QED
    BY <2>1, <2>2 DEF ChangeHost, Damage, Alter, stores
<1>5. AnswerInv'
  BY <1>1 DEF Scans, AnswerInv
<1>6. StoreInv'
  <2>1. triage'.records \subseteq triage.records /\ doc'.state \in {"absent", "whole", "unreadable"}
    <3>1. CASE ChangeHost
      BY <3>1 DEF ChangeHost, Alter, stores, Scans, StoreInv
    <3>2. CASE Damage
      <4>1. CASE UNCHANGED <<triage, doc>>
        BY <4>1 DEF Scans, StoreInv
      <4>2. CASE triage' = [state |-> "unreadable", records |-> {}] /\ UNCHANGED doc
        BY <4>2 DEF Scans, StoreInv
      <4>3. CASE /\ UNCHANGED doc
                 /\ \E q \in triage.records :
                        triage' = [state |-> "holed", records |-> triage.records \ {q}]
        BY <4>3 DEF Scans, StoreInv
      <4>4. CASE doc' = [state |-> "unreadable", records |-> {}] /\ UNCHANGED triage
        BY <4>4
      <4>5. QED
        BY <3>2, <4>1, <4>2, <4>3, <4>4 DEF Damage
    <3>3. QED
      BY <3>1, <3>2
  <2>2. AnsweredIn("triage", triage'.records, answers)
    BY <2>1, FewerRecords DEF Scans, StoreInv
  <2>3. QED
    BY <1>1, <2>1, <2>2 DEF Scans, StoreInv
<1>7. QED
  BY <1>2, <1>3, <1>4, <1>5, <1>6 DEF Scans

-----------------------------------------------------------------------------
LEMMA ScansInit == Init => Scans
<1> SUFFICES ASSUME Init PROVE Scans
  OBVIOUS
<1>1. \A r \in Runs : run[r] = Idle
  BY DEF Init
<1>2. HostOK
  BY SessionsAssumption DEF Init, HostOK
<1>3. ReportInv /\ AnswerInv
  BY DEF Init, ReportInv, AnswerInv
<1>4. StoreInv
  BY DEF Init, StoreInv, AnsweredIn, Absent, Stores
<1>5. ASSUME NEW r \in Runs PROVE SelfOf(r) /\ ViewOf(r) /\ HideOf(r) /\ ReadOf(r) /\ InitOf(r)
  <2>1. /\ run[r] = Idle /\ DOMAIN Idle = Fields /\ Idle.pc = "idle" /\ Idle.stamp = 0 /\ Idle.at = 0
        /\ Idle.base = NoReport /\ Idle.hidden = {} /\ Idle.faulty = FALSE
    BY <1>1 DEF Idle, Fields
  <2>2. SelfOf(r)
    BY <2>1 DEF SelfOf, PhaseOf, VerdictOf, Scanning, Answering, Reading, Reported, IsDone
  <2>3. ViewOf(r) /\ HideOf(r) /\ ReadOf(r) /\ InitOf(r)
    BY <2>1 DEF ViewOf, HideOf, ReadOf, InitOf, IsDone
  <2>4. QED
    BY <2>2, <2>3
<1>6. QED
  BY <1>2, <1>3, <1>4, <1>5 DEF Scans, RunInv

LEMMA ScansStep == Inv /\ Scans /\ [Next]_vars => Scans'
<1> SUFFICES ASSUME Inv, Scans, [Next]_vars PROVE Scans'
  OBVIOUS
<1>1. ASSUME NEW r \in Runs, ScanStep(r) PROVE Scans'
  BY <1>1, ScanScans, StampScans, SaveScans, ViewScans, ApplyTriageScans, RenderScans DEF ScanStep
<1>2. ASSUME NEW r \in Runs, AnswerStep(r) PROVE Scans'
  BY <1>2, ProposeScans, WithdrawScans, LockOrLoadScans, WriteScans DEF AnswerStep
<1>3. ASSUME NEW r \in Runs, InitStep(r) PROVE Scans'
  BY <1>3, BeginInitScans, ReadDocumentScans, ReadSignatureScans, DecideScans DEF InitStep
<1>4. ASSUME NEW r \in Runs, Kill(r) PROVE Scans'
  BY <1>4, KillScans
<1>5. CASE ChangeHost \/ Damage
  BY <1>5, WorldScans
<1>6. CASE UNCHANGED vars
  <2>1. UNCHANGED <<session, host, reports, triage, doc, run, answers, standing>>
    BY <1>6 DEF vars
  <2>2. JobsSame
    BY <2>1 DEF JobsSame, Inv, Typed
  <2>3. ASSUME NEW q \in Runs PROVE Own(q)'
    BY <2>1, <2>2, OwnOf, OthersKeep
  <2>4. RunInv'
    BY <2>3 DEF RunInv, Own
  <2>5. HostOK' /\ ReportInv' /\ AnswerInv' /\ StoreInv'
    BY <2>1, StoresKeep DEF Scans, HostOK, ReportInv
  <2>6. QED
    BY <2>4, <2>5 DEF Scans
<1>7. QED
  BY <1>1, <1>2, <1>3, <1>4, <1>5, <1>6 DEF Next

\* A scan that exits 0 or 1 examined everything, at the tier and with the
\* privileges it was asked to, and could read the triage store; it exits 0 only
\* when the whole result has nothing at or above the floor, whatever
\* --since-last and triage left out of the listing (main.go).
THEOREM ExitAlwaysVerdict == Spec => []ExitIsVerdict
<1>1. QED
  BY InvInit, InvStep, ScansInit, ScansStep, ScansGivesExit, PTL DEF Spec

\* The ids that --since-last leaves out are exactly those of what another run,
\* the one it is compared with, had found: however the reports were written,
\* renamed over, damaged or left unwritten, unless another report got a later
\* or the same stamp before the comparison (store.go).
THEOREM SinceLastAlwaysDifference == Spec => []SinceLastIsDifference
<1>1. QED
  BY InvInit, InvStep, ScansInit, ScansStep, ScansGivesSince, PTL DEF Spec

\* What triage hides from a listing was shown under the same id to the operator
\* whose answer hides it, and that answer was in force when it did: through
\* every interleaving of commands, kill, failing write and change of the host
\* (triage.go, main.go).
THEOREM HiddenAlwaysAnswered == Spec => []HiddenWasAnswered
<1>1. QED
  BY InvInit, InvStep, ScansInit, ScansStep, ScansGivesHidden, PTL DEF Spec

\* `baseline init` writes over a critical only with a judgement that stood in
\* the store when it read the document, although it reads it without the lock
\* and the signature after it (adjudicate.go, baseline.go).
THEOREM BaselineAlwaysJudged == Spec => []BaselineIsJudged
<1>1. QED
  BY InvInit, InvStep, ScansInit, ScansStep, ScansGivesBaseline, PTL DEF Spec
=============================================================================
