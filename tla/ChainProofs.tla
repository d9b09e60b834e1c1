----------------------------- MODULE ChainProofs -----------------------------
(***************************************************************************)
(* Proofs about the chain store, the record of what of it was pushed, and  *)
(* a chain file that is put back, for any number of runs, keys, pushes,    *)
(* readers, transactions and clock values, stopped anywhere.               *)
(*                                                                         *)
(* ChainStore: the inductive invariant says who holds the lock, that a run *)
(* about to rename the new file into place has read the chain that is      *)
(* still there and checked what it will write, and what each run has       *)
(* already put on disk.                                                    *)
(*                                                                         *)
(* ChainReplication: every step of it is a step or a stutter of the store, *)
(* so that invariant holds here too; what is added says of every document  *)
(* and signature on disk which push made it and that it is true of the     *)
(* chain, and of every reader how its two loads of the chain compare.      *)
(*                                                                         *)
(* ChainRestore: the chain no longer only grows, and what holds is that a  *)
(* push that is over is what is on record, and what a later reader reads.  *)
(***************************************************************************)
EXTENDS ChainRestore, SequenceTheorems, TLAPS

-----------------------------------------------------------------------------
(* The store.                                                              *)

\* The transaction that holds db.lck is counted when it ends.
DbInv == dblck => db < MaxTransactions

\* A run is between taking the lock and releasing it exactly when it is the
\* holder; so there is never more than one.
LockInv == \A r \in Runs : lock = r <=> pc[r] \in Critical

\* What a run read under the lock is what is still in the file when it writes.
CopyInv ==
    \A r \in Runs :
        pc[r] = "writing" =>
            /\ copy[r] = chain
            /\ Verifies(Append(chain, NewRecord(r, chain)))

\* Beyond the precheck, an append run has a chain to append to.
VerbInv ==
    \A r \in Runs :
        pc[r] \in Steps \ {"opened"} /\ verb[r] = "append" => chain # << >>

\* PutPayload is over before Append begins.
StoredInv ==
    \A r \in Runs :
        /\ pc[r] \in {"putDoc", "guarding", "locking"} \cup Critical => payload[r] \in sigs
        /\ pc[r] \in {"guarding", "locking"} \cup Critical => payload[r] \in docs

\* From its rename on, a run's record is in the chain.
RecordedInv ==
    \A r \in Runs :
        pc[r] \in {"releasing", "done"} =>
            /\ Len(copy[r]) + 1 \in DOMAIN chain
            /\ chain[Len(copy[r]) + 1] = NewRecord(r, copy[r])

IInv ==
    /\ TypeOK
    /\ DbInv
    /\ LockInv
    /\ CopyInv
    /\ VerbInv
    /\ StoredInv
    /\ RecordedInv
    /\ ChainVerifies
    /\ PayloadsReadable
    /\ FirstIsBaseline

-----------------------------------------------------------------------------
(* What a new record is.                                                   *)

\* The record linked to a chain is a record.
LEMMA LinkType ==
    ASSUME NEW rs \in Seq(Record), NEW time \in Nat, NEW kind \in Kinds,
           NEW p \in Payloads, NEW k \in Keys
    PROVE  Link(rs, time, kind, p, k) \in Record
<1>1. WantPrev(rs) \in Seq(Content)
  <2>1. CASE rs = << >>
    BY <2>1 DEF WantPrev, GenesisPrev
  <2>2. CASE rs # << >>
    <3>1. rs[Len(rs)] \in Record
      BY <2>2
    <3>2. Append(rs[Len(rs)].prev, rs[Len(rs)].body) \in Seq(Content)
      BY <3>1 DEF Record
    <3>3. QED
      BY <2>2, <3>2 DEF WantPrev, Hash
  <2>3. QED
    BY <2>1, <2>2
<1>2. WantSeq(rs) \in Nat
  <2>1. CASE rs = << >>
    BY <2>1 DEF WantSeq
  <2>2. CASE rs # << >>
    <3>1. rs[Len(rs)] \in Record
      BY <2>2
    <3>2. rs[Len(rs)].body.seq \in Nat
      BY <3>1 DEF Record, Content
    <3>3. QED
      BY <2>2, <3>2 DEF WantSeq
  <2>3. QED
    BY <2>1, <2>2
<1>3. QED
  BY <1>1, <1>2 DEF Link, Record, Content

\* So is the one a run makes.
LEMMA NewRecordType ==
    ASSUME TypeOK, NEW r \in Runs, NEW rs \in Seq(Record)
    PROVE  NewRecord(r, rs) \in Record
<1>1. at[r] \in Nat /\ verb[r] \in Kinds /\ payload[r] \in Payloads /\ key[r] \in Keys
  BY BoundsAssumption DEF TypeOK
<1>2. QED
  BY <1>1, LinkType DEF NewRecord

\* The empty chain verifies.
LEMMA EmptyVerifies == Verifies(<< >>)
BY DEF Verifies, AllTrusted, NoRepeatedRecord, NoFork, SeqContiguous, Linked,
       NoRepeatedPayload, TimeOrdered

-----------------------------------------------------------------------------
(* Type correctness.                                                       *)

USE DEF disk, world, locals

LEMMA TypeInit == Init => TypeOK /\ DbInv
<1> SUFFICES ASSUME Init PROVE TypeOK /\ DbInv
  OBVIOUS
<1>1. NoManifest \in Payloads
  <2>1. 0 \in 0..MaxTransactions /\ 0 \in 0..MaxTime
    BY BoundsAssumption
  <2>2. FALSE \in BOOLEAN
    OBVIOUS
  <2>3. QED
    BY <2>1, <2>2, PayloadsAssumption DEF NoManifest, Manifest
<1>2. (CHOOSE k \in Keys : TRUE) \in Keys
  BY KeysAssumption
<1>3. chain \in Seq(Record) /\ << >> \in Seq(Record)
  BY DEF Init
<1>4. /\ sigs \subseteq Payloads
      /\ docs \subseteq Payloads
      /\ lock \in Runs \cup {NoRun}
      /\ db \in 0..MaxTransactions
      /\ now \in 0..MaxTime
  BY BoundsAssumption DEF Init
<1>b. dblck \in BOOLEAN /\ DbInv
  BY Zenon DEF Init, DbInv
<1>5. /\ pc \in [Runs -> {"idle"} \cup Steps \cup Ended]
      /\ verb \in [Runs -> Kinds]
  BY DEF Init, Kinds
<1>6. key \in [Runs -> Keys]
  BY <1>2 DEF Init
<1>7. at \in [Runs -> 0..MaxTime]
  BY BoundsAssumption DEF Init
<1>8. payload \in [Runs -> Payloads] /\ copy \in [Runs -> Seq(Record)]
  BY <1>1, <1>3 DEF Init
<1>9. QED
  BY <1>3, <1>4, <1>b, <1>5, <1>6, <1>7, <1>8 DEF TypeOK

LEMMA TypeStep == TypeOK /\ DbInv /\ [Next]_vars => TypeOK' /\ DbInv'
<1> SUFFICES ASSUME TypeOK, DbInv, [Next]_vars PROVE TypeOK' /\ DbInv'
  OBVIOUS
<1>r. ASSUME NEW r \in Runs, NEW from, Refuse(r, from) PROVE TypeOK'
  BY <1>r DEF TypeOK, Refuse, Goto, Release, Ended
<1>1. ASSUME NEW r \in Runs, Start(r) PROVE TypeOK'
  BY <1>1, KeysAssumption DEF TypeOK, Start, Goto, Steps, Clock
<1>2. ASSUME NEW r \in Runs, Advance(r) PROVE TypeOK'
  <2>1. CASE Precheck(r)
    BY <2>1, <1>r DEF TypeOK, Precheck, Goto, Steps
  <2>2. CASE Scan(r)
    <3>1. [db |-> db, torn |-> dblck, at |-> at[r]] \in Payloads
      BY PayloadsAssumption DEF TypeOK, Manifest
    <3>2. QED
      BY <2>2, <3>1 DEF TypeOK, Scan, Goto, Steps
  <2>3. CASE Decide(r)
    BY <2>3, <1>r DEF TypeOK, Decide, Goto, Steps
  <2>4. CASE PutSig(r)
    BY <2>4 DEF TypeOK, PutSig, Goto, Steps
  <2>5. CASE PutDoc(r)
    BY <2>5 DEF TypeOK, PutDoc, Goto, Steps
  <2>6. CASE GuardAppend(r)
    BY <2>6, <1>r DEF TypeOK, GuardAppend, Goto, Steps
  <2>7. CASE TakeLock(r)
    BY <2>7 DEF TypeOK, TakeLock, Goto, Steps
  <2>8. CASE Busy(r)
    BY <2>8, <1>r DEF Busy
  <2>9. CASE Read(r)
    BY <2>9, <1>r DEF TypeOK, Read, Goto, Steps
  <2>10. CASE Write(r)
    <3>1. NewRecord(r, copy[r]) \in Record
      BY NewRecordType DEF TypeOK
    <3>2. Append(copy[r], NewRecord(r, copy[r])) \in Seq(Record)
      BY <3>1 DEF TypeOK
    <3>3. QED
      BY <2>10, <3>2 DEF TypeOK, Write, Goto, Steps
  <2>11. CASE Finish(r)
    BY <2>11 DEF TypeOK, Finish, Goto, Release, Ended
  <2>12. QED
    BY <1>2, <2>1, <2>2, <2>3, <2>4, <2>5, <2>6, <2>7, <2>8, <2>9, <2>10, <2>11
       DEF Advance
<1>3. ASSUME NEW r \in Runs, Abort(r) PROVE TypeOK'
  BY <1>3 DEF TypeOK, Abort, Release, Ended
<1>4. CASE \E r \in Runs : Start(r) \/ Advance(r) \/ Abort(r)
  <2>1. TypeOK'
    BY <1>1, <1>2, <1>3, <1>4
  <2>2. UNCHANGED <<dblck, db>>
    BY <1>4 DEF Start, Advance, Abort, Precheck, Scan, Decide, PutSig, PutDoc,
                GuardAppend, TakeLock, Busy, Read, Write, Finish, Refuse
  <2>3. QED
    BY <2>1, <2>2 DEF DbInv
<1>5. CASE BeginTransaction
  BY <1>5 DEF TypeOK, DbInv, BeginTransaction
<1>6. CASE EndTransaction
  <2>1. db' \in 0..MaxTransactions
    BY <1>6, BoundsAssumption DEF TypeOK, DbInv, EndTransaction
  <2>2. QED
    BY <1>6, <2>1 DEF TypeOK, DbInv, EndTransaction
<1>7. CASE SetClock
  BY <1>7 DEF TypeOK, DbInv, SetClock
<1>8. CASE UNCHANGED vars
  BY <1>8 DEF TypeOK, DbInv, vars
<1>9. QED
  BY <1>4, <1>5, <1>6, <1>7, <1>8 DEF Next

-----------------------------------------------------------------------------
(* The inductive invariant.                                                *)

LEMMA InvInit == Init => IInv
<1> SUFFICES ASSUME Init PROVE IInv
  OBVIOUS
<1>1. TypeOK /\ DbInv
  BY TypeInit
<1>2. LockInv
  BY RunsAssumption DEF Init, LockInv, Critical
<1>3. CopyInv /\ VerbInv /\ StoredInv /\ RecordedInv
  BY DEF Init, CopyInv, VerbInv, StoredInv, RecordedInv, Steps, Critical
<1>4. ChainVerifies
  BY EmptyVerifies DEF Init, ChainVerifies
<1>5. PayloadsReadable /\ FirstIsBaseline
  BY DEF Init, PayloadsReadable, FirstIsBaseline
<1>6. QED
  BY <1>1, <1>2, <1>3, <1>4, <1>5 DEF IInv

\* What holds of a run's place, whoever moves: every part of the invariant but
\* the ones about types and about the chain alone.
PlaceInv == LockInv /\ CopyInv /\ VerbInv /\ StoredInv /\ RecordedInv

\* A step that leaves the files alone keeps what is said of the files alone.
LEMMA QuietStep ==
    ASSUME ChainVerifies, PayloadsReadable, FirstIsBaseline, UNCHANGED disk
    PROVE  ChainVerifies' /\ PayloadsReadable' /\ FirstIsBaseline'
BY DEF ChainVerifies, PayloadsReadable, FirstIsBaseline

\* A run that gives up drops the lock if it has it, and nothing else.
LEMMA StopStep ==
    ASSUME IInv, NEW r \in Runs, Release(r), UNCHANGED <<disk, world, locals>>,
           \E to \in {"refused", "killed"} : pc' = [pc EXCEPT ![r] = to]
    PROVE  PlaceInv'
<1>1. PICK to \in {"refused", "killed"} : pc' = [pc EXCEPT ![r] = to]
  OBVIOUS
<1>2. /\ pc'[r] = to
      /\ \A q \in Runs \ {r} : pc'[q] = pc[q]
  BY <1>1 DEF IInv, TypeOK
<1>3. LockInv'
  BY <1>2, RunsAssumption DEF IInv, LockInv, Release, Critical
<1>4. CopyInv'
  BY <1>2 DEF IInv, CopyInv, NewRecord
<1>5. VerbInv' /\ StoredInv'
  BY <1>2 DEF IInv, VerbInv, StoredInv, Steps, Critical
<1>6. RecordedInv'
  BY <1>2 DEF IInv, RecordedInv, NewRecord
<1>7. QED
  BY <1>3, <1>4, <1>5, <1>6 DEF PlaceInv
\* A run that moves on, in a step that leaves the files, the lock and what
\* the other runs hold alone, and does not touch the critical section.
LEMMA MoveStep ==
    ASSUME IInv, NEW r \in Runs, NEW to \in Steps \ Critical,
           pc[r] \notin Critical, pc' = [pc EXCEPT ![r] = to],
           UNCHANGED <<chain, lock>>,
           sigs \subseteq sigs', docs \subseteq docs',
           \A q \in Runs \ {r} :
               /\ verb'[q] = verb[q] /\ key'[q] = key[q] /\ at'[q] = at[q]
               /\ payload'[q] = payload[q] /\ copy'[q] = copy[q],
           to # "opened" /\ verb'[r] = "append" => chain # << >>,
           to \in {"putDoc", "guarding", "locking"} => payload'[r] \in sigs',
           to \in {"guarding", "locking"} => payload'[r] \in docs'
    PROVE  PlaceInv'
<1>1. /\ pc'[r] = to
      /\ \A q \in Runs \ {r} : pc'[q] = pc[q]
  BY DEF IInv, TypeOK
<1>2. LockInv'
  BY <1>1 DEF IInv, LockInv, Critical
<1>3. CopyInv'
  BY <1>1 DEF IInv, CopyInv, NewRecord, Critical
<1>4. VerbInv'
  BY <1>1 DEF IInv, VerbInv
<1>5. StoredInv'
  BY <1>1 DEF IInv, StoredInv, Critical
<1>6. RecordedInv'
  BY <1>1 DEF IInv, RecordedInv, NewRecord, Critical, Steps
<1>7. QED
  BY <1>2, <1>3, <1>4, <1>5, <1>6 DEF PlaceInv

\* Taking the lock: nobody else is in the critical section.
LEMMA TakeStep ==
    ASSUME IInv, NEW r \in Runs, TakeLock(r)
    PROVE  PlaceInv'
<1>1. /\ pc[r] = "locking" /\ pc'[r] = "reading"
      /\ \A q \in Runs \ {r} : pc'[q] = pc[q]
  BY DEF IInv, TypeOK, TakeLock, Goto
<1>2. LockInv'
  BY <1>1, RunsAssumption DEF IInv, LockInv, TakeLock, Free, Critical
<1>3. CopyInv' /\ RecordedInv'
  BY <1>1 DEF IInv, CopyInv, RecordedInv, NewRecord, TakeLock
<1>4. VerbInv' /\ StoredInv'
  BY <1>1 DEF IInv, VerbInv, StoredInv, TakeLock, Steps, Critical
<1>5. QED
  BY <1>2, <1>3, <1>4 DEF PlaceInv

\* Reading under the lock: the run has the chain, and has checked its record.
LEMMA ReadStep ==
    ASSUME IInv, NEW r \in Runs, MayAppend(r), Goto(r, "reading", "writing"),
           copy' = [copy EXCEPT ![r] = chain],
           UNCHANGED <<disk, lock, world, verb, key, at, payload>>
    PROVE  PlaceInv'
<1>1. /\ pc[r] = "reading" /\ pc'[r] = "writing" /\ copy'[r] = chain
      /\ \A q \in Runs \ {r} : pc'[q] = pc[q] /\ copy'[q] = copy[q]
  BY DEF IInv, TypeOK, Goto
<1>2. LockInv'
  BY <1>1 DEF IInv, LockInv, Critical
<1>3. CopyInv'
  BY <1>1 DEF IInv, CopyInv, NewRecord, MayAppend
<1>4. VerbInv' /\ StoredInv'
  BY <1>1 DEF IInv, VerbInv, StoredInv, Steps, Critical
<1>5. RecordedInv'
  BY <1>1 DEF IInv, RecordedInv, NewRecord
<1>6. QED
  BY <1>2, <1>3, <1>4, <1>5 DEF PlaceInv

\* The rename appends the run's record to the chain that is there, because no
\* other run can have changed it since it was read.
LEMMA WriteAppends ==
    ASSUME IInv, NEW r \in Runs, Write(r)
    PROVE  /\ chain \in Seq(Record)
           /\ NewRecord(r, chain) \in Record
           /\ chain' = Append(chain, NewRecord(r, chain))
           /\ copy[r] = chain
           /\ Verifies(chain')
<1>1. pc[r] = "writing" /\ chain' = Append(copy[r], NewRecord(r, copy[r]))
  BY DEF Write, Goto
<1>2. copy[r] = chain /\ Verifies(Append(chain, NewRecord(r, chain)))
  BY <1>1 DEF IInv, CopyInv
<1>3. chain \in Seq(Record)
  BY DEF IInv, TypeOK
<1>4. NewRecord(r, chain) \in Record
  BY <1>3, NewRecordType DEF IInv
<1>5. QED
  BY <1>1, <1>2, <1>3, <1>4

\* What the rename does to every part of the invariant.
LEMMA WriteStep ==
    ASSUME IInv, NEW r \in Runs, Write(r)
    PROVE  PlaceInv' /\ ChainVerifies' /\ PayloadsReadable' /\ FirstIsBaseline'
<1> DEFINE new == NewRecord(r, chain)
<1>1. /\ chain \in Seq(Record) /\ new \in Record
      /\ chain' = Append(chain, new) /\ copy[r] = chain /\ Verifies(chain')
  BY WriteAppends
<1>2. /\ Len(chain') = Len(chain) + 1
      /\ chain'[Len(chain) + 1] = new
      /\ \A i \in DOMAIN chain : i \in DOMAIN chain' /\ chain'[i] = chain[i]
      /\ DOMAIN chain' = DOMAIN chain \cup {Len(chain) + 1}
      /\ chain' # << >>
  <2> HIDE DEF new
  <2>1. QED
    BY <1>1
<1>3. /\ pc[r] = "writing" /\ pc'[r] = "releasing"
      /\ \A q \in Runs \ {r} : pc'[q] = pc[q]
      /\ UNCHANGED <<sigs, docs, lock, world, locals>>
  BY DEF IInv, TypeOK, Write, Goto
<1>4. \A q \in Runs \ {r} : pc[q] # "writing"
  BY <1>3 DEF IInv, LockInv, Critical
<1>5. new.body.payload = payload[r] /\ new.body.kind = verb[r]
  BY DEF NewRecord, Link
<1>6. LockInv'
  BY <1>3 DEF IInv, LockInv, Critical
<1>7. CopyInv'
  BY <1>3, <1>4 DEF CopyInv
<1>8. VerbInv' /\ StoredInv'
  BY <1>2, <1>3 DEF IInv, VerbInv, StoredInv, Steps, Critical
<1>9. RecordedInv'
  <2>1. \A q \in Runs : NewRecord(q, copy[q])' = NewRecord(q, copy[q])
    BY <1>3 DEF NewRecord
  <2>2. QED
    BY <1>1, <1>2, <1>3, <2>1 DEF IInv, RecordedInv
<1>10. ChainVerifies'
  BY <1>1 DEF ChainVerifies
<1>11. PayloadsReadable'
  <2>1. payload[r] \in sigs \cap docs
    BY <1>3 DEF IInv, StoredInv, Critical
  <2>2. ASSUME NEW i \in DOMAIN chain' PROVE chain'[i].body.payload \in sigs' \cap docs'
    BY <1>2, <1>3, <1>5, <2>1 DEF IInv, PayloadsReadable
  <2>3. QED
    BY <2>2 DEF PayloadsReadable
<1>12. FirstIsBaseline'
  <2>1. CASE chain = << >>
    <3>1. verb[r] = "baseline"
      BY <2>1, <1>3 DEF IInv, VerbInv, TypeOK, Kinds, Steps
    <3>2. QED
      BY <2>1, <3>1, <1>2, <1>5 DEF FirstIsBaseline
  <2>2. CASE chain # << >>
    BY <2>2, <1>1, <1>2 DEF IInv, FirstIsBaseline
  <2>3. QED
    BY <2>1, <2>2
<1>13. QED
  BY <1>6, <1>7, <1>8, <1>9, <1>10, <1>11, <1>12 DEF PlaceInv

\* The deferred release: the run's record is in, and the lock is free.
LEMMA FinishStep ==
    ASSUME IInv, NEW r \in Runs, Finish(r)
    PROVE  PlaceInv'
<1>1. /\ pc[r] = "releasing" /\ pc'[r] = "done"
      /\ \A q \in Runs \ {r} : pc'[q] = pc[q]
      /\ UNCHANGED <<disk, world, locals>>
  BY DEF IInv, TypeOK, Finish, Goto
<1>2. LockInv'
  BY <1>1, RunsAssumption DEF IInv, LockInv, Finish, Release, Critical
<1>3. CopyInv' /\ RecordedInv'
  BY <1>1 DEF IInv, CopyInv, RecordedInv, NewRecord
<1>4. VerbInv' /\ StoredInv'
  BY <1>1 DEF IInv, VerbInv, StoredInv, Steps, Critical
<1>5. QED
  BY <1>2, <1>3, <1>4 DEF PlaceInv

\* The invariant is inductive: one step per action.
LEMMA InvStep == IInv /\ [Next]_vars => IInv'
<1> SUFFICES ASSUME IInv, [Next]_vars
             PROVE  PlaceInv' /\ ChainVerifies' /\ PayloadsReadable' /\ FirstIsBaseline'
  BY TypeStep DEF IInv, PlaceInv
<1>a. ASSUME PlaceInv', UNCHANGED disk
      PROVE  PlaceInv' /\ ChainVerifies' /\ PayloadsReadable' /\ FirstIsBaseline'
  BY <1>a, QuietStep DEF IInv
<1>b. ASSUME NEW r \in Runs, NEW from, Refuse(r, from)
      PROVE  PlaceInv' /\ UNCHANGED disk
  <2>1. Release(r) /\ UNCHANGED <<disk, world, locals>>
    BY <1>b DEF Refuse
  <2>2. \E to \in {"refused", "killed"} : pc' = [pc EXCEPT ![r] = to]
    BY <1>b DEF Refuse, Goto
  <2>3. PlaceInv'
    BY <2>1, <2>2, StopStep
  <2>4. QED
    BY <2>1, <2>3
<1>1. ASSUME NEW r \in Runs, Start(r) PROVE PlaceInv' /\ UNCHANGED disk
  <2>1. \A q \in Runs \ {r} : verb'[q] = verb[q] /\ key'[q] = key[q] /\ at'[q] = at[q]
    BY <1>1 DEF IInv, TypeOK, Start
  <2>2. QED
    BY <1>1, <2>1, MoveStep DEF IInv, TypeOK, Start, Goto, Steps, Critical
<1>2. ASSUME NEW r \in Runs, Precheck(r) PROVE PlaceInv' /\ UNCHANGED disk
  <2>1. CASE MayWrite(r) /\ Goto(r, "opened", "scanning") /\ UNCHANGED <<disk, lock, world, locals>>
    <3>1. verb[r] = "append" => chain # << >>
      BY <2>1 DEF MayWrite
    <3>2. QED
      BY <2>1, <3>1, MoveStep DEF IInv, Goto, Steps, Critical
  <2>2. QED
    BY <1>2, <1>b, <2>1 DEF Precheck
<1>3. ASSUME NEW r \in Runs, Scan(r) PROVE PlaceInv' /\ UNCHANGED disk
  <2>1. \A q \in Runs \ {r} : payload'[q] = payload[q]
    BY <1>3 DEF IInv, TypeOK, Scan
  <2>2. verb[r] = "append" => chain # << >>
    BY <1>3 DEF IInv, VerbInv, Scan, Goto, Steps
  <2>3. QED
    BY <1>3, <2>1, <2>2, MoveStep DEF Scan, Goto, Steps, Critical
<1>4. ASSUME NEW r \in Runs, Decide(r) PROVE PlaceInv' /\ UNCHANGED disk
  <2>1. CASE Goto(r, "deciding", "putSig") /\ UNCHANGED <<disk, lock, world, locals>>
    <3>1. verb[r] = "append" => chain # << >>
      BY <2>1 DEF IInv, VerbInv, Goto, Steps
    <3>2. QED
      BY <2>1, <3>1, MoveStep DEF Goto, Steps, Critical
  <2>2. QED
    BY <1>4, <1>b, <2>1 DEF Decide
<1>5. ASSUME NEW r \in Runs, PutSig(r)
      PROVE  PlaceInv' /\ ChainVerifies' /\ PayloadsReadable' /\ FirstIsBaseline'
  <2>1. verb[r] = "append" => chain # << >>
    BY <1>5 DEF IInv, VerbInv, PutSig, Goto, Steps
  <2>2. PlaceInv'
    BY <1>5, <2>1, MoveStep DEF PutSig, Goto, Steps, Critical
  <2>3. QED
    BY <1>5, <2>2 DEF IInv, PutSig, ChainVerifies, PayloadsReadable, FirstIsBaseline
<1>6. ASSUME NEW r \in Runs, PutDoc(r)
      PROVE  PlaceInv' /\ ChainVerifies' /\ PayloadsReadable' /\ FirstIsBaseline'
  <2>1. (verb[r] = "append" => chain # << >>) /\ payload[r] \in sigs
    BY <1>6 DEF IInv, VerbInv, StoredInv, PutDoc, Goto, Steps
  <2>2. PlaceInv'
    BY <1>6, <2>1, MoveStep DEF PutDoc, Goto, Steps, Critical
  <2>3. QED
    BY <1>6, <2>2 DEF IInv, PutDoc, ChainVerifies, PayloadsReadable, FirstIsBaseline
<1>7. ASSUME NEW r \in Runs, GuardAppend(r) PROVE PlaceInv' /\ UNCHANGED disk
  <2>1. CASE Goto(r, "guarding", "locking") /\ UNCHANGED <<disk, lock, world, locals>>
    <3>1. /\ verb[r] = "append" => chain # << >>
          /\ payload[r] \in sigs /\ payload[r] \in docs
      BY <2>1 DEF IInv, VerbInv, StoredInv, Goto, Steps
    <3>2. QED
      BY <2>1, <3>1, MoveStep DEF Goto, Steps, Critical
  <2>2. QED
    BY <1>7, <1>b, <2>1 DEF GuardAppend
<1>8. ASSUME NEW r \in Runs, TakeLock(r) PROVE PlaceInv' /\ UNCHANGED disk
  BY <1>8, TakeStep DEF TakeLock
<1>9. ASSUME NEW r \in Runs, Busy(r) PROVE PlaceInv' /\ UNCHANGED disk
  BY <1>9, <1>b DEF Busy
<1>10. ASSUME NEW r \in Runs, Read(r) PROVE PlaceInv' /\ UNCHANGED disk
  BY <1>10, <1>b, ReadStep DEF Read
<1>11. ASSUME NEW r \in Runs, Finish(r) PROVE PlaceInv' /\ UNCHANGED disk
  BY <1>11, FinishStep DEF Finish
<1>12. ASSUME NEW r \in Runs, Abort(r) PROVE PlaceInv' /\ UNCHANGED disk
  <2>1. Release(r) /\ UNCHANGED <<disk, world, locals>> /\ pc' = [pc EXCEPT ![r] = "killed"]
    BY <1>12 DEF Abort
  <2>2. QED
    BY <2>1, StopStep
<1>13. CASE UNCHANGED <<disk, lock, pc, locals>>
  <2>1. LockInv' /\ CopyInv' /\ VerbInv'
    BY <1>13 DEF IInv, LockInv, CopyInv, VerbInv, NewRecord
  <2>2. StoredInv' /\ RecordedInv'
    BY <1>13 DEF IInv, StoredInv, RecordedInv, NewRecord
  <2>3. QED
    BY <1>13, <1>a, <2>1, <2>2 DEF PlaceInv
<1>14. CASE BeginTransaction \/ EndTransaction \/ SetClock \/ UNCHANGED vars
  BY <1>13, <1>14 DEF BeginTransaction, EndTransaction, SetClock, vars
<1>15. ASSUME NEW r \in Runs, Start(r) \/ Advance(r) \/ Abort(r)
       PROVE  PlaceInv' /\ ChainVerifies' /\ PayloadsReadable' /\ FirstIsBaseline'
  BY <1>15, <1>a, <1>1, <1>2, <1>3, <1>4, <1>5, <1>6, <1>7, <1>8, <1>9, <1>10,
     <1>11, <1>12, WriteStep DEF Advance
<1>16. QED
  BY <1>14, <1>15 DEF Next

-----------------------------------------------------------------------------
(* The theorems.                                                           *)

\* Every state of every behaviour satisfies the inductive invariant.
THEOREM Inductive == Spec => []IInv
<1>1. QED
  BY InvInit, InvStep, PTL DEF Spec

\* Type correctness: every variable keeps to its set (the state of the runs of
\* `baseline init` and `baseline append` and of the chain directory).
THEOREM TypeCorrect == Spec => []TypeOK
<1>1. IInv => TypeOK
  BY DEF IInv
<1>2. QED
  BY <1>1, Inductive, PTL

\* However many runs race and wherever they stop, chain.log verifies.
THEOREM ChainAlwaysVerifies == Spec => []ChainVerifies
<1>1. IInv => ChainVerifies
  BY DEF IInv
<1>2. QED
  BY <1>1, Inductive, PTL

\* A record is never on disk before its manifest and the signature of it are.
THEOREM PayloadsAlwaysReadable == Spec => []PayloadsReadable
<1>1. IInv => PayloadsReadable
  BY DEF IInv
<1>2. QED
  BY <1>1, Inductive, PTL

\* A run that reports success has its record in the chain for good: no other
\* run's write replaces it (Store.Append's read-modify-write).
THEOREM SuccessAlwaysRecorded == Spec => []SuccessIsRecorded
<1>1. IInv => SuccessIsRecorded
  BY DEF IInv, RecordedInv, SuccessIsRecorded
<1>2. QED
  BY <1>1, Inductive, PTL

\* `baseline append` never opens a chain.
THEOREM FirstAlwaysBaseline == Spec => []FirstIsBaseline
<1>1. IInv => FirstIsBaseline
  BY DEF IInv
<1>2. QED
  BY <1>1, Inductive, PTL

\* A step that is no run's rename leaves the chain alone.
LEMMA ChainFrame ==
    ASSUME [Next]_vars, \A r \in Runs : ~Write(r)
    PROVE  UNCHANGED chain
<1>1. CASE \E r \in Runs : Start(r) \/ Advance(r) \/ Abort(r)
  BY <1>1 DEF Start, Advance, Abort, Precheck, Scan, Decide, PutSig, PutDoc,
              GuardAppend, TakeLock, Busy, Read, Finish, Refuse
<1>2. CASE BeginTransaction \/ EndTransaction \/ SetClock \/ UNCHANGED vars
  BY <1>2 DEF BeginTransaction, EndTransaction, SetClock, vars
<1>3. QED
  BY <1>1, <1>2 DEF Next

\* The chain only ever grows by the record of one run, at its end.
THEOREM OnlyAppends == Spec => AppendOnly
<1>1. IInv /\ [Next]_vars => [\E r \in Runs : chain' = Append(chain, NewRecord(r, chain))]_chain
  BY ChainFrame, WriteAppends
<1>2. QED
  BY <1>1, Inductive, PTL DEF Spec, AppendOnly

-----------------------------------------------------------------------------
(* The refinement of ChainLog.                                             *)

\* The entries of a chain are a sequence as long as the chain.
LEMMA EntriesType ==
    ASSUME NEW rs \in Seq(Record)
    PROVE  Entries(rs) \in Seq(Content) /\ Len(Entries(rs)) = Len(rs)
<1>1. Entries(rs) \in [1..Len(rs) -> Content]
  <2>1. ASSUME NEW i \in 1..Len(rs) PROVE rs[i].body \in Content
    <3>1. rs[i] \in Record
      OBVIOUS
    <3>2. QED
      BY <3>1 DEF Record
  <2>2. QED
    BY <2>1 DEF Entries
<1>2. Len(rs) \in Nat
  OBVIOUS
<1>3. Entries(rs) \in Seq(Content)
  BY <1>1, <1>2
<1>4. QED
  BY <1>1, <1>2, <1>3

\* The entries of a longer chain are the earlier ones and the new one.
LEMMA EntriesAppend ==
    ASSUME NEW rs \in Seq(Record), NEW r \in Record
    PROVE  Entries(Append(rs, r)) = Append(Entries(rs), r.body)
<1>1. Entries(rs) \in Seq(Content) /\ Len(Entries(rs)) = Len(rs)
  BY EntriesType
<1>2. r.body \in Content
  BY DEF Record
<1>3. /\ Append(rs, r) \in Seq(Record)
      /\ Len(Append(rs, r)) = Len(rs) + 1
  BY Zenon, AppendProperties
<1>4. Entries(Append(rs, r)) \in Seq(Content) /\ Len(Entries(Append(rs, r))) = Len(rs) + 1
  BY <1>3, EntriesType
<1>5. \A i \in 1..Len(rs)+1 : Entries(Append(rs, r))[i] = Append(Entries(rs), r.body)[i]
  BY <1>1, <1>2, <1>3 DEF Entries
<1>6. QED
  BY <1>1, <1>2, <1>4, <1>5, SeqEqual

\* The initial state maps to the empty log.
LEMMA LogInit == Init => Log!Init
<1> SUFFICES ASSUME Init PROVE Entries(chain) = << >> /\ sigs \cap docs = {}
  BY DEF Log!Init
<1>1. chain = << >> /\ sigs = {}
  BY DEF Init
<1>2. Entries(<< >>) \in Seq(Content) /\ Len(Entries(<< >>)) = 0
  <2>1. << >> \in Seq(Record) /\ Len(<< >>) = 0
    OBVIOUS
  <2>2. QED
    BY <2>1, EntriesType, Zenon
<1>3. QED
  BY <1>1, <1>2

\* A rename maps to a Commit of the run's own entry.
LEMMA LogCommit ==
    ASSUME IInv, NEW r \in Runs, Write(r)
    PROVE  Log!Commit(at[r], verb[r], payload[r], key[r])
<1> DEFINE new == NewRecord(r, chain)
           n == Len(chain)
<1>1. /\ chain \in Seq(Record) /\ new \in Record
      /\ chain' = Append(chain, new) /\ Verifies(chain')
  BY WriteAppends
<1>2. /\ n \in Nat
      /\ DOMAIN chain' = 1..n+1
      /\ chain'[n + 1] = new
      /\ \A i \in 1..n : chain'[i] = chain[i]
  <2> HIDE DEF new
  <2>1. QED
    BY <1>1
<1>3. /\ new.body = [seq |-> WantSeq(chain), time |-> at[r], kind |-> verb[r],
                      payload |-> payload[r], key |-> key[r]]
  BY DEF NewRecord, Link
<1>4. new.body.time = at[r] /\ new.body.payload = payload[r] /\ new.body.seq = WantSeq(chain)
  BY <1>3
<1>5. /\ Len(Entries(chain)) = n
      /\ \A i \in 1..n : Entries(chain)[i] = chain[i].body
      /\ Entries(chain') = Append(Entries(chain), new.body)
  <2>1. Entries(chain') = Append(Entries(chain), new.body)
    BY <1>1, EntriesAppend
  <2>2. Len(Entries(chain)) = n
    BY <1>1, EntriesType
  <2>3. QED
    BY <2>1, <2>2 DEF Entries
<1>6. WantSeq(chain) = n
  <2>1. chain'[n + 1].body.seq = (n + 1) - 1
    BY <1>1, <1>2 DEF Verifies, SeqContiguous
  <2>2. QED
    BY <1>2, <1>4, <2>1
<1>7. payload[r] \in sigs \cap docs /\ UNCHANGED <<sigs, docs>>
  BY DEF IInv, StoredInv, Write, Goto, Critical
<1>8. \A i \in 1..n : Entries(chain)[i].payload # payload[r]
  <2>1. SUFFICES ASSUME NEW i \in 1..n PROVE chain[i].body.payload # payload[r]
    BY <1>5
  <2>2. i \in DOMAIN chain' /\ n + 1 \in DOMAIN chain' /\ i # n + 1
    BY <1>2
  <2>3. chain'[i].body.payload # chain'[n + 1].body.payload
    BY <1>1, <2>2 DEF Verifies, NoRepeatedPayload
  <2>4. QED
    BY <1>2, <1>4, <2>3
<1>9. chain = << >> => verb[r] = "baseline"
  BY DEF IInv, VerbInv, TypeOK, Kinds, Steps, Write, Goto
<1>10. chain # << >> => Entries(chain)[n].time <= at[r]
  <2>1. SUFFICES ASSUME chain # << >> PROVE Entries(chain)[n].time <= at[r]
    OBVIOUS
  <2>2. n \in 1..n
    BY <1>1, <2>1
  <2>3. chain'[(n + 1) - 1].body.time <= chain'[n + 1].body.time
    <3>1. TimeOrdered(chain')
      BY <1>1 DEF Verifies
    <3>2. n + 1 \in DOMAIN chain' /\ n + 1 > 1
      BY <1>2, <2>2
    <3>3. QED
      BY <3>1, <3>2 DEF TimeOrdered
  <2>4. QED
    BY <1>2, <1>4, <1>5, <2>2, <2>3
<1>11. Entries(chain) = << >> <=> chain = << >>
  BY <1>1, EntriesType
<1>12. DOMAIN Entries(chain) = 1..n
  BY DEF Entries
<1>13. QED
  BY <1>3, <1>5, <1>6, <1>7, <1>8, <1>9, <1>10, <1>11, <1>12 DEF Log!Commit

\* Every step maps to a step of the log, or to none.
LEMMA LogStep == IInv /\ [Next]_vars => [Log!Next]_<<Entries(chain), sigs \cap docs>>
<1> SUFFICES ASSUME IInv, [Next]_vars
             PROVE  [Log!Next]_<<Entries(chain), sigs \cap docs>>
  OBVIOUS
<1>1. CASE \E r \in Runs : Write(r)
  <2>1. PICK r \in Runs : Write(r)
    BY <1>1
  <2>2. Log!Commit(at[r], verb[r], payload[r], key[r])
    BY <2>1, LogCommit
  <2>3. key[r] \in Trusted
    <3>1. /\ chain \in Seq(Record) /\ NewRecord(r, chain) \in Record
          /\ chain' = Append(chain, NewRecord(r, chain)) /\ Verifies(chain')
      BY <2>1, WriteAppends
    <3>2. Len(chain) + 1 \in DOMAIN chain' /\ chain'[Len(chain) + 1] = NewRecord(r, chain)
      BY <3>1, AppendProperties
    <3>3. NewRecord(r, chain).body.key = key[r]
      BY DEF NewRecord, Link
    <3>4. QED
      BY <3>1, <3>2, <3>3 DEF Verifies, AllTrusted
  <2>4. at[r] \in 0..MaxTime /\ verb[r] \in {"baseline", "append"} /\ payload[r] \in Payloads
    BY DEF IInv, TypeOK, Kinds
  <2>5. QED
    BY <2>2, <2>3, <2>4 DEF Log!Next
<1>2. CASE \A r \in Runs : ~Write(r)
  <2>1. UNCHANGED Entries(chain)
    BY <1>2, ChainFrame DEF Entries
  <2>2. CASE \E r \in Runs : PutSig(r) \/ PutDoc(r)
    <3>1. PICK r \in Runs : PutSig(r) \/ PutDoc(r)
      BY <2>2
    <3>2. payload[r] \in Payloads
      BY DEF IInv, TypeOK
    <3>3. (sigs \cap docs)' \in {sigs \cap docs, (sigs \cap docs) \cup {payload[r]}}
      BY <3>1 DEF PutSig, PutDoc
    <3>4. QED
      BY <2>1, <3>2, <3>3 DEF Log!Next, Log!StorePayload
  <2>3. CASE ~ \E r \in Runs : PutSig(r) \/ PutDoc(r)
    <3>1. UNCHANGED <<sigs, docs>>
      <4>1. CASE \E r \in Runs : Start(r) \/ Advance(r) \/ Abort(r)
        BY <1>2, <2>3, <4>1
           DEF Start, Advance, Abort, Precheck, Scan, Decide, GuardAppend,
               TakeLock, Busy, Read, Finish, Refuse
      <4>2. CASE BeginTransaction \/ EndTransaction \/ SetClock \/ UNCHANGED vars
        BY <4>2 DEF BeginTransaction, EndTransaction, SetClock, vars
      <4>3. QED
        BY <4>1, <4>2 DEF Next
    <3>2. QED
      BY <2>1, <3>1
  <2>4. QED
    BY <2>2, <2>3
<1>3. QED
  BY <1>1, <1>2

\* The chain store implements the append-only log: hashes, files, the lock and
\* the races of its runs make no difference a reader of the entries could see.
THEOREM StoreImplementsLog == Spec => ImplementsLog
<1>1. QED
  BY LogInit, LogStep, Inductive, PTL DEF Spec, ImplementsLog, Log!Spec, Log!vars

-----------------------------------------------------------------------------
(* The record of what was pushed.                                          *)

Claims == [length : Nat, head : Seq(Content), at : Nat]

\* A push that has written its signature: its claim and key are settled.
Settled == {"putDoc", "done", "killed"}

ReplTyped ==
    /\ ppc \in [Pushers -> {"idle"} \cup PushSteps \cup Ended]
    /\ DOMAIN pkey = Pushers
    /\ claim \in [Pushers -> Claims]
    /\ qpc \in [Readers -> {"idle", "first", "second", "doc", "sig", "done"}]
    /\ first \in [Readers -> Seq(Record)]
    /\ second \in [Readers -> Seq(Record)]
    /\ DOMAIN qdoc = Readers
    /\ DOMAIN anchors = Readers

\* What a push has loaded is still a part of the chain.
ClaimInv == \A p \in Pushers : ppc[p] \in {"putSig", "putDoc", "done"} => TrueOf(claim[p], chain)

\* The document on disk is one of these.
DocInv == replDoc # NoFile => TrueOf(replDoc, chain)

\* The signature on disk is of a push's own claim, by its own key.
SigInv ==
    replSig # NoFile =>
        \E p \in Pushers : ppc[p] \in Settled /\ replSig = [doc |-> claim[p], key |-> pkey[p]]

\* What a reader knows to be pushed, a push with a trusted key has signed.
KnownInv ==
    \A q \in Readers : \A a \in anchors[q] :
        \E p \in Pushers : pkey[p] \in Trusted /\ ppc[p] \in Settled /\ AnchorOf(claim[p]) = a

\* A reader's second load is never shorter than its first.
LoadsInv ==
    \A q \in Readers :
        /\ qpc[q] = "second" => Len(first[q]) <= Len(chain)
        /\ qpc[q] \in {"doc", "sig", "done"} => Len(first[q]) <= Len(second[q]) \/ first[q] = << >>

ReplInv == ReplTyped /\ ClaimInv /\ DocInv /\ SigInv /\ KnownInv /\ LoadsInv

-----------------------------------------------------------------------------
(* The chain under the replication record.                                 *)

\* A step of the store leaves the chain or adds a record to its end.
LEMMA ChainGrows ==
    ASSUME IInv, [Next]_vars
    PROVE  /\ chain \in Seq(Record)
           /\ chain' = chain \/ \E rec \in Record : chain' = Append(chain, rec)
<1>1. chain \in Seq(Record)
  BY DEF IInv, TypeOK
<1>2. CASE \E r \in Runs : Write(r)
  BY <1>1, <1>2, WriteAppends
<1>3. CASE \A r \in Runs : ~Write(r)
  BY <1>1, <1>3, ChainFrame
<1>4. QED
  BY <1>2, <1>3

\* What is true of a chain stays true of it as it grows.
LEMMA TrueStays ==
    ASSUME IInv, [Next]_vars, NEW a, TrueOf(a, chain)
    PROVE  TrueOf(a, chain')
<1>1. CASE chain' = chain
  BY <1>1
<1>2. ASSUME NEW rec \in Record, chain' = Append(chain, rec) PROVE TrueOf(a, chain')
  <2>1. chain \in Seq(Record)
    BY ChainGrows
  <2>2. DOMAIN chain = 1..Len(chain) /\ Len(chain) \in Nat /\ DOMAIN Append(chain, rec) = 1..(Len(chain) + 1)
    BY <2>1
  <2>3. a.length \in DOMAIN chain /\ Append(chain, rec)[a.length] = chain[a.length]
    BY <2>1, <2>2 DEF TrueOf
  <2>4. QED
    BY <1>2, <2>2, <2>3 DEF TrueOf
<1>3. QED
  BY <1>1, <1>2, ChainGrows

\* The head of a chain that is not empty is true of it, and a claim.
LEMMA HeadIsTrue ==
    ASSUME NEW rs \in Seq(Record), rs # << >>
    PROVE  /\ HeadAnchor(rs).length \in Nat
           /\ HeadAnchor(rs).head \in Seq(Content)
           /\ HeadAnchor(rs).length = Len(rs)
           /\ HeadAnchor(rs).head = Hash(rs[Len(rs)])
           /\ Len(rs) \in DOMAIN rs
<1>1. Len(rs) \in Nat /\ Len(rs) \in DOMAIN rs /\ rs[Len(rs)] \in Record
  OBVIOUS
<1>2. Append(rs[Len(rs)].prev, rs[Len(rs)].body) \in Seq(Content)
  BY <1>1 DEF Record
<1>3. QED
  BY <1>1, <1>2 DEF HeadAnchor, WantPrev, Hash

-----------------------------------------------------------------------------
(* The invariant.                                                          *)

LEMMA ReplInit == InitR => ReplInv
<1> SUFFICES ASSUME InitR PROVE ReplInv
  OBVIOUS
<1>1. NoClaim \in Claims
  BY DEF NoClaim, Claims, GenesisPrev
<1>2. ReplTyped
  BY <1>1 DEF InitR, ReplTyped
<1>3. QED
  BY <1>2 DEF InitR, ReplInv, ClaimInv, DocInv, SigInv, KnownInv, LoadsInv

\* A step of the store.
LEMMA StoreStep == IInv /\ ReplInv /\ [Next]_vars /\ UNCHANGED replVars => ReplInv'
<1> SUFFICES ASSUME IInv, ReplInv, [Next]_vars, UNCHANGED replVars PROVE ReplInv'
  OBVIOUS
<1>0. UNCHANGED <<replSig, replDoc, ppc, pkey, claim, qpc, first, second, qdoc, anchors>>
  BY DEF replVars, pushVars, readVars
<1>1. ReplTyped' /\ SigInv' /\ KnownInv'
  BY <1>0 DEF ReplInv, ReplTyped, SigInv, KnownInv
<1>2. ClaimInv' /\ DocInv'
  BY <1>0, TrueStays DEF ReplInv, ClaimInv, DocInv
<1>3. LoadsInv'
  <2>1. Len(chain) \in Nat /\ Len(chain') \in Nat /\ Len(chain) <= Len(chain')
    BY ChainGrows
  <2>2. \A q \in Readers : Len(first[q]) \in Nat
    BY DEF ReplInv, ReplTyped
  <2>3. QED
    BY <1>0, <2>1, <2>2 DEF ReplInv, LoadsInv
<1>4. QED
  BY <1>1, <1>2, <1>3 DEF ReplInv

\* A step of a push changes nothing of the chain, of the readers, or of the
\* other pushes; what its signature and document are is all there is to show.
LEMMA PushFrame ==
    ASSUME ReplInv, NEW p \in Pushers, NEW to \in {"idle"} \cup PushSteps \cup Ended,
           ppc[p] \notin {"done", "killed"},
           ppc[p] = "putDoc" => to \in {"done", "killed"} /\ UNCHANGED <<pkey, claim>>,
           ppc' = [ppc EXCEPT ![p] = to],
           UNCHANGED <<vars, readVars>>,
           \A o \in Pushers \ {p} : claim'[o] = claim[o] /\ pkey'[o] = pkey[o],
           claim' \in [Pushers -> Claims], DOMAIN pkey' = Pushers,
           to \in {"putSig", "putDoc", "done"} => TrueOf(claim'[p], chain)
    PROVE  /\ ReplTyped' /\ ClaimInv' /\ KnownInv' /\ LoadsInv'
           /\ replSig' = replSig => SigInv'
           /\ replDoc' = replDoc => DocInv'
<1>0. UNCHANGED <<chain, qpc, first, second, qdoc, anchors>>
  BY DEF vars, disk, readVars
<1>1. ReplTyped'
  BY <1>0 DEF ReplInv, ReplTyped
<1>2. \A o \in Pushers : ppc'[o] = IF o = p THEN to ELSE ppc[o]
  BY DEF ReplInv, ReplTyped
<1>3. ClaimInv'
  BY <1>0, <1>2 DEF ReplInv, ClaimInv
<1>4. \A o \in Pushers : ppc[o] \in Settled => ppc'[o] \in Settled /\ claim'[o] = claim[o] /\ pkey'[o] = pkey[o]
  BY <1>2 DEF Settled
<1>5. KnownInv'
  BY <1>0, <1>4 DEF ReplInv, KnownInv, AnchorOf
<1>6. LoadsInv'
  BY <1>0 DEF ReplInv, LoadsInv
<1>7. ASSUME replSig' = replSig PROVE SigInv'
  BY <1>4, <1>7 DEF ReplInv, SigInv
<1>8. ASSUME replDoc' = replDoc PROVE DocInv'
  BY <1>0, <1>8 DEF ReplInv, DocInv
<1>9. QED
  BY <1>1, <1>3, <1>5, <1>6, <1>7, <1>8

\* The five steps of a push.
LEMMA PushStartStep == ASSUME IInv, ReplInv, NEW p \in Pushers, PushStart(p) PROVE ReplInv'
<1>1. PICK k \in Keys : pkey' = [pkey EXCEPT ![p] = k]
  BY DEF PushStart
<1>2. Clock \in Nat
  BY BoundsAssumption DEF Clock, IInv, TypeOK
<1>3. claim' = [claim EXCEPT ![p] = [@ EXCEPT !.at = Clock]]
  BY DEF PushStart
<1>4. claim' \in [Pushers -> Claims]
  BY <1>2, <1>3 DEF ReplInv, ReplTyped, Claims
<1>5. DOMAIN pkey' = Pushers
  BY <1>1 DEF ReplInv, ReplTyped
<1>6. \A o \in Pushers \ {p} : claim'[o] = claim[o] /\ pkey'[o] = pkey[o]
  BY <1>1, <1>3 DEF ReplInv, ReplTyped
<1>7. UNCHANGED <<vars, readVars, replSig, replDoc>> /\ ppc[p] = "idle" /\ ppc' = [ppc EXCEPT ![p] = "loading"]
  BY DEF PushStart, PushGoto
<1>8. ReplTyped' /\ ClaimInv' /\ KnownInv' /\ LoadsInv' /\ SigInv' /\ DocInv'
  <2>1. "loading" \in {"idle"} \cup PushSteps \cup Ended
    BY DEF PushSteps
  <2>2. QED
    BY <1>4, <1>5, <1>6, <1>7, <2>1, PushFrame
<1>9. QED
  BY <1>8 DEF ReplInv

LEMMA PushLoadStep == ASSUME IInv, ReplInv, NEW p \in Pushers, PushLoad(p) PROVE ReplInv'
<1>1. UNCHANGED <<vars, readVars, replSig, replDoc, pkey>> /\ ppc[p] = "loading"
  BY DEF PushLoad, PushGoto
<1>2. DOMAIN pkey' = Pushers /\ \A o \in Pushers : pkey'[o] = pkey[o]
  BY <1>1 DEF ReplInv, ReplTyped
<1>3. CASE ppc' = [ppc EXCEPT ![p] = "refused"] /\ claim' = claim
  <2>1. "refused" \in {"idle"} \cup PushSteps \cup Ended
    BY DEF Ended
  <2>2. claim' \in [Pushers -> Claims]
    BY <1>3 DEF ReplInv, ReplTyped
  <2>3. ReplTyped' /\ ClaimInv' /\ KnownInv' /\ LoadsInv' /\ SigInv' /\ DocInv'
    BY <1>1, <1>2, <1>3, <2>1, <2>2, PushFrame
  <2>4. QED
    BY <2>3 DEF ReplInv
<1>4. CASE /\ chain # << >>
           /\ ppc' = [ppc EXCEPT ![p] = "putSig"]
           /\ claim' = [claim EXCEPT ![p] = [@ EXCEPT !.length = Recorded(chain).length, !.head = Recorded(chain).head]]
  <2>1. "putSig" \in {"idle"} \cup PushSteps \cup Ended
    BY DEF PushSteps
  <2>2. /\ Recorded(chain).length \in Nat
        /\ Recorded(chain).head \in Seq(Content)
        /\ Recorded(chain).length = Len(chain)
        /\ Recorded(chain).head = Hash(chain[Len(chain)])
        /\ Len(chain) \in DOMAIN chain
    <3>1. chain \in Seq(Record)
      BY DEF IInv, TypeOK
    <3>2. QED
      BY <1>4, <3>1, HeadIsTrue DEF Recorded
  <2>3. /\ claim' \in [Pushers -> Claims]
        /\ claim'[p].length = Recorded(chain).length
        /\ claim'[p].head = Recorded(chain).head
        /\ \A o \in Pushers \ {p} : claim'[o] = claim[o]
    BY <1>4, <2>2 DEF ReplInv, ReplTyped, Claims
  <2>4. TrueOf(claim'[p], chain)
    BY <2>2, <2>3 DEF TrueOf
  <2>5. ReplTyped' /\ ClaimInv' /\ KnownInv' /\ LoadsInv' /\ SigInv' /\ DocInv'
    BY <1>1, <1>2, <1>4, <2>1, <2>3, <2>4, PushFrame
  <2>6. QED
    BY <2>5 DEF ReplInv
<1>5. QED
  BY <1>3, <1>4 DEF PushLoad, PushGoto

LEMMA PushSigStep == ASSUME IInv, ReplInv, NEW p \in Pushers, PushSig(p) PROVE ReplInv'
<1>1. /\ UNCHANGED <<vars, readVars, replDoc, pkey, claim>>
      /\ ppc[p] = "putSig"
      /\ ppc' = [ppc EXCEPT ![p] = "putDoc"]
      /\ replSig' = [doc |-> claim[p], key |-> pkey[p]]
  BY DEF PushSig, PushGoto
<1>2. "putDoc" \in {"idle"} \cup PushSteps \cup Ended
  BY DEF PushSteps
<1>3. TrueOf(claim[p], chain) /\ claim' \in [Pushers -> Claims] /\ DOMAIN pkey' = Pushers
  BY <1>1 DEF ReplInv, ReplTyped, ClaimInv
<1>4. ReplTyped' /\ ClaimInv' /\ KnownInv' /\ LoadsInv' /\ DocInv'
  BY <1>1, <1>2, <1>3, PushFrame
<1>5. SigInv'
  <2>1. ppc'[p] = "putDoc"
    BY <1>1 DEF ReplInv, ReplTyped
  <2>2. QED
    BY <1>1, <2>1 DEF SigInv, Settled
<1>6. QED
  BY <1>4, <1>5 DEF ReplInv

LEMMA PushDocStep == ASSUME IInv, ReplInv, NEW p \in Pushers, PushDoc(p) PROVE ReplInv'
<1>1. /\ UNCHANGED <<vars, readVars, replSig, pkey, claim>>
      /\ ppc[p] = "putDoc"
      /\ ppc' = [ppc EXCEPT ![p] = "done"]
      /\ replDoc' = claim[p]
  BY DEF PushDoc, PushGoto
<1>2. "done" \in {"idle"} \cup PushSteps \cup Ended
  BY DEF Ended
<1>3. TrueOf(claim[p], chain) /\ claim' \in [Pushers -> Claims] /\ DOMAIN pkey' = Pushers
  BY <1>1 DEF ReplInv, ReplTyped, ClaimInv
<1>4. ReplTyped' /\ ClaimInv' /\ KnownInv' /\ LoadsInv' /\ SigInv'
  BY <1>1, <1>2, <1>3, PushFrame
<1>5. DocInv'
  <2>1. UNCHANGED chain
    BY <1>1 DEF vars, disk
  <2>2. QED
    BY <1>1, <1>3, <2>1 DEF DocInv
<1>6. QED
  BY <1>4, <1>5 DEF ReplInv

LEMMA PushAbortStep == ASSUME IInv, ReplInv, NEW p \in Pushers, PushAbort(p) PROVE ReplInv'
<1>1. /\ UNCHANGED <<vars, readVars, replSig, replDoc, pkey, claim>>
      /\ ppc[p] \notin {"done", "killed"}
      /\ ppc' = [ppc EXCEPT ![p] = "killed"]
  BY DEF PushAbort, PushGoto, PushSteps
<1>2. "killed" \in {"idle"} \cup PushSteps \cup Ended
  BY DEF Ended
<1>3. claim' \in [Pushers -> Claims] /\ DOMAIN pkey' = Pushers
  BY <1>1 DEF ReplInv, ReplTyped
<1>4. ReplTyped' /\ ClaimInv' /\ KnownInv' /\ LoadsInv' /\ SigInv' /\ DocInv'
  BY <1>1, <1>2, <1>3, PushFrame
<1>5. QED
  BY <1>4 DEF ReplInv

\* A step of a reader changes nothing but what that reader holds.
LEMMA ReadFrame ==
    ASSUME ReplInv, UNCHANGED <<vars, replSig, replDoc, pushVars>>
    PROVE  /\ UNCHANGED <<chain, ppc, pkey, claim>>
           /\ ClaimInv' /\ DocInv' /\ SigInv'
<1>1. UNCHANGED <<chain, ppc, pkey, claim>>
  BY DEF vars, disk, pushVars
<1>2. QED
  BY <1>1 DEF ReplInv, ClaimInv, DocInv, SigInv

\* A reader has loaded the chain, or read the document.
LEMMA ReaderLoads ==
    ASSUME NEW q \in Readers
    PROVE  IInv /\ ReplInv /\ (ReadStart(q) \/ ReadFirst(q) \/ ReadSecond(q) \/ ReadDoc(q)) => ReplInv'
<1> SUFFICES ASSUME IInv, ReplInv, ReadStart(q) \/ ReadFirst(q) \/ ReadSecond(q) \/ ReadDoc(q)
             PROVE  ReplInv'
  OBVIOUS
<1>1. UNCHANGED <<vars, replSig, replDoc, pushVars, anchors>>
  BY DEF ReadStart, ReadFirst, ReadSecond, ReadDoc, ReadGoto
<1>2. UNCHANGED <<chain, ppc, pkey, claim>> /\ ClaimInv' /\ DocInv' /\ SigInv'
  BY <1>1, ReadFrame
<1>3. KnownInv'
  BY <1>1, <1>2 DEF ReplInv, KnownInv
<1>4. chain \in Seq(Record) /\ Len(chain) \in Nat
  BY DEF IInv, TypeOK
<1>5. ReplTyped'
  BY <1>1, <1>2, <1>4 DEF ReplInv, ReplTyped, ReadStart, ReadFirst, ReadSecond, ReadDoc, ReadGoto
<1>6. LoadsInv'
  <2>1. CASE ReadStart(q)
    BY <1>2, <2>1 DEF ReadStart, ReadGoto, ReplInv, ReplTyped, LoadsInv
  <2>2. CASE ReadFirst(q)
    BY <1>2, <1>4, <2>2 DEF ReadFirst, ReadGoto, ReplInv, ReplTyped, LoadsInv
  <2>3. CASE ReadSecond(q)
    BY <1>2, <2>3 DEF ReadSecond, ReadGoto, ReplInv, ReplTyped, LoadsInv
  <2>4. CASE ReadDoc(q)
    BY <1>2, <2>4 DEF ReadDoc, ReadGoto, ReplInv, ReplTyped, LoadsInv
  <2>5. QED
    BY <2>1, <2>2, <2>3, <2>4
<1>7. QED
  BY <1>2, <1>3, <1>5, <1>6 DEF ReplInv

\* A reader has read the signature: the anchor it now knows is the claim of
\* the push that made the signature.
LEMMA ReaderSettles == ASSUME IInv, ReplInv, NEW q \in Readers, ReadSig(q) PROVE ReplInv'
<1>1. /\ UNCHANGED <<vars, replSig, replDoc, pushVars, first, second, qdoc>>
      /\ qpc[q] = "sig"
      /\ qpc' = [qpc EXCEPT ![q] = "done"]
      /\ anchors' = [anchors EXCEPT ![q] = AnchorOption(qdoc[q], replSig)]
  BY DEF ReadSig, ReadGoto
<1>2. UNCHANGED <<chain, ppc, pkey, claim>> /\ ClaimInv' /\ DocInv' /\ SigInv'
  BY <1>1, ReadFrame
<1>3. ReplTyped' /\ LoadsInv'
  BY <1>1, <1>2 DEF ReplInv, ReplTyped, LoadsInv
<1>4. ASSUME NEW a \in AnchorOption(qdoc[q], replSig)
      PROVE  \E p \in Pushers : pkey[p] \in Trusted /\ ppc[p] \in Settled /\ AnchorOf(claim[p]) = a
  <2>1. /\ replSig # NoFile /\ replSig.doc = qdoc[q] /\ replSig.key \in Trusted
        /\ a = AnchorOf(qdoc[q])
    BY <1>4 DEF AnchorOption, Authentic
  <2>2. PICK p \in Pushers : ppc[p] \in Settled /\ replSig = [doc |-> claim[p], key |-> pkey[p]]
    BY <2>1 DEF ReplInv, SigInv
  <2>3. QED
    BY <2>1, <2>2
<1>5. KnownInv'
  <2>1. \A r \in Readers : anchors'[r] = IF r = q THEN AnchorOption(qdoc[q], replSig) ELSE anchors[r]
    BY <1>1 DEF ReplInv, ReplTyped
  <2>2. QED
    BY <1>2, <1>4, <2>1 DEF ReplInv, KnownInv
<1>6. QED
  BY <1>2, <1>3, <1>5 DEF ReplInv

-----------------------------------------------------------------------------
(* The theorems.                                                           *)

\* Every step with the record beside the chain is a step of the store or
\* leaves the store alone.
LEMMA StoreUnderneath == [NextR]_<<vars, replVars>> => [Next]_vars
<1>1. ASSUME NEW p \in Pushers, PushStart(p) \/ Push(p) \/ PushAbort(p) PROVE UNCHANGED vars
  BY <1>1 DEF PushStart, Push, PushLoad, PushSig, PushDoc, PushAbort, PushGoto
<1>2. ASSUME NEW q \in Readers, ReadStart(q) \/ ReadOn(q) PROVE UNCHANGED vars
  BY <1>2 DEF ReadStart, ReadOn, ReadFirst, ReadSecond, ReadDoc, ReadSig, ReadGoto
<1>3. QED
  BY <1>1, <1>2 DEF NextR

LEMMA ReplStep == IInv /\ ReplInv /\ [NextR]_<<vars, replVars>> => ReplInv'
<1> SUFFICES ASSUME IInv, ReplInv, [NextR]_<<vars, replVars>> PROVE ReplInv'
  OBVIOUS
<1>1. CASE [Next]_vars /\ UNCHANGED replVars
  BY <1>1, StoreStep
<1>2. ASSUME NEW p \in Pushers, PushStart(p) \/ Push(p) \/ PushAbort(p) PROVE ReplInv'
  BY <1>2, PushStartStep, PushLoadStep, PushSigStep, PushDocStep, PushAbortStep DEF Push
<1>3. ASSUME NEW q \in Readers, ReadStart(q) \/ ReadOn(q) PROVE ReplInv'
  BY <1>3, ReaderLoads, ReaderSettles DEF ReadOn
<1>4. QED
  BY <1>1, <1>2, <1>3 DEF NextR

\* The chain store's own theorems hold of every behaviour with pushes and
\* readers beside it.
THEOREM StoreStillCorrect == SpecR => Spec
<1>1. InitR => Init
  BY DEF InitR
<1>2. QED
  BY <1>1, StoreUnderneath, PTL DEF SpecR, Spec

THEOREM ReplInductive == SpecR => []ReplInv
<1>1. QED
  BY ReplInit, ReplStep, StoreStillCorrect, Inductive, PTL DEF SpecR

\* Whatever pushes and appends race, and wherever a push stops between its two
\* writes, a recorded anchor that authenticates is true of the chain on disk
\* (PutReplication, which takes no lock, against Append).
THEOREM AnchorAlwaysTrue == SpecR => []AnchorIsTrue
<1>1. ReplInv => AnchorIsTrue
  BY DEF ReplInv, DocInv, AnchorIsTrue, AnchorOption, Authentic, AnchorOf, TrueOf
<1>2. QED
  BY <1>1, ReplInductive, PTL

\* A chain that verifies against an anchor reaches it, with its head there.
LEMMA VerifiedAgainst ==
    ASSUME NEW rs, NEW known, NEW a \in known, VerifyError(rs, known) = "ok"
    PROVE  ~TruncatedBy(rs, a) /\ ~ForkedBy(rs, a)
<1> DEFINE checks == << <<"ErrSignature", AllTrusted(rs)>>,
                        <<"ErrReplay",    NoRepeatedRecord(rs)>>,
                        <<"ErrFork",      NoFork(rs)>>,
                        <<"ErrSequence",  SeqContiguous(rs)>>,
                        <<"ErrPrevHash",  Linked(rs)>>,
                        <<"ErrReplay",    NoRepeatedPayload(rs)>>,
                        <<"ErrTime",      TimeOrdered(rs)>>,
                        <<"ErrTruncated", \A b \in known : ~TruncatedBy(rs, b)>>,
                        <<"ErrFork",      \A b \in known : ~ForkedBy(rs, b)>> >>
           failed == {i \in DOMAIN checks : ~checks[i][2]}
<1>1. /\ checks[8][2] = (\A b \in known : ~TruncatedBy(rs, b))
      /\ checks[9][2] = (\A b \in known : ~ForkedBy(rs, b))
  OBVIOUS
<1>2. \A i \in 1..9 : checks[i][1] # "ok"
  <2>1. \A i \in 1..9 : i = 1 \/ i = 2 \/ i = 3 \/ i = 4 \/ i = 5 \/ i = 6 \/ i = 7 \/ i = 8 \/ i = 9
    OBVIOUS
  <2>2. /\ checks[1][1] # "ok" /\ checks[2][1] # "ok" /\ checks[3][1] # "ok" /\ checks[4][1] # "ok"
        /\ checks[5][1] # "ok" /\ checks[6][1] # "ok" /\ checks[7][1] # "ok" /\ checks[8][1] # "ok"
        /\ checks[9][1] # "ok"
    OBVIOUS
  <2> HIDE DEF checks
  <2>3. QED
    BY <2>1, <2>2
<1>3. DOMAIN checks = 1..9
  OBVIOUS
<1>4. VerifyError(rs, known) =
        IF failed = {} THEN "ok" ELSE checks[CHOOSE i \in failed : \A j \in failed : i <= j][1]
  BY DEF VerifyError
<1> HIDE DEF checks
<1>5. failed = {}
  <2>1. SUFFICES ASSUME failed # {} PROVE FALSE
    OBVIOUS
  <2>2. failed \subseteq 1..9 /\ failed \subseteq Nat
    BY <1>3
  <2> HIDE DEF failed
  <2>3. \E i \in failed : \A j \in failed : i <= j
    <3>1. \A i \in failed : i \in Int /\ 1 <= i /\ i <= 9
      BY <2>2
    <3>2. CASE 1 \in failed
      BY <3>1, <3>2
    <3>3. CASE 1 \notin failed /\ 2 \in failed
      BY <3>1, <3>3
    <3>4. CASE 1 \notin failed /\ 2 \notin failed /\ 3 \in failed
      BY <3>1, <3>4
    <3>5. CASE \A i \in failed : i > 3
      <4>1. CASE 4 \in failed
        BY <3>1, <3>5, <4>1
      <4>2. CASE 4 \notin failed /\ 5 \in failed
        BY <3>1, <3>5, <4>2
      <4>3. CASE 4 \notin failed /\ 5 \notin failed /\ 6 \in failed
        BY <3>1, <3>5, <4>3
      <4>4. CASE \A i \in failed : i > 6
        BY <2>1, <3>1, <4>4
      <4>5. QED
        BY <3>1, <3>5, <4>1, <4>2, <4>3, <4>4
    <3>6. QED
      BY <3>1, <3>2, <3>3, <3>4, <3>5
  <2>4. (CHOOSE i \in failed : \A j \in failed : i <= j) \in failed
    BY <2>3
  <2>5. QED
    BY <1>2, <1>4, <2>1, <2>2, <2>4
<1>6. checks[8][2] /\ checks[9][2]
  BY <1>3, <1>5
<1>7. QED
  BY <1>1, <1>6

\* `baseline verify` says of a chain that it is clean and complete only when a
\* push with a trusted key has recorded the head of the chain it verified,
\* however its four reads interleave with appends and pushes.
THEOREM CleanAlwaysPushed == SpecR => []CleanIsPushed
<1>1. ASSUME ReplInv, NEW q \in Readers, qpc[q] = "done",
             VerifyExit(first[q], second[q], anchors[q]) = 0
      PROVE  \E p \in Pushers :
                 /\ pkey[p] \in Trusted
                 /\ ppc[p] \in {"putDoc", "done", "killed"}
                 /\ AnchorOf(claim[p]) = HeadAnchor(first[q])
  <2>1. /\ first[q] # << >>
        /\ VerifyError(first[q], anchors[q]) = "ok"
        /\ anchors[q] # {}
        /\ ExitCode(second[q], anchors[q]) = 0
    BY <1>1 DEF VerifyExit
  <2>2. ~Suspicious(second[q], anchors[q])
    BY <2>1 DEF ExitCode
  <2>3. first[q] \in Seq(Record) /\ second[q] \in Seq(Record) /\ Len(first[q]) <= Len(second[q])
    BY <1>1, <2>1 DEF ReplInv, ReplTyped, LoadsInv
  <2>4. /\ Len(first[q]) \in Nat \ {0} /\ Len(second[q]) \in Nat
        /\ DOMAIN first[q] = 1..Len(first[q])
        /\ DOMAIN second[q] = 1..Len(second[q])
        /\ second[q] # << >>
    BY <2>1, <2>3
  <2>5. PICK a \in anchors[q] : ~(Len(second[q]) > a.length)
    <3>1. Len(second[q]) \notin Unpushed(second[q], anchors[q]) /\ Len(second[q]) \in DOMAIN second[q]
      BY <2>2, <2>4 DEF Suspicious
    <3>2. QED
      BY <3>1 DEF Unpushed
  <2>6. ~TruncatedBy(first[q], a) /\ ~ForkedBy(first[q], a)
    BY <2>1, VerifiedAgainst
  <2>7. PICK p \in Pushers : pkey[p] \in Trusted /\ ppc[p] \in Settled /\ AnchorOf(claim[p]) = a
    BY <1>1 DEF ReplInv, KnownInv
  <2>8. a.length \in Nat /\ a = [length |-> a.length, head |-> a.head]
    BY <1>1, <2>7 DEF ReplInv, ReplTyped, Claims, AnchorOf
  <2>9. a.length = Len(first[q])
    BY <2>3, <2>4, <2>5, <2>6, <2>8 DEF TruncatedBy
  <2>10. a.head = Hash(first[q][Len(first[q])])
    BY <2>4, <2>6, <2>9 DEF ForkedBy
  <2>11. a = HeadAnchor(first[q])
    BY <2>1, <2>8, <2>9, <2>10 DEF HeadAnchor, WantPrev
  <2>12. QED
    BY <2>7, <2>11 DEF Settled
<1>2. ReplInv => CleanIsPushed
  BY <1>1 DEF CleanIsPushed
<1>3. QED
  BY <1>2, ReplInductive, PTL

-----------------------------------------------------------------------------
(* A chain that can be put back (ChainRestore).                            *)

RestTyped ==
    /\ TypeOK /\ DbInv
    /\ DOMAIN ppc = Pushers /\ DOMAIN pkey = Pushers
    /\ claim \in [Pushers -> Claims]
    /\ qpc \in [Readers -> {"idle", "sig", "done"} \cup Unread]
    /\ DOMAIN qdoc = Readers /\ DOMAIN anchors = Readers
    /\ first \in [Readers -> Seq(Record)]

\* What a push has assembled names a head, and what the last one to be
\* recorded wrote is what is on record.
PushedInv ==
    /\ \A p \in Pushers : ppc[p] \in {"putSig", "putDoc", "done"} => claim[p].length \in Nat \ {0}
    /\ last \subseteq Pushers
    /\ \A p \in last : ppc[p] = "done" /\ replDoc = claim[p]

\* What a reader is owed is on record until it has read the document, is what
\* the document it has read says, and is all it can compare the chain with.
OwedInv ==
    \A q \in Readers : \A a \in owed[q] :
        /\ a.length \in Nat \ {0}
        /\ qpc[q] \in Unread \cup {"idle"} => a = AnchorOf(replDoc)
        /\ qpc[q] = "sig" => a = AnchorOf(qdoc[q])
        /\ qpc[q] = "done" => first[q] = << >> \/ anchors[q] \subseteq {a}

RestInv == RestTyped /\ PushedInv /\ OwedInv

LEMMA RestInit == InitX => RestInv
<1> SUFFICES ASSUME InitX PROVE RestInv
  OBVIOUS
<1>1. RestTyped
  <2>1. TypeOK /\ DbInv
    BY TypeInit DEF InitX, InitR
  <2>2. NoClaim \in Claims
    BY DEF NoClaim, Claims, GenesisPrev
  <2>3. QED
    BY <2>1, <2>2 DEF InitX, InitR, RestTyped
<1>2. PushedInv /\ OwedInv
  BY DEF InitX, InitR, PushedInv, OwedInv
<1>3. QED
  BY <1>1, <1>2 DEF RestInv

Recording == last' = IF Finishing = {} THEN last ELSE Finishing

\* Without a push that finishes, the last one is the last one still.
LEMMA StaysLast ==
    ASSUME PushedInv, Recording, Finishing = {}, UNCHANGED replDoc,
           \A p \in Pushers : ppc'[p] \in {"putSig", "putDoc", "done"} => claim'[p].length \in Nat \ {0},
           \A p \in Pushers : ppc[p] = "done" => ppc'[p] = "done" /\ claim'[p] = claim[p]
    PROVE  PushedInv'
BY DEF PushedInv, Recording

\* A push moves on without a change to the chain or to the readers; it
\* replaces the document in the step in which it finishes.
LEMMA PushMoves ==
    ASSUME RestTyped, PushedInv, Recording, NEW p \in Pushers,
           PushStart(p) \/ Push(p) \/ PushAbort(p)
    PROVE  /\ UNCHANGED <<vars, readVars>>
           /\ DOMAIN ppc' = Pushers /\ DOMAIN pkey' = Pushers /\ claim' \in [Pushers -> Claims]
           /\ Finishing = {} => UNCHANGED replDoc
           /\ PushedInv'
<1>1. CASE PushStart(p)
  <2>1. PICK k \in Keys : pkey' = [pkey EXCEPT ![p] = k]
    BY <1>1 DEF PushStart
  <2>2. Clock \in Nat
    BY BoundsAssumption DEF Clock, RestTyped, TypeOK
  <2>3. claim' = [claim EXCEPT ![p] = [@ EXCEPT !.at = Clock]]
    BY <1>1 DEF PushStart
  <2>4. claim' \in [Pushers -> Claims] /\ DOMAIN pkey' = Pushers
    BY <2>1, <2>2, <2>3 DEF RestTyped, Claims
  <2>5. UNCHANGED <<vars, readVars, replDoc>> /\ ppc[p] = "idle" /\ ppc' = [ppc EXCEPT ![p] = "loading"]
    BY <1>1 DEF PushStart, PushGoto
  <2>6. /\ \A o \in Pushers \ {p} : ppc'[o] = ppc[o] /\ claim'[o] = claim[o]
        /\ ppc'[p] = "loading" /\ DOMAIN ppc' = Pushers
    BY <2>3, <2>5 DEF RestTyped
  <2>7. PushedInv'
    <3>1. Finishing = {}
      BY <2>6 DEF Finishing
    <3>2. QED
      BY <2>5, <2>6, <3>1, StaysLast DEF PushedInv
  <2>8. QED
    BY <2>4, <2>5, <2>6, <2>7
<1>2. CASE PushLoad(p)
  <2>1. UNCHANGED <<vars, readVars, pkey, replDoc>> /\ ppc[p] = "loading"
    BY <1>2 DEF PushLoad, PushGoto
  <2>2. CASE ppc' = [ppc EXCEPT ![p] = "refused"] /\ claim' = claim
    <3>1. /\ \A o \in Pushers \ {p} : ppc'[o] = ppc[o]
          /\ ppc'[p] = "refused" /\ DOMAIN ppc' = Pushers
      BY <2>2 DEF RestTyped
    <3>2. Finishing = {}
      BY <3>1 DEF Finishing
    <3>3. PushedInv'
      BY <2>1, <2>2, <3>1, <3>2, StaysLast DEF PushedInv
    <3>4. QED
      BY <2>1, <2>2, <3>1, <3>3 DEF RestTyped
  <2>3. CASE /\ chain # << >>
             /\ ppc' = [ppc EXCEPT ![p] = "putSig"]
             /\ claim' = [claim EXCEPT ![p] = [@ EXCEPT !.length = Recorded(chain).length, !.head = Recorded(chain).head]]
    <3>1. /\ Recorded(chain).length \in Nat \ {0}
          /\ Recorded(chain).head \in Seq(Content)
      <4>1. chain \in Seq(Record)
        BY DEF RestTyped, TypeOK
      <4>2. Len(chain) \in Nat \ {0}
        BY <2>3, <4>1
      <4>3. QED
        BY <2>3, <4>1, <4>2, HeadIsTrue DEF Recorded
    <3>2. claim' \in [Pushers -> Claims] /\ claim'[p].length = Recorded(chain).length
      BY <2>3, <3>1 DEF RestTyped, Claims
    <3>3. /\ \A o \in Pushers \ {p} : ppc'[o] = ppc[o] /\ claim'[o] = claim[o]
          /\ ppc'[p] = "putSig" /\ DOMAIN ppc' = Pushers
      BY <2>3 DEF RestTyped
    <3>4. Finishing = {}
      BY <3>3 DEF Finishing
    <3>5. PushedInv'
      BY <2>1, <3>1, <3>2, <3>3, <3>4, StaysLast DEF PushedInv
    <3>6. QED
      BY <2>1, <3>2, <3>3, <3>5 DEF RestTyped
  <2>4. QED
    BY <1>2, <2>2, <2>3 DEF PushLoad, PushGoto
<1>3. CASE PushSig(p) \/ PushAbort(p)
  <2>1. /\ UNCHANGED <<vars, readVars, pkey, claim, replDoc>> /\ ppc[p] \in PushSteps
        /\ \/ ppc[p] = "putSig" /\ ppc' = [ppc EXCEPT ![p] = "putDoc"]
           \/ ppc' = [ppc EXCEPT ![p] = "killed"]
    BY <1>3 DEF PushSig, PushAbort, PushGoto, PushSteps
  <2>2. /\ \A o \in Pushers \ {p} : ppc'[o] = ppc[o]
        /\ \/ ppc[p] = "putSig" /\ ppc'[p] = "putDoc"
           \/ ppc'[p] = "killed"
        /\ DOMAIN ppc' = Pushers
    BY <2>1 DEF RestTyped
  <2>3. Finishing = {}
    BY <2>2 DEF Finishing
  <2>4. ppc[p] # "done"
    BY <2>1 DEF PushSteps
  <2>5. PushedInv'
    BY <2>1, <2>2, <2>3, <2>4, StaysLast DEF PushedInv
  <2>6. QED
    BY <2>1, <2>2, <2>5 DEF RestTyped
<1>4. CASE PushDoc(p)
  <2>1. /\ UNCHANGED <<vars, readVars, pkey, claim>> /\ ppc[p] = "putDoc"
        /\ ppc' = [ppc EXCEPT ![p] = "done"] /\ replDoc' = claim[p]
    BY <1>4 DEF PushDoc, PushGoto
  <2>2. /\ \A o \in Pushers \ {p} : ppc'[o] = ppc[o]
        /\ ppc'[p] = "done" /\ DOMAIN ppc' = Pushers
    BY <2>1 DEF RestTyped
  <2>3. Finishing = {p}
    BY <2>1, <2>2 DEF Finishing
  <2>4. last' = {p}
    BY <2>3 DEF Recording
  <2>5. PushedInv'
    BY <2>1, <2>2, <2>4 DEF PushedInv
  <2>6. QED
    BY <2>1, <2>2, <2>3, <2>5 DEF RestTyped
<1>5. QED
  BY <1>1, <1>2, <1>3, <1>4 DEF Push

\* A reader moves on without a change to the chain or to the pushes.
LEMMA ReadMoves ==
    ASSUME RestTyped, NEW q \in Readers, ReadStart(q) \/ ReadOn(q)
    PROVE  /\ UNCHANGED <<vars, replSig, replDoc, pushVars>>
           /\ qpc' \in [Readers -> {"idle", "sig", "done"} \cup Unread]
           /\ DOMAIN qdoc' = Readers /\ DOMAIN anchors' = Readers
           /\ first' \in [Readers -> Seq(Record)]
           /\ \A r \in Readers \ {q} : /\ qpc'[r] = qpc[r] /\ first'[r] = first[r]
                                       /\ qdoc'[r] = qdoc[r] /\ anchors'[r] = anchors[r]
           /\ qpc[q] = "idle" => qpc'[q] = "first"
           /\ qpc[q] \in Unread =>
                \/ qpc'[q] \in Unread
                \/ qpc'[q] = "sig" /\ qdoc'[q] = replDoc
                \/ qpc'[q] = "done" /\ first'[q] = << >>
           /\ qpc[q] = "sig" => qpc'[q] = "done" /\ anchors'[q] = AnchorOption(qdoc[q], replSig)
           /\ qpc[q] # "done"
<1> USE DEF Unread
<1>0. chain \in Seq(Record)
  BY DEF RestTyped, TypeOK
<1>1. CASE ReadStart(q)
  BY <1>1 DEF ReadStart, ReadGoto, RestTyped
<1>2. CASE ReadFirst(q)
  BY <1>0, <1>2 DEF ReadFirst, ReadGoto, RestTyped
<1>3. CASE ReadSecond(q)
  BY <1>3 DEF ReadSecond, ReadGoto, RestTyped
<1>4. CASE ReadDoc(q)
  BY <1>4 DEF ReadDoc, ReadGoto, RestTyped
<1>5. CASE ReadSig(q)
  BY <1>5 DEF ReadSig, ReadGoto, RestTyped
<1>6. QED
  BY <1>1, <1>2, <1>3, <1>4, <1>5 DEF ReadOn

\* A step of any kind, as one reader sees it.
SeenBy(q) ==
    \/ /\ qpc[q] = "idle" /\ qpc'[q] \in {"idle", "first"}
    \/ /\ qpc[q] \in Unread
       /\ \/ qpc'[q] \in Unread
          \/ qpc'[q] = "sig" /\ qdoc'[q] = replDoc /\ Finishing = {}
          \/ qpc'[q] = "done" /\ first'[q] = << >>
    \/ /\ qpc[q] = "sig"
       /\ \/ qpc'[q] = "sig" /\ qdoc'[q] = qdoc[q]
          \/ qpc'[q] = "done" /\ anchors'[q] = AnchorOption(qdoc[q], replSig)
    \/ /\ qpc[q] = "done" /\ qpc'[q] = "done"
       /\ first'[q] = first[q] /\ anchors'[q] = anchors[q]

\* An anchor that was confirmed when the reader began is still what it is
\* held to, or it is no longer owed.
LEMMA SeenStep ==
    ASSUME RestInv, [NextX]_varsX, NextX, RestTyped', PushedInv', NEW q \in Readers, SeenBy(q),
           Finishing = {} => UNCHANGED replDoc, NEW a \in owed'[q]
    PROVE  /\ a.length \in Nat \ {0}
           /\ qpc'[q] \in Unread \cup {"idle"} => a = AnchorOf(replDoc')
           /\ qpc'[q] = "sig" => a = AnchorOf(qdoc'[q])
           /\ qpc'[q] = "done" => first'[q] = << >> \/ anchors'[q] \subseteq {a}
<1>1. owed'[q] = CASE qpc[q] = "idle" -> Confirmed'
                   [] qpc[q] \in Unread /\ Finishing # {} -> {}
                   [] OTHER -> owed[q]
  BY DEF NextX
<1>2. CASE qpc[q] = "idle"
  <2>1. a \in Confirmed'
    BY <1>1, <1>2 DEF Unread
  <2>2. PICK p \in last' : a = AnchorOf(claim'[p])
    BY <2>1 DEF Confirmed
  <2>3. p \in Pushers /\ ppc'[p] = "done" /\ replDoc' = claim'[p]
    BY <2>2 DEF PushedInv
  <2>4. a.length \in Nat \ {0} /\ a = AnchorOf(replDoc')
    BY <2>2, <2>3 DEF PushedInv, AnchorOf
  <2>5. qpc'[q] \in {"idle", "first"}
    BY <1>2 DEF SeenBy, Unread
  <2>6. QED
    BY <2>4, <2>5
<1>3. CASE qpc[q] \in Unread
  <2>1. Finishing = {} /\ a \in owed[q] /\ replDoc' = replDoc
    BY <1>1, <1>3 DEF Unread
  <2>2. a.length \in Nat \ {0} /\ a = AnchorOf(replDoc)
    BY <1>3, <2>1 DEF RestInv, OwedInv
  <2>3. \/ qpc'[q] \in Unread
        \/ qpc'[q] = "sig" /\ qdoc'[q] = replDoc
        \/ qpc'[q] = "done" /\ first'[q] = << >>
    BY <1>3 DEF SeenBy, Unread
  <2>4. QED
    BY <2>1, <2>2, <2>3 DEF Unread
<1>4. CASE qpc[q] = "sig"
  <2>1. a \in owed[q]
    BY <1>1, <1>4 DEF Unread
  <2>2. a.length \in Nat \ {0} /\ a = AnchorOf(qdoc[q])
    BY <1>4, <2>1 DEF RestInv, OwedInv
  <2>3. AnchorOption(qdoc[q], replSig) \subseteq {a}
    BY <2>2 DEF AnchorOption
  <2>4. \/ qpc'[q] = "sig" /\ qdoc'[q] = qdoc[q]
        \/ qpc'[q] = "done" /\ anchors'[q] = AnchorOption(qdoc[q], replSig)
    BY <1>4 DEF SeenBy, Unread
  <2>5. QED
    BY <2>2, <2>3, <2>4 DEF Unread
<1>5. CASE qpc[q] = "done"
  <2>1. a \in owed[q]
    BY <1>1, <1>5 DEF Unread
  <2>2. a.length \in Nat \ {0} /\ (first[q] = << >> \/ anchors[q] \subseteq {a})
    BY <1>5, <2>1 DEF RestInv, OwedInv
  <2>3. qpc'[q] = "done" /\ first'[q] = first[q] /\ anchors'[q] = anchors[q]
    BY <1>5 DEF SeenBy, Unread
  <2>4. QED
    BY <2>2, <2>3 DEF Unread
<1>6. QED
  BY <1>2, <1>3, <1>4, <1>5 DEF SeenBy

\* A reader that does not move.
LEMMA SeenStill ==
    ASSUME RestTyped, NEW q \in Readers, qpc'[q] = qpc[q], first'[q] = first[q],
           qdoc'[q] = qdoc[q], anchors'[q] = anchors[q]
    PROVE  SeenBy(q)
<1>1. qpc[q] \in {"idle", "sig", "done"} \cup Unread
  BY DEF RestTyped
<1>2. QED
  BY <1>1 DEF SeenBy

LEMMA RestStep == RestInv /\ [NextX]_varsX => RestInv'
<1> SUFFICES ASSUME RestInv, [NextX]_varsX PROVE RestInv'
  OBVIOUS
<1> USE DEF RestInv
<1>1. CASE UNCHANGED varsX
  BY <1>1 DEF varsX, vars, disk, world, locals, replVars, pushVars, readVars, RestTyped, TypeOK, DbInv,
              PushedInv, OwedInv
<1>2. CASE NextX
  <2>1. Recording
    BY <1>2 DEF NextX, Recording
  \* What each of the steps comes to.
  <2>2. ASSUME RestTyped', PushedInv', Finishing = {} => UNCHANGED replDoc,
               \A q \in Readers : SeenBy(q)
        PROVE  RestInv'
    <3>1. ASSUME NEW q \in Readers, NEW a \in owed'[q]
          PROVE  /\ a.length \in Nat \ {0}
                 /\ qpc'[q] \in Unread \cup {"idle"} => a = AnchorOf(replDoc')
                 /\ qpc'[q] = "sig" => a = AnchorOf(qdoc'[q])
                 /\ qpc'[q] = "done" => first'[q] = << >> \/ anchors'[q] \subseteq {a}
      <4>1. SeenBy(q)
        BY <2>2, <3>1
      <4>2. QED
        BY <1>2, <2>2, <3>1, <4>1, SeenStep
    <3>2. OwedInv'
      BY <3>1 DEF OwedInv, AnchorOf, Unread
    <3>3. QED
      BY <2>2, <3>2
  <2>3. CASE Next /\ UNCHANGED replVars
    <3>1. TypeOK' /\ DbInv'
      BY <2>3, TypeStep DEF RestTyped
    <3>2. UNCHANGED <<replSig, replDoc, ppc, pkey, claim, qpc, first, second, qdoc, anchors>>
      BY <2>3 DEF replVars, pushVars, readVars
    <3>3. RestTyped' /\ Finishing = {}
      BY <3>1, <3>2 DEF RestTyped, Finishing
    <3>4. PushedInv'
      BY <2>1, <3>2, <3>3, StaysLast DEF PushedInv
    <3>5. \A q \in Readers : SeenBy(q)
      BY <3>2, SeenStill
    <3>6. QED
      BY <2>2, <3>2, <3>3, <3>4, <3>5
  <2>4. ASSUME NEW p \in Pushers, PushStart(p) \/ Push(p) \/ PushAbort(p) PROVE RestInv'
    <3>1. /\ UNCHANGED <<vars, readVars>>
          /\ DOMAIN ppc' = Pushers /\ DOMAIN pkey' = Pushers /\ claim' \in [Pushers -> Claims]
          /\ Finishing = {} => UNCHANGED replDoc
          /\ PushedInv'
      BY <2>1, <2>4, PushMoves
    <3>2. UNCHANGED <<qpc, first, second, qdoc, anchors>>
      BY <3>1 DEF readVars
    <3>3. TypeOK' /\ DbInv'
      BY <3>1 DEF RestTyped, TypeOK, DbInv, vars, disk, world, locals
    <3>4. RestTyped'
      BY <3>1, <3>2, <3>3 DEF RestTyped
    <3>5. \A q \in Readers : SeenBy(q)
      BY <3>2, SeenStill
    <3>6. QED
      BY <2>2, <3>1, <3>4, <3>5
  <2>5. ASSUME NEW q \in Readers, ReadStart(q) \/ ReadOn(q) PROVE RestInv'
    <3>1. /\ UNCHANGED <<vars, replSig, replDoc, ppc, pkey, claim>>
          /\ qpc' \in [Readers -> {"idle", "sig", "done"} \cup Unread]
          /\ DOMAIN qdoc' = Readers /\ DOMAIN anchors' = Readers
          /\ first' \in [Readers -> Seq(Record)]
          /\ \A r \in Readers \ {q} : /\ qpc'[r] = qpc[r] /\ first'[r] = first[r]
                                      /\ qdoc'[r] = qdoc[r] /\ anchors'[r] = anchors[r]
          /\ qpc[q] = "idle" => qpc'[q] = "first"
          /\ qpc[q] \in Unread =>
               \/ qpc'[q] \in Unread
               \/ qpc'[q] = "sig" /\ qdoc'[q] = replDoc
               \/ qpc'[q] = "done" /\ first'[q] = << >>
          /\ qpc[q] = "sig" => qpc'[q] = "done" /\ anchors'[q] = AnchorOption(qdoc[q], replSig)
          /\ qpc[q] # "done"
      BY <2>5, ReadMoves DEF pushVars
    <3>2. TypeOK' /\ DbInv'
      BY <3>1 DEF RestTyped, TypeOK, DbInv, vars, disk, world, locals
    <3>3. RestTyped' /\ Finishing = {}
      BY <3>1, <3>2 DEF RestTyped, Finishing
    <3>4. PushedInv'
      BY <2>1, <3>1, <3>3, StaysLast DEF PushedInv
    <3>5. \A r \in Readers \ {q} : SeenBy(r)
      BY <3>1, SeenStill
    <3>6. SeenBy(q)
      <4>1. qpc[q] \in {"idle", "sig"} \cup Unread
        BY <2>5, <3>1 DEF RestTyped
      <4>2. QED
        BY <3>1, <3>3, <4>1 DEF SeenBy
    <3>7. QED
      BY <2>2, <3>1, <3>3, <3>4, <3>5, <3>6
  <2>6. CASE Restore
    <3>1. PICK n \in 0..(Len(chain) - 1) : chain' = SubSeq(chain, 1, n)
      BY <2>6 DEF Restore
    <3>2. chain' \in Seq(Record)
      BY <3>1 DEF RestTyped, TypeOK
    <3>3. UNCHANGED <<sigs, docs, lock, dblck, db, now, pc, verb, key, at, payload, copy>>
      BY <2>6 DEF Restore, world, locals
    <3>4. UNCHANGED <<replSig, replDoc, ppc, pkey, claim, qpc, first, second, qdoc, anchors>>
      BY <2>6 DEF Restore, replVars, pushVars, readVars
    <3>5. TypeOK' /\ DbInv'
      BY <3>2, <3>3 DEF RestTyped, TypeOK, DbInv
    <3>6. RestTyped' /\ Finishing = {}
      BY <3>4, <3>5 DEF RestTyped, Finishing
    <3>7. PushedInv'
      BY <2>1, <3>4, <3>6, StaysLast DEF PushedInv
    <3>8. \A q \in Readers : SeenBy(q)
      BY <3>4, SeenStill
    <3>9. QED
      BY <2>2, <3>4, <3>6, <3>7, <3>8
  <2>7. QED
    BY <1>2, <2>3, <2>4, <2>5, <2>6 DEF NextX, NextR
<1>3. QED
  BY <1>1, <1>2

\* CleanIsWhole, for any number of pushes, readers, appends and restores: what
\* the last recorded push confirmed is in every chain that `baseline verify`
\* reports clean, unless another push is recorded before it reads the document.
THEOREM CleanAlwaysWhole == SpecX => []CleanIsWhole
<1>1. ASSUME RestInv, NEW q \in Readers, qpc[q] = "done",
             VerifyExit(first[q], second[q], anchors[q]) = 0, NEW a \in owed[q]
      PROVE  TrueOf(a, first[q])
  <2>1. /\ first[q] # << >> /\ anchors[q] # {}
        /\ VerifyError(first[q], anchors[q]) = "ok"
    BY <1>1 DEF VerifyExit
  <2>2. a.length \in Nat \ {0} /\ anchors[q] \subseteq {a}
    BY <1>1, <2>1 DEF RestInv, OwedInv
  <2>3. a \in anchors[q]
    BY <2>1, <2>2
  <2>4. ~TruncatedBy(first[q], a) /\ ~ForkedBy(first[q], a)
    BY <2>1, <2>3, VerifiedAgainst
  <2>5. Len(first[q]) \in Nat /\ DOMAIN first[q] = 1..Len(first[q])
    BY <1>1 DEF RestInv, RestTyped
  <2>6. a.length \in DOMAIN first[q]
    BY <2>2, <2>4, <2>5 DEF TruncatedBy
  <2>7. QED
    BY <2>4, <2>6 DEF ForkedBy, TrueOf
<1>2. RestInv => CleanIsWhole
  BY <1>1 DEF CleanIsWhole
<1>3. QED
  BY <1>2, RestInit, RestStep, PTL DEF SpecX
=============================================================================
