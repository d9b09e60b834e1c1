----------------------------- MODULE ChainStore -----------------------------
(***************************************************************************)
(* `aurvet baseline init` and `aurvet baseline append`: several processes, *)
(* each one invocation of the command, over one chain directory.           *)
(*                                                                         *)
(* A run reads the chain outside the lock to decide whether it may go on,  *)
(* scans the package database, refuses while pacman's db.lck exists, signs *)
(* a manifest and stores it (signature first, then the document), and only *)
(* then appends: db.lck again, the advisory flock, a second read of the    *)
(* chain, the new record linked to the head read under the lock, the whole *)
(* new chain verified, one atomic rename, the lock released.               *)
(*                                                                         *)
(* A run may stop at any point (Abort): it is killed, or a call fails and  *)
(* it exits with an error.  Either way the files keep what was renamed     *)
(* into place, the temporary file counts for nothing, and the kernel drops *)
(* the flock.  pacman's transactions and the wall clock, which may be set  *)
(* back, move on their own.                                                *)
(***************************************************************************)
EXTENDS ChainRecords

CONSTANTS
    Runs,               \* the invocations of init and append
    NoRun,              \* nobody holds the lock
    MaxTime,            \* bound: the wall clock shows 0..MaxTime
    MaxTransactions     \* bound: pacman transactions in a behaviour

\* A manifest holds the state of the package database the scan saw, whether
\* a transaction was rewriting it at the time, and its own creation time.
Manifest == [db : 0..MaxTransactions, torn : BOOLEAN, at : 0..MaxTime]

ASSUME RunsAssumption == NoRun \notin Runs
ASSUME BoundsAssumption == MaxTime \in Nat /\ MaxTransactions \in Nat
ASSUME PayloadsAssumption == Payloads = Manifest

VARIABLES
    chain,      \* the records of chain.log, << >> while the file is missing
    sigs,       \* payloads whose detached signature is in payloads/
    docs,       \* payloads whose document is in payloads/
    lock,       \* the run that holds the flock on .lock
    dblck,      \* pacman's db.lck exists
    db,         \* the package database: transactions completed so far
    now,        \* the wall clock, in the seconds a timestamp keeps
    pc,         \* where each run is
    verb,       \* "baseline" for init, "append" for append
    key,        \* the signing key of each run
    at,         \* env.now: the clock when the run began, used throughout
    payload,    \* the manifest the run has assembled
    copy        \* the chain as the run read it under the lock

disk == <<chain, sigs, docs>>
world == <<dblck, db, now>>
locals == <<verb, key, at, payload, copy>>
vars == <<disk, lock, world, pc, locals>>

Steps == {"opened", "scanning", "deciding", "putSig", "putDoc", "guarding",
          "locking", "reading", "writing", "releasing"}
Ended == {"done", "refused", "killed"}

\* The steps of Append between taking the lock and releasing it.
Critical == {"reading", "writing", "releasing"}

NoManifest == [db |-> 0, torn |-> FALSE, at |-> 0]

TypeOK ==
    /\ chain \in Seq(Record)
    /\ sigs \subseteq Payloads
    /\ docs \subseteq Payloads
    /\ lock \in Runs \cup {NoRun}
    /\ dblck \in BOOLEAN
    /\ db \in 0..MaxTransactions
    /\ now \in 0..MaxTime
    /\ pc \in [Runs -> {"idle"} \cup Steps \cup Ended]
    /\ verb \in [Runs -> Kinds]
    /\ key \in [Runs -> Keys]
    /\ at \in [Runs -> 0..MaxTime]
    /\ payload \in [Runs -> Payloads]
    /\ copy \in [Runs -> Seq(Record)]

Init ==
    /\ chain = << >>
    /\ sigs = {}
    /\ docs = {}
    /\ lock = NoRun
    /\ dblck = FALSE
    /\ db = 0
    /\ now = 0
    /\ pc = [r \in Runs |-> "idle"]
    /\ verb = [r \in Runs |-> "append"]
    /\ key = [r \in Runs |-> CHOOSE k \in Keys : TRUE]
    /\ at = [r \in Runs |-> 0]
    /\ payload = [r \in Runs |-> NoManifest]
    /\ copy = [r \in Runs |-> << >>]

-----------------------------------------------------------------------------
(* How a run moves on, and how it gives up.                                *)

Goto(r, from, to) ==
    /\ pc[r] = from
    /\ pc' = [pc EXCEPT ![r] = to]

\* Append's deferred release runs on every return, and so does the kernel's.
Release(r) == lock' = IF lock = r THEN NoRun ELSE lock

Refuse(r, from) ==
    /\ Goto(r, from, "refused")
    /\ Release(r)
    /\ UNCHANGED <<disk, world, locals>>

-----------------------------------------------------------------------------
(* Mistakes a change of this code could make.  No action uses them: they   *)
(* stand in for the definition they resemble when the checks are checked.  *)

\* The zero time, left in place of the clock.
ClockUnset == -1

\* The flock taken for granted.
FreeAlways(r) == TRUE

\* An append that would open a missing chain.
MayWriteAnyway(r) == verb[r] = "append" \/ chain = << >>

\* The new chain written without being verified as a whole.
MayAppendUnverified(r) == Verifies(chain)

\* A document whose rename was not flushed before the append went ahead.
PutDocUnsynced(r) ==
    /\ Goto(r, "putDoc", "guarding")
    /\ UNCHANGED <<disk, lock, world, locals>>

\* An append that waits for pacman instead of refusing.
GuardAppendWaiting(r) ==
    /\ ~dblck
    /\ Goto(r, "guarding", "locking")
    /\ UNCHANGED <<disk, lock, world, locals>>

-----------------------------------------------------------------------------
(* baselineWrite, before the append.                                       *)

\* The timestamp of everything the run will sign.
Clock == now

\* resolveBaselineEnv and reportUntrustedSigner: the clock is read once, and
\* a signer outside the trust set goes no further.
Start(r) ==
    /\ Goto(r, "idle", "opened")
    /\ verb' \in {[verb EXCEPT ![r] = v] : v \in Kinds}
    /\ key' \in {[key EXCEPT ![r] = k] : k \in Trusted}
    /\ at' = [at EXCEPT ![r] = Clock]
    /\ UNCHANGED <<disk, lock, world, payload, copy>>

\* init writes the first entry only, and append needs one to follow.
MayWrite(r) == (verb[r] = "baseline") <=> (chain = << >>)

Precheck(r) ==
    \/ /\ MayWrite(r)
       /\ Goto(r, "opened", "scanning")
       /\ UNCHANGED <<disk, lock, world, locals>>
    \/ /\ ~MayWrite(r)
       /\ Refuse(r, "opened")

\* runBaselineScan, and what BuildManifest will make of it.
Scan(r) ==
    /\ Goto(r, "scanning", "deciding")
    /\ payload' = [payload EXCEPT ![r] = [db |-> db, torn |-> dblck, at |-> at[r]]]
    /\ UNCHANGED <<disk, lock, world, verb, key, at, copy>>

\* DetectDBLock after the scan, and Bootstrap, which refuses because of it or
\* of what the scan found: criticals, coverage, tier, privilege.
Decide(r) ==
    \/ /\ ~dblck
       /\ Goto(r, "deciding", "putSig")
       /\ UNCHANGED <<disk, lock, world, locals>>
    \/ Refuse(r, "deciding")

\* PutPayload writes the signature, then the document it covers.
PutSig(r) ==
    /\ Goto(r, "putSig", "putDoc")
    /\ sigs' = sigs \cup {payload[r]}
    /\ UNCHANGED <<chain, docs, lock, world, locals>>

PutDoc(r) ==
    /\ Goto(r, "putDoc", "guarding")
    /\ docs' = docs \cup {payload[r]}
    /\ UNCHANGED <<chain, sigs, lock, world, locals>>

-----------------------------------------------------------------------------
(* Store.Append.                                                           *)

GuardAppend(r) ==
    \/ /\ ~dblck
       /\ Goto(r, "guarding", "locking")
       /\ UNCHANGED <<disk, lock, world, locals>>
    \/ /\ dblck
       /\ Refuse(r, "guarding")

Free(r) == lock = NoRun

\* fsx.Lock retries without blocking until its deadline: the lock is taken
\* when nobody holds it, and ErrBusy ends the run when somebody still does.
TakeLock(r) ==
    /\ Free(r)
    /\ Goto(r, "locking", "reading")
    /\ lock' = r
    /\ UNCHANGED <<disk, world, locals>>

Busy(r) ==
    /\ lock # NoRun
    /\ Refuse(r, "locking")

\* The record the run's builder makes for the head it is handed.
NewRecord(r, rs) == Link(rs, at[r], verb[r], payload[r], key[r])

\* The chain as it stands must verify, and so must the one that would result.
MayAppend(r) == Verifies(chain) /\ Verifies(Append(chain, NewRecord(r, chain)))

\* Load under the lock, then build on the head that was read.
Read(r) ==
    \/ /\ MayAppend(r)
       /\ Goto(r, "reading", "writing")
       /\ copy' = [copy EXCEPT ![r] = chain]
       /\ UNCHANGED <<disk, lock, world, verb, key, at, payload>>
    \/ /\ ~MayAppend(r)
       /\ Refuse(r, "reading")

\* writeAtomic: the rename replaces the whole file.
Write(r) ==
    /\ Goto(r, "writing", "releasing")
    /\ chain' = Append(copy[r], NewRecord(r, copy[r]))
    /\ UNCHANGED <<sigs, docs, lock, world, locals>>

Finish(r) ==
    /\ Goto(r, "releasing", "done")
    /\ Release(r)
    /\ UNCHANGED <<disk, world, locals>>

-----------------------------------------------------------------------------
(* What happens to a run, and around it.                                   *)

Abort(r) ==
    /\ pc[r] \in Steps
    /\ pc' = [pc EXCEPT ![r] = "killed"]
    /\ Release(r)
    /\ UNCHANGED <<disk, world, locals>>

BeginTransaction ==
    /\ ~dblck
    /\ db < MaxTransactions
    /\ dblck' = TRUE
    /\ UNCHANGED <<disk, lock, db, now, pc, locals>>

EndTransaction ==
    /\ dblck
    /\ dblck' = FALSE
    /\ db' = db + 1
    /\ UNCHANGED <<disk, lock, now, pc, locals>>

SetClock ==
    /\ now' \in 0..MaxTime
    /\ UNCHANGED <<disk, lock, dblck, db, pc, locals>>

Advance(r) ==
    \/ Precheck(r) \/ Scan(r) \/ Decide(r) \/ PutSig(r) \/ PutDoc(r)
    \/ GuardAppend(r) \/ TakeLock(r) \/ Busy(r) \/ Read(r) \/ Write(r)
    \/ Finish(r)

Next ==
    \/ \E r \in Runs : Start(r) \/ Advance(r) \/ Abort(r)
    \/ BeginTransaction
    \/ EndTransaction
    \/ SetClock

Spec == Init /\ [][Next]_vars

\* The operating system keeps scheduling a run that has begun; nothing makes
\* anybody begin one, kill one, or run pacman.
FairSpec == Spec /\ \A r \in Runs : WF_vars(Advance(r))

-----------------------------------------------------------------------------
(* Properties.                                                             *)

\* Whatever the runs do and wherever they stop, the chain file verifies: its
\* records are linked and contiguous, no payload is committed twice and time
\* does not run backwards (Store.Append's whole-chain check, store.go:278).
ChainVerifies == Verifies(chain)

\* The file only ever grows by one record at its end: no append is lost to a
\* concurrent one and none replaces another (the read-modify-write of
\* Store.Append under the flock).
AppendOnly == [][\E r \in Runs : chain' = Append(chain, NewRecord(r, chain))]_chain

\* Every record's manifest can be read back: signature and document were both
\* on disk before the record was (PutPayload before Append).
PayloadsReadable ==
    \A i \in DOMAIN chain : chain[i].body.payload \in sigs \cap docs

\* A run that reported success has its record in the chain for good, right
\* after the records it read under the lock.
SuccessIsRecorded ==
    \A r \in Runs :
        pc[r] = "done" =>
            /\ Len(copy[r]) + 1 \in DOMAIN chain
            /\ chain[Len(copy[r]) + 1] = NewRecord(r, copy[r])

\* An append never opens a chain: the first record is init's, so a lost chain
\* cannot pass for a fresh one (baselineWrite's refusal, baseline.go:373).
FirstIsBaseline == chain # << >> => chain[1].body.kind = "baseline"

\* A run that begins comes to an end, even when another one holds the lock
\* or a transaction never finishes: every wait is bounded (fsx.Lock).
EveryRunEnds == \A r \in Runs : pc[r] \in Steps ~> pc[r] \in Ended

\* chain.go:61 and :63 say that the first entry is written by `baseline init`
\* and that every later one is an append.
\* TLC refutes it (README, section 6).
OnlyFirstIsBaseline == \A i \in DOMAIN chain : i > 1 => chain[i].body.kind = "append"

\* lock.go:16 says that a baseline is refused, not recorded, when the scan it
\* was assembled from ran during a pacman transaction.
\* TLC refutes it (README, section 6).
NoTornBaseline == \A i \in DOMAIN chain : ~chain[i].body.payload.torn

\* What the records of rs say, hashes forgotten.
Entries(rs) == [i \in 1..Len(rs) |-> rs[i].body]

\* The chain store keeps the promise of ChainLog: hashes, files and locks
\* forgotten, its records are the entries of an append-only log.
Log == INSTANCE ChainLog WITH
           Keys <- Trusted,
           Times <- 0..MaxTime,
           log <- Entries(chain),
           stored <- sigs \cap docs

ImplementsLog == Log!Spec
=============================================================================
