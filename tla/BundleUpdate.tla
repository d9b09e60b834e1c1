---------------------------- MODULE BundleUpdate ----------------------------
(***************************************************************************)
(* `aurvet update` and `aurvet version`: processes over one bundle cache   *)
(* and one anti-rollback floor.                                            *)
(*                                                                         *)
(* An update loads the floor without a lock, fetches the delegation, its   *)
(* root signatures, the bundle and its signature one file at a time, runs  *)
(* Verify over them, stores them in the cache one rename at a time when    *)
(* they are usable, and then raises the floor under an advisory lock that  *)
(* covers a second load of it.  `version` reads the cache file by file and *)
(* the floor, and runs the same Verify; it does so without a floor when    *)
(* that cannot be read.                                                    *)
(*                                                                         *)
(* The origin may move on, or back to a lagging mirror, between any two    *)
(* requests, and the wall clock, which may be set back, shows anything     *)
(* when a run begins.  A run may stop anywhere: it is killed, a request    *)
(* fails, or another call does and the run exits with an error.  The one   *)
(* call whose failure does not end the run is the reader's of the floor.   *)
(***************************************************************************)
EXTENDS BundleVerify

CONSTANTS
    Publications,   \* what the origin has published: a sequence of releases
    Updates,        \* the invocations of `aurvet update`
    Versions,       \* the invocations of `aurvet version`
    NoRun,          \* nobody holds the lock
    MaxTime,        \* bound: the wall clock shows 0..MaxTime
    MaxMoves        \* bound: how often the origin changes what it serves

\* A release is a delegation, the root keys that signed it, in the order of
\* their files, a bundle, and the online key that signed that.
ASSUME ProcessesAssumption ==
    /\ NoRun \notin Updates \cup Versions
    /\ Updates \cap Versions = {}
ASSUME LimitsAssumption == MaxTime \in Nat /\ MaxMoves \in Nat

VARIABLES
    served,     \* the release the origin serves
    moves,      \* how often that changed
    cache,      \* the files of the cache directory
    floor,      \* bundle-floor.json
    lock,       \* the run that holds .bundle-floor.lock
    pc,         \* where each run is
    check,      \* whether an update was given --check
    at,         \* the clock when the run began, used throughout
    nth,        \* the signature file a run has come to
    got,        \* the files a run has fetched or read so far
    known,      \* the floor a run has loaded
    before      \* history: the updates that had ended when each run began

outside == <<served, moves>>
files == <<cache, floor>>
locals == <<check, at, nth, got, known, before>>
vars == <<outside, files, lock, pc, locals>>

Runs == Updates \cup Versions

Slots == 1..Cardinality(Roots)

Releases == {Publications[i] : i \in DOMAIN Publications}
Delegations == {r.del : r \in Releases}
Bundles == {r.bundle : r \in Releases}

Nothing == [del |-> Absent, signatures |-> << >>, bundle |-> Absent, bundleSig |-> Absent]

EmptyCache == [del |-> Absent, signatures |-> [i \in Slots |-> Absent],
               bundle |-> Absent, bundleSig |-> Absent]

Floors == [version : Nat, serial : Nat, digest : {b.digest : b \in Bundles},
           indicators : Nat, accepted : 0..MaxTime]

\* What the numbers of a release are, and that no file is mistaken for none.
ASSUME PublicationsAssumption ==
    /\ DOMAIN Publications # {}
    /\ \A d \in Delegations : d.serial \in Nat
    /\ \A b \in Bundles : b.version \in Nat /\ b.indicators \in Nat
    /\ NoFloor \notin Floors

Init ==
    /\ served \in DOMAIN Publications
    /\ moves = 0
    /\ cache = EmptyCache
    /\ floor = NoFloor
    /\ lock = NoRun
    /\ pc = [r \in Runs |-> "idle"]
    /\ check = [r \in Runs |-> FALSE]
    /\ at = [r \in Runs |-> 0]
    /\ nth = [r \in Runs |-> 1]
    /\ got = [r \in Runs |-> Nothing]
    /\ known = [r \in Runs |-> NoFloor]
    /\ before = [r \in Runs |-> {}]

-----------------------------------------------------------------------------
(* How a run moves on, and how it gives up.                                *)

Goto(r, from, to) ==
    /\ pc[r] = from
    /\ pc' = [pc EXCEPT ![r] = to]

Release(r) == lock' = IF lock = r THEN NoRun ELSE lock

Refuse(r, from) ==
    /\ Goto(r, from, "stopped")
    /\ Release(r)
    /\ UNCHANGED <<outside, files, locals>>

\* History: the updates that had ended when a run took its first step.
Begin(r) == before' = [before EXCEPT ![r] = {o \in Updates : pc[o] = "done"}]

\* The clock is read once, when the run begins, and may show anything; the
\* choice is put off to the step before the first one that depends on it.
ReadClock(r) == at' \in {[at EXCEPT ![r] = t] : t \in 0..MaxTime}

-----------------------------------------------------------------------------
(* Mistakes a change of this code could make, as in BundleVerify.          *)

\* The floor raised from what was loaded before the fetch.
RaisesKnown(u) == TRUE

\* A refused floor write reported, and the run carried on.
RereadCarryOn(u) ==
    /\ Goto(u, "rereading", "done")
    /\ Release(u)
    /\ UNCHANGED <<outside, files, locals>>

-----------------------------------------------------------------------------
(* runUpdate: the floor, then fetchArtifacts.                              *)

LoadFloor(u) ==
    /\ Goto(u, "idle", "del")
    /\ Begin(u)
    /\ known' = [known EXCEPT ![u] = floor]
    /\ UNCHANGED <<outside, files, lock, check, at, nth, got>>

\* A file of the release the origin serves at this moment.
Fetch(u, from, to, field, file) ==
    /\ Goto(u, from, to)
    /\ got' = [got EXCEPT ![u][field] = file]
    /\ UNCHANGED <<outside, files, lock, nth, known, before>>

FetchDel(u) ==
    /\ Fetch(u, "del", "signatures", "del", Publications[served].del)
    /\ UNCHANGED <<check, at>>

\* One signature file per root key: those the threshold needs, and of the
\* others the ones that are published and arrive.  (A set that mixes two
\* releases is refused whichever file it is that differs from the document.)
FetchSignatures(u) ==
    LET release == Publications[served]
        signature(i) == [by |-> release.signers[i], of |-> release.del]
    IN  /\ \E n \in Threshold..Len(release.signers) :
               Fetch(u, "signatures", "bundle", "signatures",
                     [i \in 1..n |-> signature(i)])
        /\ UNCHANGED <<check, at>>

FetchBundle(u) ==
    /\ Fetch(u, "bundle", "bundleSig", "bundle", Publications[served].bundle)
    /\ UNCHANGED <<check, at>>

-----------------------------------------------------------------------------
(* runUpdate: Verify, and what becomes of its verdict.                     *)

Judged(r) == State(got[r], known[r], at[r])

Advances(u) == FloorAdvances(got[u], known[u], at[u])

\* Only authenticated bytes are cached, and none of them under --check.
Stores(u) == UsableIndicators(Judged(u)) /\ ~check[u]

\* The last file; what follows up to the first write is computed from what
\* was fetched.  Nothing before it depends on --check.
FetchBundleSig(u) ==
    /\ pc[u] = "bundleSig"
    /\ got' = [got EXCEPT ![u].bundleSig = [by |-> Publications[served].signer,
                                           of |-> Publications[served].bundle]]
    /\ check' \in {[check EXCEPT ![u] = c] : c \in BOOLEAN}
    /\ ReadClock(u)
    /\ UNCHANGED <<outside, files, lock, nth, known, before>>
    /\ pc' = [pc EXCEPT ![u] = IF Stores(u)' THEN "storeDel" ELSE "done"]

\* Cache.Store: four kinds of file, each renamed into place on its own.
StoreDel(u) ==
    /\ Goto(u, "storeDel", "storeSignatures")
    /\ cache' = [cache EXCEPT !.del = got[u].del]
    /\ UNCHANGED <<outside, floor, lock, locals>>

StoreSignature(u) ==
    /\ pc[u] = "storeSignatures"
    /\ nth[u] \in DOMAIN got[u].signatures
    /\ cache' = [cache EXCEPT !.signatures[nth[u]] = got[u].signatures[nth[u]]]
    /\ nth' = [nth EXCEPT ![u] = @ + 1]
    /\ UNCHANGED <<outside, floor, lock, pc, check, at, got, known, before>>

StoreBundleSig(u) ==
    /\ nth[u] \notin DOMAIN got[u].signatures
    /\ Goto(u, "storeSignatures", "storeBundle")
    /\ cache' = [cache EXCEPT !.bundleSig = got[u].bundleSig]
    /\ UNCHANGED <<outside, floor, lock, locals>>

StoreBundle(u) ==
    /\ Goto(u, "storeBundle", IF Advances(u) THEN "locking" ELSE "done")
    /\ cache' = [cache EXCEPT !.bundle = got[u].bundle]
    /\ UNCHANGED <<outside, floor, lock, locals>>

-----------------------------------------------------------------------------
(* FloorStore.Save.                                                        *)

TakeLock(u) ==
    /\ lock = NoRun
    /\ Goto(u, "locking", "rereading")
    /\ lock' = u
    /\ UNCHANGED <<outside, files, locals>>

\* fsx.Lock waits no longer than its deadline.
Busy(u) ==
    /\ lock # NoRun
    /\ Refuse(u, "locking")

\* Neither the version nor the serial may go down from what is there now.
Raises(u) ==
    LET next == NextFloor(got[u], known[u], at[u])
    IN  floor # NoFloor => next.version >= floor.version /\ next.serial >= floor.serial

Reread(u) ==
    \/ /\ Goto(u, "rereading", "writing")
       /\ Raises(u)
       /\ UNCHANGED <<outside, files, lock, locals>>
    \/ /\ Refuse(u, "rereading")
       /\ ~Raises(u)

WriteFloor(u) ==
    /\ Goto(u, "writing", "done")
    /\ Release(u)
    /\ floor' = NextFloor(got[u], known[u], at[u])
    /\ UNCHANGED <<outside, cache, locals>>

-----------------------------------------------------------------------------
(* writeVersion: Cache.Load, then FloorStore.Load.                         *)

ReadFile(v, from, to, field) ==
    /\ Goto(v, from, to)
    /\ got' = [got EXCEPT ![v][field] = cache[field]]
    /\ UNCHANGED <<outside, files, lock, check, at, nth, known>>

ReadDel(v) == ReadFile(v, "idle", "readBundle", "del") /\ Begin(v)

ReadBundle(v) ==
    /\ ReadFile(v, "readBundle", "readBundleSig", "bundle")
    /\ UNCHANGED before

ReadBundleSig(v) ==
    /\ ReadFile(v, "readBundleSig", "readSignatures", "bundleSig")
    /\ UNCHANGED before

\* The files of the cache as Cache.Load lists them.
SignaturesPresent == SelectSeq(cache.signatures, LAMBDA s : s # Absent)

ReadSignatures(v) ==
    /\ Goto(v, "readSignatures", "readFloor")
    /\ got' = [got EXCEPT ![v].signatures = SignaturesPresent]
    /\ UNCHANGED <<outside, files, lock, check, at, nth, known, before>>

\* OpenFloor or Load may fail, and there may be no state directory: `version`
\* then judges what it has read as if there were no floor, and says at most
\* that the floor is unreadable.
ReadFloor(v) ==
    /\ \/ /\ Goto(v, "readFloor", "done")
          /\ known' = [known EXCEPT ![v] = floor]
       \/ /\ Goto(v, "readFloor", "unread")
          /\ known' = [known EXCEPT ![v] = NoFloor]
    /\ ReadClock(v)
    /\ UNCHANGED <<outside, files, lock, check, nth, got, before>>

-----------------------------------------------------------------------------
(* What happens to a run, and around it.                                   *)

\* A run that is killed, or that a failed request or call ends, takes no more
\* steps: any run may, as none has to take one.  Only the lock shows the
\* difference, for the kernel releases it.
Abort(u) ==
    /\ lock = u
    /\ \/ Refuse(u, "rereading")
       \/ Refuse(u, "writing")

\* A release is published, or a mirror that lags behind answers.
Serve ==
    /\ moves < MaxMoves
    /\ moves' = moves + 1
    /\ served' \in DOMAIN Publications
    /\ UNCHANGED <<files, lock, pc, locals>>

Update(u) ==
    \/ FetchDel(u) \/ FetchSignatures(u) \/ FetchBundle(u) \/ FetchBundleSig(u)
    \/ StoreDel(u) \/ StoreSignature(u) \/ StoreBundleSig(u) \/ StoreBundle(u)
    \/ TakeLock(u) \/ Busy(u) \/ Reread(u) \/ WriteFloor(u)

Version(v) ==
    \/ ReadDel(v) \/ ReadBundle(v) \/ ReadBundleSig(v) \/ ReadSignatures(v)
    \/ ReadFloor(v)

Next ==
    \/ \E u \in Updates : LoadFloor(u) \/ Update(u) \/ Abort(u)
    \/ \E v \in Versions : Version(v)
    \/ Serve

Spec == Init /\ [][Next]_vars

-----------------------------------------------------------------------------
(* Properties.                                                             *)

\* A floor that another one may follow: nothing goes down, and one version
\* keeps one digest.
FloorLE(f, g) ==
    \/ f = NoFloor
    \/ /\ g # NoFloor
       /\ g.version >= f.version
       /\ g.serial >= f.serial
       /\ g.version = f.version => g.digest = f.digest

\* updateExit; the optional signatures that did not arrive count as a gap.
ExitCode(u) ==
    IF \/ Judged(u) # "active"
       \/ Len(got[u].signatures) < Cardinality(Roots)
       \/ Gaps(got[u], known[u], at[u]) # {}
    THEN 3 ELSE 0

\* An update that ran to its end, wrote what it had to and called the bundle
\* current.
Accepted(u) == pc[u] = "done" /\ ~check[u] /\ Judged(u) = "active"

\* However updates race, the floor only ever rises, in version and in serial,
\* and never changes the digest of the version it stands at (FloorStore.Save
\* compares again under the lock what runUpdate loaded without it).
FloorOnlyRises == [][FloorLE(floor, floor')]_floor

\* The digest in the floor is the one of a bundle of the floor's version: it
\* is what the next bundle's prev_digest is held against (verify.go:296).
HeadDigestIsOfVersion ==
    floor # NoFloor =>
        \E b \in Bundles : b.version = floor.version /\ b.digest = floor.digest

\* Once an update has accepted a bundle, no update that begins later, and no
\* `version` that can read the floor, uses an older one or a superseded
\* delegation, fresh from the origin or from the cache (the rollback the floor
\* is for, floor.go:22).  A `version` that cannot read the floor is "unread".
NoRollback ==
    \A r \in Runs : pc[r] = "done" /\ UsableIndicators(Judged(r)) =>
        \A o \in before[r] : Accepted(o) =>
            /\ got[r].bundle.version >= got[o].bundle.version
            /\ got[r].del.serial >= got[o].del.serial

\* floor.go:174-176 says that "I could not read the floor" must never be
\* presented to the caller as "there is no floor": then a `version` that could
\* not read it calls nothing usable that is older than what was accepted.
\* TLC refutes it (README, section 6).
UnreadIsNotAbsent ==
    \A v \in Versions : pc[v] = "unread" /\ UsableIndicators(Judged(v)) =>
        \A o \in before[v] : Accepted(o) =>
            /\ got[v].bundle.version >= got[o].bundle.version
            /\ got[v].del.serial >= got[o].del.serial

\* An update that exits 0 has left a record of what it accepted, and the
\* record outlives every later update (runUpdate refuses when Save fails).
ExitZeroIsRecorded ==
    \A u \in Updates : Accepted(u) /\ ExitCode(u) = 0 =>
        /\ floor # NoFloor
        /\ floor.version >= got[u].bundle.version
        /\ floor.serial >= got[u].del.serial

Cached == [del |-> cache.del, signatures |-> SignaturesPresent,
           bundle |-> cache.bundle, bundleSig |-> cache.bundleSig]

\* update.go:267-268 says that the signatures past the threshold "are
\* optional, because a 2-of-3 set legitimately publishes two": what an update
\* stored, with nobody else at work, verifies when it is read back.
\* TLC refutes it (README, section 6).
StoredReadsBack ==
    \A u \in Updates :
        /\ pc[u] = "done"
        /\ Stores(u)
        /\ \A o \in Updates \ {u} : pc[o] = "idle" \/ o \in before[u]
        => UsableIndicators(State(Cached, floor, at[u]))
=============================================================================
