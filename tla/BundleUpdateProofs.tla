------------------------- MODULE BundleUpdateProofs -------------------------
(***************************************************************************)
(* Proofs about BundleUpdate, for any number of updates and readers, any   *)
(* releases in any order, and any clock: the floor only rises, it holds    *)
(* the digest of the version it stands at, and an update that accepted a   *)
(* bundle has left a record of it.                                         *)
(*                                                                         *)
(* The inductive invariant says, of every update, what it may rely on at   *)
(* each of its steps: what it loaded is no newer than the floor, what it   *)
(* is about to write is an active bundle's, it holds the lock from the     *)
(* second load on, and what that load found is still so when it writes.    *)
(***************************************************************************)
EXTENDS BundleUpdate, TLAPS

-----------------------------------------------------------------------------
(* Facts about Verify.                                                     *)

ArtefactsOK(a) ==
    /\ a = [del |-> a.del, signatures |-> a.signatures,
            bundle |-> a.bundle, bundleSig |-> a.bundleSig]
    /\ a.del \in Delegations \cup {Absent}
    /\ a.bundle \in Bundles \cup {Absent}

FloorOrNone == Floors \cup {NoFloor}

\* An active bundle is there, and is not behind the floor it was held against.
LEMMA ActiveFacts ==
    ASSUME NEW a, NEW f, NEW t, State(a, f, t) = "active"
    PROVE  /\ a.del # Absent
           /\ a.bundle # Absent
           /\ SerialAllowed(a.del, f)
           /\ VersionAllowed(a.bundle, f)
BY DEF State, Delegates, BundleAllowed

LEMMA LargerFacts ==
    ASSUME NEW m \in Nat, NEW n \in Nat
    PROVE  Larger(m, n) \in Nat /\ Larger(m, n) >= m /\ Larger(m, n) >= n
BY DEF Larger

\* The floor an active bundle leads to is a floor, of that bundle's version and
\* digest, and behind neither the bundle nor the floor before it.
LEMMA NextFloorFacts ==
    ASSUME NEW a, ArtefactsOK(a), NEW f \in FloorOrNone, NEW t \in 0..MaxTime,
           State(a, f, t) = "active"
    PROVE  /\ NextFloor(a, f, t) \in Floors
           /\ a.bundle \in Bundles
           /\ NextFloor(a, f, t).version = a.bundle.version
           /\ NextFloor(a, f, t).digest = a.bundle.digest
           /\ NextFloor(a, f, t).serial \in Nat
           /\ NextFloor(a, f, t).serial >= a.del.serial
<1>1. /\ a.bundle \in Bundles /\ a.del \in Delegations
      /\ VersionAllowed(a.bundle, f)
  BY ActiveFacts DEF ArtefactsOK
<1>2. /\ a.bundle.version \in Nat /\ a.bundle.indicators \in Nat /\ a.del.serial \in Nat
      /\ a.bundle.digest \in {b.digest : b \in Bundles}
  BY <1>1, PublicationsAssumption
<1>3. f # NoFloor => f.version \in Nat /\ f.serial \in Nat
  BY DEF FloorOrNone, Floors
<1>4. f # NoFloor => Larger(a.bundle.version, f.version) = a.bundle.version
  <2> SUFFICES ASSUME f # NoFloor PROVE a.bundle.version >= f.version
    BY <1>2, <1>3 DEF Larger
  <2> QED BY <1>1, <1>2, <1>3 DEF VersionAllowed
<1>5. f # NoFloor => /\ Larger(a.del.serial, f.serial) \in Nat
                     /\ Larger(a.del.serial, f.serial) >= a.del.serial
  BY <1>2, <1>3, LargerFacts
<1> QED BY <1>1, <1>2, <1>3, <1>4, <1>5 DEF NextFloor, Floors

-----------------------------------------------------------------------------
(* The inductive invariant.                                                *)

\* The files in the cache and in hand are whole records of files or none.
Typed ==
    /\ served \in DOMAIN Publications
    /\ DOMAIN pc = Runs
    /\ DOMAIN got = Runs
    /\ DOMAIN check = Runs
    /\ known \in [Runs -> FloorOrNone]
    /\ at \in [Runs -> 0..MaxTime]
    /\ floor \in FloorOrNone
    /\ ArtefactsOK(cache)
    /\ \A r \in Runs : ArtefactsOK(got[r])

\* What an update loaded, the floor has passed.
Passed(u) ==
    known[u] # NoFloor =>
        /\ floor # NoFloor
        /\ floor.version >= known[u].version
        /\ floor.serial >= known[u].serial

\* What an update accepted is on record.
Recorded(u) ==
    Accepted(u) =>
        /\ floor # NoFloor
        /\ floor.version >= got[u].bundle.version
        /\ floor.serial >= got[u].del.serial

UpdateInv(u) ==
    /\ Passed(u)
    /\ Recorded(u)
    /\ pc[u] \in {"locking", "rereading", "writing"} => Advances(u)
    /\ pc[u] \in {"rereading", "writing"} => lock = u
    /\ pc[u] = "writing" => Raises(u)

IInv ==
    /\ Typed
    /\ HeadDigestIsOfVersion
    /\ \A u \in Updates : UpdateInv(u)

THEOREM InitInv == Init => IInv
<1> SUFFICES ASSUME Init PROVE IInv
  OBVIOUS
<1>1. Typed
  BY LimitsAssumption DEF Init, Typed, FloorOrNone, EmptyCache, ArtefactsOK, Nothing
<1>2. HeadDigestIsOfVersion
  BY DEF Init, HeadDigestIsOfVersion
<1>3. ASSUME NEW u \in Updates PROVE UpdateInv(u)
  <2>1. pc[u] = "idle" /\ known[u] = NoFloor
    BY DEF Init, Runs
  <2> QED BY <2>1 DEF UpdateInv, Passed, Recorded, Accepted
<1> QED BY <1>1, <1>2, <1>3 DEF IInv

-----------------------------------------------------------------------------
(* The steps that leave the floor alone.                                   *)

\* What a step may do to update u when the floor stays: nothing, or something
\* the next three lemmas account for.
Same(u) ==
    /\ pc'[u] = pc[u]
    /\ got'[u] = got[u]
    /\ known'[u] = known[u]
    /\ at'[u] = at[u]
    /\ check'[u] = check[u]

\* An update that does not move keeps its invariant while the floor stays and
\* nobody takes its lock away.
LEMMA Unmoved ==
    ASSUME NEW u \in Updates, UpdateInv(u), Same(u), floor' = floor,
           lock = u => lock' = u
    PROVE  UpdateInv(u)'
<1>1. Judged(u)' = Judged(u) /\ Advances(u)' = Advances(u)
  BY DEF Same, Judged, Advances
<1>2. Passed(u)' = Passed(u)
  BY DEF Same, Passed
<1>3. Raises(u)' = Raises(u)
  BY DEF Same, Raises
<1>4. Recorded(u)' = Recorded(u)
  BY <1>1 DEF Same, Recorded, Accepted
<1> QED BY <1>1, <1>2, <1>3, <1>4 DEF UpdateInv, Same

\* An update that goes to a step before the lock, or gives up, needs no more
\* than what it loaded to be past.
LEMMA Early ==
    ASSUME NEW u \in Updates, Passed(u), floor' = floor,
           known'[u] = known[u],
           pc'[u] \notin {"locking", "rereading", "writing", "done"}
    PROVE  UpdateInv(u)'
BY DEF UpdateInv, Passed, Recorded, Accepted

\* A step that leaves the floor alone keeps the invariant when the run that
\* takes it keeps its own.
LEMMA FloorStays ==
    ASSUME IInv, floor' = floor, Typed', NEW r \in Runs,
           \A o \in Updates \ {r} : Same(o) /\ (lock = o => lock' = o),
           r \in Updates => UpdateInv(r)'
    PROVE  IInv'
<1>1. HeadDigestIsOfVersion'
  BY DEF IInv, HeadDigestIsOfVersion
<1>2. ASSUME NEW u \in Updates PROVE UpdateInv(u)'
  <2>1. CASE u = r
    BY <2>1
  <2>2. CASE u # r
    BY <2>2, Unmoved DEF IInv
  <2> QED BY <2>1, <2>2
<1> QED BY <1>1, <1>2 DEF IInv

\* What every step of an update before its lock has in common.
EarlyStep(u) ==
    /\ floor' = floor
    /\ lock' = lock \/ Release(u)
    /\ known' = known
    /\ pc'[u] \notin {"locking", "rereading", "writing", "done"}
    /\ \A o \in Updates \ {u} : Same(o)

LEMMA EarlySteps ==
    ASSUME IInv, NEW u \in Updates, EarlyStep(u), Typed'
    PROVE  IInv'
<1>1. \A o \in Updates \ {u} : Same(o) /\ (lock = o => lock' = o)
  BY DEF EarlyStep, Release
<1>2. UpdateInv(u)'
  BY Early DEF IInv, UpdateInv, EarlyStep
<1> QED BY <1>1, <1>2, FloorStays DEF Runs, EarlyStep

\* The files of a release are of the releases' files.
LEMMA ServedFacts ==
    ASSUME served \in DOMAIN Publications
    PROVE  /\ Publications[served].del \in Delegations
           /\ Publications[served].bundle \in Bundles
BY DEF Releases, Delegations, Bundles

\* One more file in hand.
LEMMA FileFacts ==
    ASSUME NEW a, ArtefactsOK(a), NEW x
    PROVE  /\ x \in Delegations \cup {Absent} => ArtefactsOK([a EXCEPT !.del = x])
           /\ ArtefactsOK([a EXCEPT !.signatures = x])
           /\ x \in Bundles \cup {Absent} => ArtefactsOK([a EXCEPT !.bundle = x])
           /\ ArtefactsOK([a EXCEPT !.bundleSig = x])
<1>1. /\ a = [del |-> a.del, signatures |-> a.signatures,
              bundle |-> a.bundle, bundleSig |-> a.bundleSig]
      /\ a.del \in Delegations \cup {Absent}
      /\ a.bundle \in Bundles \cup {Absent}
  BY DEF ArtefactsOK
<1>2. [a EXCEPT !.del = x] = [del |-> x, signatures |-> a.signatures,
                              bundle |-> a.bundle, bundleSig |-> a.bundleSig]
  BY <1>1
<1>3. [a EXCEPT !.signatures = x] = [del |-> a.del, signatures |-> x,
                                     bundle |-> a.bundle, bundleSig |-> a.bundleSig]
  BY <1>1
<1>4. [a EXCEPT !.bundle = x] = [del |-> a.del, signatures |-> a.signatures,
                                 bundle |-> x, bundleSig |-> a.bundleSig]
  BY <1>1
<1>5. [a EXCEPT !.bundleSig = x] = [del |-> a.del, signatures |-> a.signatures,
                                    bundle |-> a.bundle, bundleSig |-> x]
  BY <1>1
<1>6. x \in Delegations \cup {Absent} => ArtefactsOK([a EXCEPT !.del = x])
  BY <1>1, <1>2 DEF ArtefactsOK
<1>7. ArtefactsOK([a EXCEPT !.signatures = x])
  BY <1>1, <1>3 DEF ArtefactsOK
<1>8. x \in Bundles \cup {Absent} => ArtefactsOK([a EXCEPT !.bundle = x])
  BY <1>1, <1>4 DEF ArtefactsOK
<1>9. ArtefactsOK([a EXCEPT !.bundleSig = x])
  BY <1>1, <1>5 DEF ArtefactsOK
<1> QED BY <1>6, <1>7, <1>8, <1>9

-----------------------------------------------------------------------------
(* The steps of an update up to its last file.                             *)

LEMMA LoadFloorStep ==
    ASSUME IInv, NEW u \in Updates, LoadFloor(u)
    PROVE  IInv'
<1>1. /\ floor' = floor /\ lock' = lock
      /\ known' = [known EXCEPT ![u] = floor]
      /\ pc' = [pc EXCEPT ![u] = "del"]
      /\ got' = got /\ at' = at /\ check' = check /\ cache' = cache /\ served' = served
  BY DEF LoadFloor, Goto, files, outside
<1>2. Typed'
  BY <1>1 DEF IInv, Typed, ArtefactsOK, Runs
<1>3. pc'[u] = "del" /\ known'[u] = floor
  BY <1>1 DEF IInv, Typed, Runs
<1>4. floor # NoFloor => floor.version \in Nat /\ floor.serial \in Nat
  BY DEF IInv, Typed, FloorOrNone, Floors
<1>5. UpdateInv(u)'
  BY <1>1, <1>3, <1>4 DEF UpdateInv, Passed, Recorded, Accepted
<1>6. \A o \in Updates \ {u} : Same(o) /\ (lock = o => lock' = o)
  BY <1>1 DEF IInv, Typed, Runs, Same
<1> QED BY <1>1, <1>2, <1>5, <1>6, FloorStays DEF Runs

LEMMA FetchDelStep ==
    ASSUME IInv, NEW u \in Updates, FetchDel(u)
    PROVE  IInv'
<1>1. /\ floor' = floor /\ lock' = lock /\ known' = known
      /\ pc' = [pc EXCEPT ![u] = "signatures"]
      /\ got' = [got EXCEPT ![u].del = Publications[served].del]
      /\ at' = at /\ check' = check /\ cache' = cache /\ served' = served
  BY DEF FetchDel, Fetch, Goto, files, outside
<1>2. ArtefactsOK(got'[u])
  <2>1. got'[u] = [got[u] EXCEPT !.del = Publications[served].del]
    BY <1>1 DEF IInv, Typed, Runs
  <2>2. ArtefactsOK(got[u]) /\ served \in DOMAIN Publications
    BY DEF IInv, Typed, Runs
  <2>3. ArtefactsOK([got[u] EXCEPT !.del = Publications[served].del])
    BY <2>2, ServedFacts, FileFacts
  <2> QED BY <2>1, <2>3
<1>3. \A r \in Runs \ {u} : got'[r] = got[r]
  BY <1>1 DEF IInv, Typed
<1>4. Typed'
  BY <1>1, <1>2, <1>3 DEF IInv, Typed
<1>5. \A o \in Updates \ {u} : Same(o)
  BY <1>1 DEF IInv, Typed, Runs, Same
<1>6. EarlyStep(u)
  BY <1>1, <1>5 DEF EarlyStep, IInv, Typed, Runs
<1> QED BY <1>4, <1>6, EarlySteps

LEMMA FetchSignaturesStep ==
    ASSUME IInv, NEW u \in Updates, FetchSignatures(u)
    PROVE  IInv'
<1>1. PICK signatures : Fetch(u, "signatures", "bundle", "signatures", signatures)
  BY DEF FetchSignatures
<1>2. /\ floor' = floor /\ lock' = lock /\ known' = known
      /\ pc' = [pc EXCEPT ![u] = "bundle"]
      /\ got' = [got EXCEPT ![u].signatures = signatures]
      /\ at' = at /\ check' = check /\ cache' = cache /\ served' = served
  BY <1>1 DEF FetchSignatures, Fetch, Goto, files, outside
<1>3. ArtefactsOK(got'[u])
  <2>1. got'[u] = [got[u] EXCEPT !.signatures = signatures]
    BY <1>2 DEF IInv, Typed, Runs
  <2>2. ArtefactsOK(got[u])
    BY DEF IInv, Typed, Runs
  <2>3. ArtefactsOK([got[u] EXCEPT !.signatures = signatures])
    BY <2>2, FileFacts
  <2> QED BY <2>1, <2>3
<1>4. \A r \in Runs \ {u} : got'[r] = got[r]
  BY <1>2 DEF IInv, Typed
<1>5. Typed'
  BY <1>2, <1>3, <1>4 DEF IInv, Typed
<1>6. \A o \in Updates \ {u} : Same(o)
  BY <1>2 DEF IInv, Typed, Runs, Same
<1>7. EarlyStep(u)
  BY <1>2, <1>6 DEF EarlyStep, IInv, Typed, Runs
<1> QED BY <1>5, <1>7, EarlySteps

LEMMA FetchBundleStep ==
    ASSUME IInv, NEW u \in Updates, FetchBundle(u)
    PROVE  IInv'
<1>1. /\ floor' = floor /\ lock' = lock /\ known' = known
      /\ pc' = [pc EXCEPT ![u] = "bundleSig"]
      /\ got' = [got EXCEPT ![u].bundle = Publications[served].bundle]
      /\ at' = at /\ check' = check /\ cache' = cache /\ served' = served
  BY DEF FetchBundle, Fetch, Goto, files, outside
<1>2. ArtefactsOK(got'[u])
  <2>1. got'[u] = [got[u] EXCEPT !.bundle = Publications[served].bundle]
    BY <1>1 DEF IInv, Typed, Runs
  <2>2. ArtefactsOK(got[u]) /\ served \in DOMAIN Publications
    BY DEF IInv, Typed, Runs
  <2>3. ArtefactsOK([got[u] EXCEPT !.bundle = Publications[served].bundle])
    BY <2>2, ServedFacts, FileFacts
  <2> QED BY <2>1, <2>3
<1>3. \A r \in Runs \ {u} : got'[r] = got[r]
  BY <1>1 DEF IInv, Typed
<1>4. Typed'
  BY <1>1, <1>2, <1>3 DEF IInv, Typed
<1>5. \A o \in Updates \ {u} : Same(o)
  BY <1>1 DEF IInv, Typed, Runs, Same
<1>6. EarlyStep(u)
  BY <1>1, <1>5 DEF EarlyStep, IInv, Typed, Runs
<1> QED BY <1>4, <1>6, EarlySteps

\* The verdict is reached: an update that has nothing to store is done, and
\* has then accepted nothing.
LEMMA FetchBundleSigStep ==
    ASSUME IInv, NEW u \in Updates, FetchBundleSig(u)
    PROVE  IInv'
<1> DEFINE sig == [by |-> Publications[served].signer,
                   of |-> Publications[served].bundle]
           next == IF Stores(u)' THEN "storeDel" ELSE "done"
<1>1. /\ got' = [got EXCEPT ![u].bundleSig = sig]
      /\ pc' = [pc EXCEPT ![u] = next]
      /\ \E c \in BOOLEAN : check' = [check EXCEPT ![u] = c]
      /\ \E t \in 0..MaxTime : at' = [at EXCEPT ![u] = t]
  BY DEF FetchBundleSig, ReadClock
<1>2. /\ floor' = floor /\ lock' = lock /\ known' = known
      /\ cache' = cache /\ served' = served
  BY DEF FetchBundleSig, files, outside
<1>3. ArtefactsOK(got'[u])
  <2>1. got'[u] = [got[u] EXCEPT !.bundleSig = sig]
    BY <1>1 DEF IInv, Typed, Runs
  <2>2. ArtefactsOK(got[u])
    BY DEF IInv, Typed, Runs
  <2>3. ArtefactsOK([got[u] EXCEPT !.bundleSig = sig])
    BY <2>2, FileFacts
  <2> QED BY <2>1, <2>3
<1>4. \A r \in Runs \ {u} : got'[r] = got[r]
  BY <1>1 DEF IInv, Typed
<1>5. Typed'
  BY <1>1, <1>2, <1>3, <1>4 DEF IInv, Typed
<1>6. \A o \in Updates \ {u} : Same(o) /\ (lock = o => lock' = o)
  BY <1>1, <1>2 DEF IInv, Typed, Runs, Same
<1>7. pc'[u] = IF Stores(u)' THEN "storeDel" ELSE "done"
  BY <1>1 DEF IInv, Typed, Runs
<1>8. pc'[u] = "done" => ~Accepted(u)'
  BY <1>7 DEF Stores, Accepted, UsableIndicators
<1>9. Passed(u)'
  BY <1>2 DEF IInv, UpdateInv, Passed
<1>10. UpdateInv(u)'
  BY <1>7, <1>8, <1>9 DEF UpdateInv, Recorded, Accepted
<1> QED BY <1>2, <1>5, <1>6, <1>10, FloorStays DEF Runs

-----------------------------------------------------------------------------
(* The steps that write the cache.                                         *)

LEMMA StoreDelStep ==
    ASSUME IInv, NEW u \in Updates, StoreDel(u)
    PROVE  IInv'
<1>1. /\ floor' = floor /\ lock' = lock /\ known' = known
      /\ pc' = [pc EXCEPT ![u] = "storeSignatures"]
      /\ cache' = [cache EXCEPT !.del = got[u].del]
      /\ got' = got /\ at' = at /\ check' = check /\ served' = served
  BY DEF StoreDel, Goto, locals, outside
<1>2. ArtefactsOK([cache EXCEPT !.del = got[u].del])
  <2>1. ArtefactsOK(cache) /\ got[u].del \in Delegations \cup {Absent}
    BY DEF IInv, Typed, Runs, ArtefactsOK
  <2> QED BY <2>1, FileFacts
<1>3. Typed'
  BY <1>1, <1>2 DEF IInv, Typed
<1>4. \A o \in Updates \ {u} : Same(o)
  BY <1>1 DEF IInv, Typed, Runs, Same
<1>5. EarlyStep(u)
  BY <1>1, <1>4 DEF EarlyStep, IInv, Typed, Runs
<1> QED BY <1>3, <1>5, EarlySteps

LEMMA StoreSignatureStep ==
    ASSUME IInv, NEW u \in Updates, StoreSignature(u)
    PROVE  IInv'
<1>1. /\ floor' = floor /\ lock' = lock /\ known' = known /\ pc' = pc
      /\ pc[u] = "storeSignatures"
      /\ got' = got /\ at' = at /\ check' = check /\ served' = served
  BY DEF StoreSignature, outside
<1>2. PICK signatures : cache' = [cache EXCEPT !.signatures = signatures]
  BY DEF StoreSignature
<1>3. ArtefactsOK([cache EXCEPT !.signatures = signatures])
  <2>1. ArtefactsOK(cache)
    BY DEF IInv, Typed
  <2> QED BY <2>1, FileFacts
<1>4. Typed'
  BY <1>1, <1>2, <1>3 DEF IInv, Typed
<1>5. EarlyStep(u)
  BY <1>1 DEF EarlyStep, Same
<1> QED BY <1>4, <1>5, EarlySteps

LEMMA StoreBundleSigStep ==
    ASSUME IInv, NEW u \in Updates, StoreBundleSig(u)
    PROVE  IInv'
<1>1. /\ floor' = floor /\ lock' = lock /\ known' = known
      /\ pc' = [pc EXCEPT ![u] = "storeBundle"]
      /\ cache' = [cache EXCEPT !.bundleSig = got[u].bundleSig]
      /\ got' = got /\ at' = at /\ check' = check /\ served' = served
  BY DEF StoreBundleSig, Goto, locals, outside
<1>2. ArtefactsOK([cache EXCEPT !.bundleSig = got[u].bundleSig])
  <2>1. ArtefactsOK(cache)
    BY DEF IInv, Typed
  <2> QED BY <2>1, FileFacts
<1>3. Typed'
  BY <1>1, <1>2 DEF IInv, Typed
<1>4. \A o \in Updates \ {u} : Same(o)
  BY <1>1 DEF IInv, Typed, Runs, Same
<1>5. EarlyStep(u)
  BY <1>1, <1>4 DEF EarlyStep, IInv, Typed, Runs
<1> QED BY <1>3, <1>5, EarlySteps

\* An active bundle that does not advance the floor an update loaded is on
\* record already: the floor has passed what was loaded.
LEMMA NotAdvancing ==
    ASSUME IInv, NEW u \in Updates, Judged(u) = "active", ~Advances(u)
    PROVE  /\ floor # NoFloor
           /\ floor.version >= got[u].bundle.version
           /\ floor.serial >= got[u].del.serial
<1>1. got[u].bundle.version \in Nat /\ got[u].del.serial \in Nat
  <2>1. ArtefactsOK(got[u])
    BY DEF IInv, Typed, Runs
  <2>2. got[u].del # Absent /\ got[u].bundle # Absent
    BY ActiveFacts DEF Judged
  <2> QED BY <2>1, <2>2, PublicationsAssumption DEF ArtefactsOK
<1>2. /\ known[u] # NoFloor
      /\ ~(got[u].bundle.version > known[u].version)
      /\ ~(got[u].del.serial > known[u].serial)
  BY DEF Judged, Advances, FloorAdvances
<1>3. known[u] \in Floors /\ floor \in FloorOrNone
  BY <1>2 DEF IInv, Typed, Runs, FloorOrNone
<1>4. Passed(u)
  BY DEF IInv, UpdateInv
<1>5. floor \in Floors
  BY <1>2, <1>3, <1>4 DEF Passed, FloorOrNone
<1> QED BY <1>1, <1>2, <1>3, <1>4, <1>5 DEF Passed, Floors

LEMMA StoreBundleStep ==
    ASSUME IInv, NEW u \in Updates, StoreBundle(u)
    PROVE  IInv'
<1>1. /\ floor' = floor /\ lock' = lock /\ known' = known
      /\ pc' = [pc EXCEPT ![u] = IF Advances(u) THEN "locking" ELSE "done"]
      /\ cache' = [cache EXCEPT !.bundle = got[u].bundle]
      /\ got' = got /\ at' = at /\ check' = check /\ served' = served
  BY DEF StoreBundle, Goto, locals, outside
<1>2. ArtefactsOK([cache EXCEPT !.bundle = got[u].bundle])
  <2>1. ArtefactsOK(cache) /\ got[u].bundle \in Bundles \cup {Absent}
    BY DEF IInv, Typed, Runs, ArtefactsOK
  <2> QED BY <2>1, FileFacts
<1>3. Typed'
  BY <1>1, <1>2 DEF IInv, Typed
<1>4. \A o \in Updates \ {u} : Same(o) /\ (lock = o => lock' = o)
  BY <1>1 DEF IInv, Typed, Runs, Same
<1>5. pc'[u] = IF Advances(u) THEN "locking" ELSE "done"
  BY <1>1 DEF IInv, Typed, Runs
<1>6. Judged(u)' = Judged(u) /\ Advances(u)' = Advances(u)
  BY <1>1 DEF Judged, Advances
<1>7. Passed(u)'
  BY <1>1 DEF IInv, UpdateInv, Passed
<1>8. Recorded(u)'
  <2>1. CASE Advances(u)
    BY <1>5, <2>1 DEF Recorded, Accepted
  <2>2. CASE ~Advances(u)
    <3>1. Judged(u) = "active" =>
              /\ floor # NoFloor
              /\ floor.version >= got[u].bundle.version
              /\ floor.serial >= got[u].del.serial
      BY <2>2, NotAdvancing
    <3> QED BY <1>1, <1>6, <3>1 DEF Recorded, Accepted
  <2> QED BY <2>1, <2>2
<1>9. UpdateInv(u)'
  BY <1>5, <1>6, <1>7, <1>8 DEF UpdateInv
<1> QED BY <1>1, <1>3, <1>4, <1>9, FloorStays DEF Runs

-----------------------------------------------------------------------------
(* The steps around the lock, and the write.                               *)

\* A run that gives up leaves everything but the lock as it was.
LEMMA RefuseStep ==
    ASSUME IInv, NEW u \in Updates, NEW from, Refuse(u, from)
    PROVE  IInv'
<1>1. /\ floor' = floor /\ Release(u) /\ known' = known
      /\ pc' = [pc EXCEPT ![u] = "stopped"]
      /\ cache' = cache /\ got' = got /\ at' = at /\ check' = check /\ served' = served
  BY DEF Refuse, Goto, files, locals, outside
<1>2. Typed'
  BY <1>1 DEF IInv, Typed
<1>3. \A o \in Updates \ {u} : Same(o)
  BY <1>1 DEF IInv, Typed, Runs, Same
<1>4. EarlyStep(u)
  BY <1>1, <1>3 DEF EarlyStep, IInv, Typed, Runs
<1> QED BY <1>2, <1>4, EarlySteps

LEMMA TakeLockStep ==
    ASSUME IInv, NEW u \in Updates, TakeLock(u)
    PROVE  IInv'
<1>1. /\ floor' = floor /\ known' = known
      /\ lock = NoRun /\ lock' = u
      /\ pc[u] = "locking" /\ pc' = [pc EXCEPT ![u] = "rereading"]
      /\ cache' = cache /\ got' = got /\ at' = at /\ check' = check /\ served' = served
  BY DEF TakeLock, Goto, files, locals, outside
<1>2. Typed'
  BY <1>1 DEF IInv, Typed
<1>3. \A o \in Updates \ {u} : Same(o) /\ (lock = o => lock' = o)
  BY <1>1, ProcessesAssumption DEF IInv, Typed, Runs, Same
<1>4. pc'[u] = "rereading"
  BY <1>1 DEF IInv, Typed, Runs
<1>5. Advances(u)' /\ Passed(u)'
  BY <1>1 DEF IInv, UpdateInv, Advances, Passed
<1>6. UpdateInv(u)'
  BY <1>1, <1>4, <1>5 DEF UpdateInv, Recorded, Accepted
<1> QED BY <1>1, <1>2, <1>3, <1>6, FloorStays DEF Runs

LEMMA RereadStep ==
    ASSUME IInv, NEW u \in Updates, Reread(u)
    PROVE  IInv'
<1>1. CASE Refuse(u, "rereading")
  BY <1>1, RefuseStep
<1>2. CASE Goto(u, "rereading", "writing") /\ Raises(u)
           /\ UNCHANGED <<outside, files, lock, locals>>
  <2>1. /\ floor' = floor /\ known' = known /\ lock' = lock
        /\ pc[u] = "rereading" /\ pc' = [pc EXCEPT ![u] = "writing"]
        /\ cache' = cache /\ got' = got /\ at' = at /\ check' = check /\ served' = served
    BY <1>2 DEF Goto, files, locals, outside
  <2>2. Typed'
    BY <2>1 DEF IInv, Typed
  <2>3. \A o \in Updates \ {u} : Same(o) /\ (lock = o => lock' = o)
    BY <2>1 DEF IInv, Typed, Runs, Same
  <2>4. pc'[u] = "writing"
    BY <2>1 DEF IInv, Typed, Runs
  <2>5. Advances(u)' /\ Passed(u)' /\ lock' = u
    BY <2>1 DEF IInv, UpdateInv, Advances, Passed
  <2>6. Raises(u)'
    BY <1>2, <2>1 DEF Raises
  <2>7. UpdateInv(u)'
    BY <2>4, <2>5, <2>6 DEF UpdateInv, Recorded, Accepted
  <2> QED BY <2>1, <2>2, <2>3, <2>7, FloorStays DEF Runs
<1> QED BY <1>1, <1>2 DEF Reread

\* What is written is a floor, of a bundle's version and digest, and behind
\* neither the one before it nor the bundle it is written for.
LEMMA WrittenFacts ==
    ASSUME IInv, NEW u \in Updates, WriteFloor(u)
    PROVE  /\ floor' \in Floors
           /\ \E b \in Bundles : b.version = floor'.version /\ b.digest = floor'.digest
           /\ floor # NoFloor => floor'.version >= floor.version /\ floor'.serial >= floor.serial
           /\ floor'.version >= got[u].bundle.version
           /\ floor'.serial >= got[u].del.serial
<1>1. floor' = NextFloor(got[u], known[u], at[u]) /\ pc[u] = "writing"
  BY DEF WriteFloor, Goto
<1>2. Raises(u) /\ Advances(u)
  BY <1>1 DEF IInv, UpdateInv
<1>3. /\ floor' \in Floors
      /\ got[u].bundle \in Bundles
      /\ floor'.version = got[u].bundle.version
      /\ floor'.digest = got[u].bundle.digest
      /\ floor'.serial >= got[u].del.serial
  <2>1. ArtefactsOK(got[u]) /\ known[u] \in FloorOrNone /\ at[u] \in 0..MaxTime
    BY DEF IInv, Typed, Runs
  <2>2. State(got[u], known[u], at[u]) = "active"
    BY <1>2 DEF Advances, FloorAdvances
  <2> QED BY <1>1, <2>1, <2>2, NextFloorFacts
<1>4. floor # NoFloor => floor'.version >= floor.version /\ floor'.serial >= floor.serial
  BY <1>1, <1>2 DEF Raises
<1>5. floor'.version >= got[u].bundle.version
  BY <1>3, PublicationsAssumption
<1> QED BY <1>3, <1>4, <1>5

LEMMA WriteFloorStep ==
    ASSUME IInv, NEW u \in Updates, WriteFloor(u)
    PROVE  IInv'
<1>1. /\ known' = known /\ Release(u)
      /\ pc[u] = "writing" /\ pc' = [pc EXCEPT ![u] = "done"]
      /\ cache' = cache /\ got' = got /\ at' = at /\ check' = check /\ served' = served
  BY DEF WriteFloor, Goto, locals, outside
<1>2. /\ floor' \in Floors /\ floor' # NoFloor
      /\ floor # NoFloor => floor'.version >= floor.version /\ floor'.serial >= floor.serial
  BY WrittenFacts, PublicationsAssumption
<1>3. Typed'
  BY <1>1, <1>2 DEF IInv, Typed, FloorOrNone
<1>4. HeadDigestIsOfVersion'
  BY WrittenFacts DEF HeadDigestIsOfVersion
<1>5. lock = u
  BY <1>1 DEF IInv, UpdateInv
<1>6. ASSUME NEW o \in Updates PROVE UpdateInv(o)'
  <2>1. Passed(o)'
    <3> SUFFICES ASSUME known[o] # NoFloor
                 PROVE  /\ floor' # NoFloor
                        /\ floor'.version >= known[o].version
                        /\ floor'.serial >= known[o].serial
      BY <1>1 DEF Passed
    <3>1. /\ floor # NoFloor
          /\ floor.version >= known[o].version
          /\ floor.serial >= known[o].serial
      BY DEF IInv, UpdateInv, Passed
    <3>2. known[o] \in Floors /\ floor \in Floors
      BY <3>1 DEF IInv, Typed, Runs, FloorOrNone
    <3> QED BY <1>2, <3>1, <3>2 DEF Floors
  <2>2. CASE o = u
    <3>1. pc'[u] = "done"
      BY <1>1 DEF IInv, Typed, Runs
    <3>2. Recorded(u)'
      BY <1>1, <1>2, WrittenFacts DEF Recorded
    <3> QED BY <2>1, <2>2, <3>1, <3>2 DEF UpdateInv
  <2>3. CASE o # u
    <3>1. pc'[o] = pc[o]
      BY <1>1, <2>3 DEF IInv, Typed, Runs
    <3>2. pc[o] \notin {"rereading", "writing"}
      BY <1>5, <2>3 DEF IInv, UpdateInv
    <3>3. Judged(o)' = Judged(o) /\ Advances(o)' = Advances(o)
      BY <1>1 DEF Judged, Advances
    <3>4. Recorded(o)'
      <4> SUFFICES ASSUME Accepted(o)'
                   PROVE  /\ floor' # NoFloor
                          /\ floor'.version >= got[o].bundle.version
                          /\ floor'.serial >= got[o].del.serial
        BY <1>1 DEF Recorded
      <4>1. Accepted(o)
        BY <1>1, <3>1, <3>3 DEF Accepted
      <4>2. /\ floor # NoFloor
            /\ floor.version >= got[o].bundle.version
            /\ floor.serial >= got[o].del.serial
        BY <4>1 DEF IInv, UpdateInv, Recorded
      <4>3. floor \in Floors
        BY <4>2 DEF IInv, Typed, FloorOrNone
      <4>4. got[o].bundle.version \in Nat /\ got[o].del.serial \in Nat
        <5>1. ArtefactsOK(got[o])
          BY DEF IInv, Typed, Runs
        <5>2. got[o].del # Absent /\ got[o].bundle # Absent
          BY <4>1, ActiveFacts DEF Accepted, Judged
        <5> QED BY <5>1, <5>2, PublicationsAssumption DEF ArtefactsOK
      <4> QED BY <1>2, <4>2, <4>3, <4>4 DEF Floors
    <3> QED BY <2>1, <3>1, <3>2, <3>3, <3>4 DEF UpdateInv, IInv
  <2> QED BY <2>2, <2>3
<1> QED BY <1>3, <1>4, <1>6 DEF IInv

-----------------------------------------------------------------------------
(* The steps of the readers, of the origin, and none at all.               *)

\* A step of a reader: it fills its own hands, and may look at the clock.
ReaderStep(v) ==
    /\ floor' = floor /\ lock' = lock /\ cache' = cache /\ check' = check /\ served' = served
    /\ \E step : pc' = [pc EXCEPT ![v] = step]
    /\ \A o \in Updates : Same(o)
    /\ Typed'

LEMMA ReaderSteps ==
    ASSUME IInv, NEW v \in Versions, ReaderStep(v)
    PROVE  IInv'
<1>1. v \in Runs /\ v \notin Updates
  BY ProcessesAssumption DEF Runs
<1> QED BY <1>1, FloorStays DEF ReaderStep

LEMMA VersionStep ==
    ASSUME IInv, NEW v \in Versions, Version(v)
    PROVE  IInv'
<1>1. v \in Runs /\ v \notin Updates
  BY ProcessesAssumption DEF Runs
<1>2. ArtefactsOK(cache) /\ ArtefactsOK(got[v])
  BY <1>1 DEF IInv, Typed
<1>3. CASE ReadFloor(v)
  <2>1. /\ floor' = floor /\ lock' = lock /\ cache' = cache /\ check' = check
        /\ served' = served /\ got' = got
        /\ \E step : pc' = [pc EXCEPT ![v] = step]
        /\ \E f \in {floor, NoFloor} : known' = [known EXCEPT ![v] = f]
        /\ \E t \in 0..MaxTime : at' = [at EXCEPT ![v] = t]
    BY <1>3 DEF ReadFloor, ReadClock, Goto, files, outside
  <2>2. Typed'
    <3>1. PICK f \in {floor, NoFloor}, t \in 0..MaxTime :
              known' = [known EXCEPT ![v] = f] /\ at' = [at EXCEPT ![v] = t]
      BY <2>1
    <3>2. f \in FloorOrNone
      BY DEF IInv, Typed, FloorOrNone
    <3> QED BY <2>1, <3>1, <3>2 DEF IInv, Typed
  <2>3. \A o \in Updates : Same(o)
    BY <1>1, <2>1 DEF IInv, Typed, Runs, Same
  <2> QED BY <2>1, <2>2, <2>3, ReaderSteps DEF ReaderStep
<1>4. ASSUME NEW a, ArtefactsOK(a), got' = [got EXCEPT ![v] = a],
             floor' = floor, lock' = lock, cache' = cache, check' = check, served' = served,
             known' = known, at' = at,
             \E step : pc' = [pc EXCEPT ![v] = step]
      PROVE  IInv'
  <2>1. Typed'
    BY <1>4 DEF IInv, Typed
  <2>2. \A o \in Updates : Same(o)
    BY <1>1, <1>4 DEF IInv, Typed, Runs, Same
  <2> QED BY <1>4, <2>1, <2>2, ReaderSteps DEF ReaderStep
<1>5. CASE ReadDel(v)
  <2>1. ArtefactsOK([got[v] EXCEPT !.del = cache.del])
    <3>1. cache.del \in Delegations \cup {Absent}
      BY <1>2 DEF ArtefactsOK
    <3> QED BY <1>2, <3>1, FileFacts
  <2>2. got' = [got EXCEPT ![v] = [got[v] EXCEPT !.del = cache.del]]
    BY <1>5 DEF ReadDel, ReadFile
  <2> QED BY <1>4, <1>5, <2>1, <2>2 DEF ReadDel, ReadFile, Goto, files, outside
<1>6. CASE ReadBundle(v)
  <2>1. ArtefactsOK([got[v] EXCEPT !.bundle = cache.bundle])
    <3>1. cache.bundle \in Bundles \cup {Absent}
      BY <1>2 DEF ArtefactsOK
    <3> QED BY <1>2, <3>1, FileFacts
  <2>2. got' = [got EXCEPT ![v] = [got[v] EXCEPT !.bundle = cache.bundle]]
    BY <1>6 DEF ReadBundle, ReadFile
  <2> QED BY <1>4, <1>6, <2>1, <2>2 DEF ReadBundle, ReadFile, Goto, files, outside
<1>7. CASE ReadBundleSig(v)
  <2>1. ArtefactsOK([got[v] EXCEPT !.bundleSig = cache.bundleSig])
    BY <1>2, FileFacts
  <2>2. got' = [got EXCEPT ![v] = [got[v] EXCEPT !.bundleSig = cache.bundleSig]]
    BY <1>7 DEF ReadBundleSig, ReadFile
  <2> QED BY <1>4, <1>7, <2>1, <2>2 DEF ReadBundleSig, ReadFile, Goto, files, outside
<1>8. CASE ReadSignatures(v)
  <2>1. ArtefactsOK([got[v] EXCEPT !.signatures = SignaturesPresent])
    BY <1>2, FileFacts
  <2>2. got' = [got EXCEPT ![v] = [got[v] EXCEPT !.signatures = SignaturesPresent]]
    BY <1>8 DEF ReadSignatures
  <2> QED BY <1>4, <1>8, <2>1, <2>2 DEF ReadSignatures, Goto, files, outside
<1> QED BY <1>3, <1>5, <1>6, <1>7, <1>8 DEF Version

\* The origin, and a step in which nothing happens.
LEMMA OutsideStep ==
    ASSUME IInv, Serve \/ UNCHANGED vars
    PROVE  IInv'
<1>1. /\ floor' = floor /\ lock' = lock /\ cache' = cache /\ check' = check /\ pc' = pc
      /\ got' = got /\ known' = known /\ at' = at /\ served' \in DOMAIN Publications
  BY DEF Serve, IInv, Typed, vars, files, locals, outside
<1>2. Typed'
  BY <1>1 DEF IInv, Typed
<1>3. HeadDigestIsOfVersion'
  BY <1>1 DEF IInv, HeadDigestIsOfVersion
<1>4. ASSUME NEW u \in Updates PROVE UpdateInv(u)'
  BY <1>1, Unmoved DEF IInv, Same
<1> QED BY <1>2, <1>3, <1>4 DEF IInv

-----------------------------------------------------------------------------
(* The theorems.                                                           *)

\* Every step preserves the inductive invariant.
THEOREM InductiveStep == IInv /\ [Next]_vars => IInv'
<1> SUFFICES ASSUME IInv, [Next]_vars PROVE IInv'
  OBVIOUS
<1>1. ASSUME NEW u \in Updates, LoadFloor(u) PROVE IInv'
  BY <1>1, LoadFloorStep
<1>2. ASSUME NEW u \in Updates, Update(u) PROVE IInv'
  <2>1. CASE FetchDel(u)
    BY <2>1, FetchDelStep
  <2>2. CASE FetchSignatures(u)
    BY <2>2, FetchSignaturesStep
  <2>3. CASE FetchBundle(u)
    BY <2>3, FetchBundleStep
  <2>4. CASE FetchBundleSig(u)
    BY <2>4, FetchBundleSigStep
  <2>5. CASE StoreDel(u)
    BY <2>5, StoreDelStep
  <2>6. CASE StoreSignature(u)
    BY <2>6, StoreSignatureStep
  <2>7. CASE StoreBundleSig(u)
    BY <2>7, StoreBundleSigStep
  <2>8. CASE StoreBundle(u)
    BY <2>8, StoreBundleStep
  <2>9. CASE TakeLock(u)
    BY <2>9, TakeLockStep
  <2>10. CASE Busy(u)
    BY <2>10, RefuseStep DEF Busy
  <2>11. CASE Reread(u)
    BY <2>11, RereadStep
  <2>12. CASE WriteFloor(u)
    BY <2>12, WriteFloorStep
  <2> QED BY <1>2, <2>1, <2>2, <2>3, <2>4, <2>5, <2>6, <2>7, <2>8, <2>9,
             <2>10, <2>11, <2>12 DEF Update
<1>3. ASSUME NEW u \in Updates, Abort(u) PROVE IInv'
  BY <1>3, RefuseStep DEF Abort
<1>4. ASSUME NEW v \in Versions, Version(v) PROVE IInv'
  BY <1>4, VersionStep
<1>5. CASE Serve \/ UNCHANGED vars
  BY <1>5, OutsideStep
<1> QED BY <1>1, <1>2, <1>3, <1>4, <1>5 DEF Next

THEOREM Invariance == Spec => []IInv
BY InitInv, InductiveStep, PTL DEF Spec

\* The digest in the floor is always the one of a published bundle of the
\* floor's version.
THEOREM HeadDigestInvariant == Spec => []HeadDigestIsOfVersion
<1>1. IInv => HeadDigestIsOfVersion
  BY DEF IInv
<1> QED BY <1>1, Invariance, PTL

\* An update that exits 0 has left a record of what it accepted, which no
\* later update takes back.
THEOREM RecordedInvariant == Spec => []ExitZeroIsRecorded
<1>1. IInv => ExitZeroIsRecorded
  BY DEF IInv, UpdateInv, Recorded, ExitZeroIsRecorded
<1> QED BY <1>1, Invariance, PTL

\* A publisher that never gives one version to two bundles.
OneDigestPerVersion ==
    \A b, c \in Bundles : b.version = c.version => b.digest = c.digest

LEMMA FloorStep ==
    ASSUME OneDigestPerVersion, IInv, [Next]_vars
    PROVE  [FloorLE(floor, floor')]_floor
<1>1. ASSUME NEW u \in Updates, WriteFloor(u) PROVE FloorLE(floor, floor')
  <2>1. floor' # NoFloor
    BY <1>1, WrittenFacts, PublicationsAssumption
  <2>2. floor # NoFloor /\ floor'.version = floor.version => floor'.digest = floor.digest
    BY <1>1, WrittenFacts DEF IInv, HeadDigestIsOfVersion, OneDigestPerVersion
  <2> QED BY <1>1, <2>1, <2>2, WrittenFacts DEF FloorLE
<1>2. ASSUME NEW u \in Updates, LoadFloor(u) \/ Update(u) \/ Abort(u), ~WriteFloor(u)
      PROVE  floor' = floor
  BY <1>2 DEF LoadFloor, Update, Abort, FetchDel, FetchSignatures, FetchBundle, Fetch,
              FetchBundleSig, StoreDel, StoreSignature, StoreBundleSig, StoreBundle,
              TakeLock, Busy, Reread, Refuse, files
<1>3. ASSUME NEW v \in Versions, Version(v) PROVE floor' = floor
  BY <1>3 DEF Version, ReadDel, ReadBundle, ReadBundleSig, ReadFile, ReadSignatures,
              ReadFloor, files
<1>4. CASE Serve \/ UNCHANGED vars
  BY <1>4 DEF Serve, vars, files
<1> QED BY <1>1, <1>2, <1>3, <1>4 DEF Next

\* However updates race, the floor only rises; and if no two bundles share a
\* version, the digest of a version never changes under it.
THEOREM FloorRises ==
    ASSUME OneDigestPerVersion
    PROVE  Spec => FloorOnlyRises
<1>1. IInv /\ [Next]_vars => [FloorLE(floor, floor')]_floor
  BY FloorStep
<1> QED BY <1>1, Invariance, PTL DEF Spec, FloorOnlyRises

-----------------------------------------------------------------------------
(***************************************************************************)
(* No rollback, for any number of updates and readers: once an update has  *)
(* accepted a bundle, no run that begins later uses an older one.          *)
(*                                                                         *)
(* The floor carries the argument from one run to the next.  An update     *)
(* that accepted a bundle has left a floor that covers it (Recorded), so   *)
(* whoever loads the floor after it has ended loads one that covers it,    *)
(* and judges what it fetched or read against that.  A reader loads the    *)
(* floor last, an update first.  A reader that fails to load it judges     *)
(* without, and nothing is claimed of it.                                  *)
(***************************************************************************)

\* A floor that a bundle accepted by update o is not ahead of.
Covers(f, o) ==
    /\ f # NoFloor
    /\ f.version >= got[o].bundle.version
    /\ f.serial >= got[o].del.serial

\* The floor in a run's hands is the one it judges with.
Loaded(r) == r \in Updates \/ pc[r] = "done"

RunInv(r) ==
    /\ before[r] \in SUBSET Updates
    /\ pc[r] = "idle" => before[r] = {}
    /\ \A o \in before[r] :
           /\ pc[o] = "done"
           /\ Loaded(r) /\ Accepted(o) => Covers(known[r], o)

RInv ==
    /\ DOMAIN before = Runs
    /\ \A r \in Runs : RunInv(r)

-----------------------------------------------------------------------------
(* What one step does to the history of a run.                             *)

DoneUpdates == {o \in Updates : pc[o] = "done"}

\* It has none of it: the run's own step, or another's.
Keeps(r) ==
    /\ before'[r] = before[r]
    /\ known'[r] = known[r]
    /\ pc'[r] = "idle" => pc[r] = "idle"
    /\ r \notin Updates /\ pc'[r] = "done" => pc[r] = "done"

\* It loads the floor, as its first step or its last.
Loads(r) ==
    /\ before'[r] \in {before[r], DoneUpdates}
    /\ known'[r] = floor
    /\ pc'[r] # "idle"

\* It is a reader that begins, and has yet to load the floor, or one that could
\* not load it.
Without(r) ==
    /\ r \notin Updates
    /\ before'[r] \in {before[r], DoneUpdates}
    /\ pc'[r] \notin {"idle", "done"}

History ==
    /\ DOMAIN before' = Runs
    /\ \A r \in Runs : Keeps(r) \/ Loads(r) \/ Without(r)
    /\ \A o \in Updates : pc[o] = "done" => Same(o)

LEMMA LoadFloorHistory ==
    ASSUME IInv, RInv, NEW u \in Updates, LoadFloor(u)
    PROVE  History
<1>1. /\ pc[u] = "idle" /\ pc' = [pc EXCEPT ![u] = "del"]
      /\ known' = [known EXCEPT ![u] = floor]
      /\ before' = [before EXCEPT ![u] = DoneUpdates]
      /\ got' = got /\ at' = at /\ check' = check
  BY DEF LoadFloor, Goto, Begin, DoneUpdates
<1>2. u \in Runs /\ DOMAIN pc = Runs /\ DOMAIN known = Runs /\ DOMAIN before = Runs
  BY DEF IInv, Typed, RInv, Runs
<1>3. \A r \in Runs : Keeps(r) \/ Loads(r)
  BY <1>1, <1>2 DEF Keeps, Loads
<1>4. \A o \in Updates : pc[o] = "done" => Same(o)
  BY <1>1, <1>2 DEF Same, Runs
<1> QED BY <1>1, <1>2, <1>3, <1>4 DEF History

\* A step that moves one update on and touches no history of any run.
LEMMA UpdateKeeps ==
    ASSUME IInv, RInv, NEW u \in Updates, NEW next, next # "idle",
           pc[u] # "done", pc' = [pc EXCEPT ![u] = next],
           known' = known, before' = before,
           \A o \in Updates \ {u} : Same(o)
    PROVE  History
<1>1. u \in Runs /\ DOMAIN pc = Runs /\ DOMAIN before = Runs
  BY DEF IInv, Typed, RInv, Runs
<1>2. \A r \in Runs : Keeps(r)
  BY <1>1 DEF Keeps
<1>3. \A o \in Updates : pc[o] = "done" => Same(o)
  OBVIOUS
<1> QED BY <1>1, <1>2, <1>3 DEF History

\* The steps of an update after the first, up to its last file.
LEMMA FetchHistory ==
    ASSUME IInv, RInv, NEW u \in Updates,
           FetchDel(u) \/ FetchSignatures(u) \/ FetchBundle(u) \/ FetchBundleSig(u)
    PROVE  History
<1> USE DEF Goto
<1>1. u \in Runs /\ DOMAIN pc = Runs /\ DOMAIN got = Runs /\ DOMAIN check = Runs
      /\ DOMAIN at = Runs
  BY DEF IInv, Typed, Runs
<1>2. CASE FetchDel(u)
  <2>1. pc[u] = "del" /\ pc' = [pc EXCEPT ![u] = "signatures"]
        /\ known' = known /\ before' = before
    BY <1>2 DEF FetchDel, Fetch
  <2>2. \A o \in Updates \ {u} : Same(o)
    BY <1>1, <1>2 DEF FetchDel, Fetch, Same, Runs
  <2> QED BY <2>1, <2>2, UpdateKeeps
<1>3. CASE FetchSignatures(u)
  <2>1. PICK signatures : Fetch(u, "signatures", "bundle", "signatures", signatures)
    BY <1>3 DEF FetchSignatures
  <2>2. pc[u] = "signatures" /\ pc' = [pc EXCEPT ![u] = "bundle"]
        /\ known' = known /\ before' = before /\ at' = at /\ check' = check
    BY <1>3, <2>1 DEF FetchSignatures, Fetch
  <2>3. \A o \in Updates \ {u} : Same(o)
    BY <1>1, <2>1, <2>2 DEF Fetch, Same, Runs
  <2> QED BY <2>2, <2>3, UpdateKeeps
<1>4. CASE FetchBundle(u)
  <2>1. pc[u] = "bundle" /\ pc' = [pc EXCEPT ![u] = "bundleSig"]
        /\ known' = known /\ before' = before
    BY <1>4 DEF FetchBundle, Fetch
  <2>2. \A o \in Updates \ {u} : Same(o)
    BY <1>1, <1>4 DEF FetchBundle, Fetch, Same, Runs
  <2> QED BY <2>1, <2>2, UpdateKeeps
<1>5. CASE FetchBundleSig(u)
  <2> DEFINE next == IF Stores(u)' THEN "storeDel" ELSE "done"
  <2>1. pc[u] = "bundleSig" /\ pc' = [pc EXCEPT ![u] = next]
        /\ known' = known /\ before' = before
        /\ \E c \in BOOLEAN : check' = [check EXCEPT ![u] = c]
        /\ \E t \in 0..MaxTime : at' = [at EXCEPT ![u] = t]
    BY <1>5 DEF FetchBundleSig, ReadClock
  <2>2. \E sig : got' = [got EXCEPT ![u].bundleSig = sig]
    BY <1>5 DEF FetchBundleSig
  <2>3. \A o \in Updates \ {u} : Same(o)
    BY <1>1, <2>1, <2>2 DEF Same, Runs
  <2>4. next # "idle"
    OBVIOUS
  <2> HIDE DEF next
  <2> QED BY <2>1, <2>3, <2>4, UpdateKeeps
<1> QED BY <1>2, <1>3, <1>4, <1>5

\* The steps of an update that write, and the one with which it gives up.
LEMMA WriteHistory ==
    ASSUME IInv, RInv, NEW u \in Updates,
           \/ StoreDel(u) \/ StoreSignature(u) \/ StoreBundleSig(u) \/ StoreBundle(u)
           \/ TakeLock(u) \/ Reread(u) \/ WriteFloor(u)
           \/ Busy(u) \/ Abort(u)
    PROVE  History
<1>1. u \in Runs /\ DOMAIN pc = Runs
  BY DEF IInv, Typed, Runs
<1>2. known' = known /\ before' = before /\ got' = got /\ at' = at /\ check' = check
  BY DEF StoreDel, StoreSignature, StoreBundleSig, StoreBundle, TakeLock, Reread,
         WriteFloor, Busy, Abort, Refuse, locals
<1>3. ASSUME NEW next, next # "idle", pc[u] # "done", pc' = [pc EXCEPT ![u] = next]
      PROVE  History
  <2>1. \A o \in Updates \ {u} : Same(o)
    BY <1>1, <1>2, <1>3 DEF Same, Runs
  <2> QED BY <1>2, <1>3, <2>1, UpdateKeeps
<1>4. CASE StoreSignature(u)
  <2>1. pc' = pc
    BY <1>4 DEF StoreSignature
  <2>2. \A r \in Runs : Keeps(r)
    BY <1>2, <2>1 DEF Keeps
  <2>3. \A o \in Updates : Same(o)
    BY <1>2, <2>1 DEF Same
  <2> QED BY <1>2, <2>2, <2>3 DEF History, RInv
<1>5. CASE StoreDel(u)
  BY <1>3, <1>5 DEF StoreDel, Goto
<1>6. CASE StoreBundleSig(u)
  BY <1>3, <1>6 DEF StoreBundleSig, Goto
<1>7. CASE StoreBundle(u)
  <2> DEFINE next == IF Advances(u) THEN "locking" ELSE "done"
  <2>1. pc[u] = "storeBundle" /\ pc' = [pc EXCEPT ![u] = next]
    BY <1>7 DEF StoreBundle, Goto
  <2>2. next # "idle"
    OBVIOUS
  <2> HIDE DEF next
  <2> QED BY <1>3, <2>1, <2>2
<1>8. CASE TakeLock(u)
  BY <1>3, <1>8 DEF TakeLock, Goto
<1>9. CASE Reread(u)
  BY <1>3, <1>9 DEF Reread, Refuse, Goto
<1>10. CASE WriteFloor(u)
  BY <1>3, <1>10 DEF WriteFloor, Goto
<1>11. CASE Busy(u) \/ Abort(u)
  BY <1>3, <1>11 DEF Busy, Abort, Refuse, Goto
<1> QED BY <1>4, <1>5, <1>6, <1>7, <1>8, <1>9, <1>10, <1>11

\* A reader's steps: the first starts it, the last loads the floor or fails to.
LEMMA VersionHistory ==
    ASSUME IInv, RInv, NEW v \in Versions, Version(v)
    PROVE  History
<1>1. v \in Runs /\ v \notin Updates /\ DOMAIN pc = Runs /\ DOMAIN known = Runs
      /\ DOMAIN before = Runs /\ DOMAIN got = Runs /\ DOMAIN at = Runs
  BY ProcessesAssumption DEF IInv, Typed, RInv, Runs
<1>2. \E step : pc' = [pc EXCEPT ![v] = step]
  BY DEF Version, ReadDel, ReadBundle, ReadBundleSig, ReadFile, ReadSignatures, ReadFloor, Goto
<1>3. check' = check
  BY DEF Version, ReadDel, ReadBundle, ReadBundleSig, ReadFile, ReadSignatures, ReadFloor
<1>4. \A o \in Updates : got'[o] = got[o]
  BY <1>1 DEF Version, ReadDel, ReadBundle, ReadBundleSig, ReadFile, ReadSignatures, ReadFloor, Runs
<1>5. \A o \in Updates : at'[o] = at[o]
  BY <1>1 DEF Version, ReadDel, ReadBundle, ReadBundleSig, ReadFile, ReadSignatures, ReadFloor,
              ReadClock, Runs
<1>6. /\ DOMAIN before' = Runs
      /\ \A r \in Runs \ {v} : /\ known'[r] = known[r]
                               /\ before'[r] = before[r]
                               /\ pc'[r] = pc[r]
  BY <1>1 DEF Version, ReadDel, ReadBundle, ReadBundleSig, ReadFile, ReadSignatures, ReadFloor,
              Goto, Begin
<1>7. \A o \in Updates : Same(o)
  BY <1>1, <1>3, <1>4, <1>5, <1>6 DEF Same, Runs
<1>8. Keeps(v) \/ Loads(v) \/ Without(v)
  <2>1. CASE ReadDel(v)
    BY <1>1, <2>1 DEF ReadDel, ReadFile, Goto, Begin, Without, DoneUpdates
  <2>2. CASE ReadBundle(v)
    BY <1>1, <2>2 DEF ReadBundle, ReadFile, Goto, Keeps
  <2>3. CASE ReadBundleSig(v)
    BY <1>1, <2>3 DEF ReadBundleSig, ReadFile, Goto, Keeps
  <2>4. CASE ReadSignatures(v)
    BY <1>1, <2>4 DEF ReadSignatures, Goto, Keeps
  <2>5. CASE ReadFloor(v)
    BY <1>1, <2>5 DEF ReadFloor, Goto, Loads, Without
  <2> QED BY <2>1, <2>2, <2>3, <2>4, <2>5 DEF Version
<1>9. ASSUME NEW r \in Runs \ {v} PROVE Keeps(r)
  <2>1. known'[r] = known[r] /\ before'[r] = before[r] /\ pc'[r] = pc[r]
    BY <1>6
  <2> QED BY <2>1 DEF Keeps
<1> QED BY <1>6, <1>7, <1>8, <1>9 DEF History

LEMMA StepHistory ==
    ASSUME IInv, RInv, [Next]_vars
    PROVE  History
<1>1. ASSUME NEW u \in Updates, LoadFloor(u) PROVE History
  BY <1>1, LoadFloorHistory
<1>2. ASSUME NEW u \in Updates, Update(u) PROVE History
  BY <1>2, FetchHistory, WriteHistory DEF Update
<1>3. ASSUME NEW u \in Updates, Abort(u) PROVE History
  BY <1>3, WriteHistory
<1>4. ASSUME NEW v \in Versions, Version(v) PROVE History
  BY <1>4, VersionHistory
<1>5. CASE Serve \/ UNCHANGED vars
  <2>1. /\ pc' = pc /\ got' = got /\ known' = known /\ at' = at /\ check' = check
        /\ before' = before
    BY <1>5 DEF Serve, vars, locals
  <2> QED BY <2>1 DEF History, Keeps, Same, RInv
<1> QED BY <1>1, <1>2, <1>3, <1>4, <1>5 DEF Next

-----------------------------------------------------------------------------
(* The invariant and the theorem.                                          *)

\* An update that has ended goes on having accepted what it has.
LEMMA AcceptedStays ==
    ASSUME NEW o \in Updates, Same(o)
    PROVE  Accepted(o)' <=> Accepted(o)
<1>1. Judged(o)' = Judged(o)
  BY DEF Same, Judged
<1> QED BY <1>1 DEF Same, Accepted

\* The floor covers whatever has been accepted.
LEMMA FloorCovers ==
    ASSUME IInv, NEW o \in Updates, Accepted(o)
    PROVE  Covers(floor, o)
BY DEF IInv, UpdateInv, Recorded, Covers

LEMMA RunStep ==
    ASSUME IInv, RInv, History, NEW r \in Runs
    PROVE  RunInv(r)'
<1>1. RunInv(r)
  BY DEF RInv
<1>2. \A o \in before'[r] : o \in Updates /\ pc[o] = "done"
  BY <1>1 DEF History, Keeps, Loads, Without, DoneUpdates, RunInv
<1>3. \A o \in before'[r] : Same(o) /\ pc'[o] = "done"
  BY <1>2 DEF History, Same
<1>4. pc'[r] = "idle" => before'[r] = {}
  BY <1>1 DEF History, Keeps, Loads, Without, RunInv
<1>5. ASSUME NEW o \in before'[r], Loaded(r)', Accepted(o)'
      PROVE  Covers(known[r], o)'
  <2>1. Accepted(o) /\ got'[o] = got[o]
    BY <1>2, <1>3, <1>5, AcceptedStays DEF Same
  <2>2. Covers(known'[r], o)
    <3>1. CASE Keeps(r)
      <4>1. o \in before[r] /\ Loaded(r) /\ known'[r] = known[r]
        BY <1>5, <3>1 DEF Keeps, Loaded
      <4> QED BY <1>1, <2>1, <4>1 DEF RunInv
    <3>2. CASE Loads(r)
      BY <1>2, <2>1, <3>2, FloorCovers DEF Loads
    <3>3. CASE Without(r)
      BY <1>5, <3>3 DEF Without, Loaded
    <3> QED BY <3>1, <3>2, <3>3 DEF History
  <2> QED BY <2>1, <2>2 DEF Covers
<1> QED BY <1>2, <1>3, <1>4, <1>5 DEF RunInv

THEOREM HistoryInvariant == Spec => []RInv
<1>1. Init => RInv
  <2> SUFFICES ASSUME Init PROVE RInv
    OBVIOUS
  <2> QED BY DEF Init, RInv, RunInv
<1>2. IInv /\ RInv /\ [Next]_vars => RInv'
  <2> SUFFICES ASSUME IInv, RInv, [Next]_vars PROVE RInv'
    OBVIOUS
  <2>1. History
    BY StepHistory
  <2>2. \A r \in Runs : RunInv(r)'
    BY <2>1, RunStep
  <2> QED BY <2>1, <2>2 DEF RInv, History
<1> QED BY <1>1, <1>2, Invariance, PTL DEF Spec

\* Once an update has accepted a bundle, no update that begins later, and no
\* `version` that begins later and can read the floor, uses an older one or a
\* superseded delegation, fresh from the origin or from the cache.
THEOREM NoRollbackInvariant == Spec => []NoRollback
<1>1. IInv /\ RInv => NoRollback
  <2> SUFFICES ASSUME IInv, RInv, NEW r \in Runs, pc[r] = "done",
                      UsableIndicators(Judged(r)),
                      NEW o \in before[r], Accepted(o)
               PROVE  /\ got[r].bundle.version >= got[o].bundle.version
                      /\ got[r].del.serial >= got[o].del.serial
    BY DEF NoRollback
  <2>1. o \in Updates /\ Covers(known[r], o)
    BY DEF RInv, RunInv, Loaded
  <2>2. /\ got[r].del # Absent /\ got[r].bundle # Absent
        /\ SerialAllowed(got[r].del, known[r])
        /\ VersionAllowed(got[r].bundle, known[r])
    BY DEF Judged, UsableIndicators, State, Delegates, BundleAllowed
  <2>3. got[o].del # Absent /\ got[o].bundle # Absent
    BY ActiveFacts DEF Accepted, Judged
  <2>4. \A q \in {r, o} : /\ got[q].bundle.version \in Nat
                          /\ got[q].del.serial \in Nat
    <3>1. ArtefactsOK(got[r]) /\ ArtefactsOK(got[o])
      BY <2>1 DEF IInv, Typed, Runs
    <3> QED BY <2>2, <2>3, <3>1, PublicationsAssumption DEF ArtefactsOK
  <2>5. known[r] \in Floors
    BY <2>1 DEF IInv, Typed, Covers, FloorOrNone
  <2>6. got[r].del.serial >= got[o].del.serial
    BY <2>1, <2>2, <2>4, <2>5 DEF Covers, SerialAllowed, Floors
  <2>7. got[r].bundle.version >= got[o].bundle.version
    BY <2>1, <2>2, <2>4, <2>5 DEF Covers, VersionAllowed, Floors
  <2> QED BY <2>6, <2>7
<1> QED BY <1>1, Invariance, HistoryInvariant, PTL
=============================================================================
