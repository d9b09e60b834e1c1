# Specifications of aurvet

TLA+ specifications of [aurvet](../src/README.md), the scanner of AUR packages on
an Arch Linux system, with TLC configurations that check them on small instances
and TLAPS proofs of what matters most for every instance. The specifications are
translated from the Go code; where a comment or a document of the repository
promises something the code does not do, section 6 says so and how to see it.

1. [The system](#1-the-system)
2. [The modules](#2-the-modules)
3. [The runs](#3-the-runs)
4. [Fairness](#4-fairness)
5. [What is proved](#5-what-is-proved)
6. [Disagreements between code and text](#6-disagreements-between-code-and-text)
7. [What is not modelled](#7-what-is-not-modelled)
8. [What could come next](#8-what-could-come-next)

To repeat the work: `tlc -config X.cfg M` for the runs (the module of a
configuration is the one whose name its own begins with), `tlapm M.tla` for
the modules whose names end in `Proofs`.

## 1. The system

aurvet is a command line program. Each invocation is one process; what several
invocations share are files, guarded by at most one advisory lock and by
renames. Concurrency is therefore of three kinds: processes over files (a timer,
a pacman hook and a user run it at the same time), the machine around it
(pacman transactions, editors, AUR helpers, the clock, the bundle origin, the
AUR), and goroutines inside a scan.

### The components

| Component | State it keeps | Operations | Hard behaviour | What makes it correct | Modelled |
| --- | --- | --- | --- | --- | --- |
| Trust chain, `internal/chain` | `chain.log`, `payloads/`, `.lock`, `replication.json` | `Append`, `PutPayload`, `Verify`, `PutReplication`, reports | two processes append; a kill between payload, lock and rename; clock set back; the file edited or restored | the file always verifies and only grows; a record is never lost; each edit is named; an anchor is true | yes |
| Advisory lock, `internal/fsx/lock.go` | the flock of a file | `Lock` with a deadline, release | holder killed or hanging | exclusive; no wait is unbounded | yes |
| Chain commands, `cmd/aurvet/baseline.go` | none | `init`, `append`, `pushed`, `verify`, `status`, `diff` | checks made outside the lock; pacman's `db.lck`; chain and anchor read at different times | the first entry is init's; a clean exit means a whole, pushed chain | partly |
| Baselines and drift, `internal/baseline` | manifest, keys | `Bootstrap`, `BuildManifest`, `Drift`, signing | a scan that straddles a transaction; coverage tiers; a host that changes under the comparison | every difference is named or a gap; ordinary use is quiet | partly |
| Transaction log, `internal/pacmanlog` | none (pacman's log) | `Read`, coverage, corroboration | rotation, truncation, lines of another root, files that cannot be read | cutting the log gains nothing | yes |
| Indicator bundles, `internal/bundle` | `bundle-floor.json`, the cache directory | `Verify`, `Cache.Store/Load`, `FloorStore.Save/Load`, online key windows | two updates; a store that stops half way; an origin that moves between requests; expiry, rotation, rollback | the floor only rises; no later update, and no reader that has the floor, uses an older bundle | yes |
| Update commands, `cmd/aurvet/update.go` | none | `update [--check]`, `version` | the floor read without the lock and decided on | exit 0 is on record | yes |
| Dependency closure, `internal/gate/closure.go` | nodes, names, frontier of one walk | `ReviewClosure`: expand, ask, place | cycles, limits, a lookup that fails in part, names with several meanings | a closure without a gap is whole; the walk ends | yes |
| Approvals, `internal/gate/approve.go` | one file per pkgbase, holding the approved digest | `Lookup`, `Approve`, `Revoke` | two writers; damaged files; a directory that is not private | only what was shown counts as approved | yes |
| VCS delta, `internal/gate/vcsdelta.go` | none (the commit of a snapshot) | commit range since the anchor | history rewritten; the clone fetched meanwhile | a range is complete or a gap | yes |
| Install and review, `cmd/aurvet/install.go`, `review.go` | a staging directory | stage, review, prompt, approve, snapshot, verify again, hand over | the stage changes while it is read | what is handed over is what was reviewed | yes |
| Scan run, `cmd/aurvet/main.go` | one report | stages, gaps, triage, exit code | a stage that fails; a drop of privileges that fails | a shortfall always reaches the exit code | partly |
| Reports, `internal/report` | report files by time | `Save`, `LoadPrevious`, `Diff`, exit code | two scans at a time | compared with the run before | yes |
| Collection, `internal/collect` | buffers, counters and evidence of a scan | buffer the database, walk, sweep, hash pool | a subject abandoned after its deadline answers; files change while read; ceilings | one record or one gap for a subject; what passes was there | yes |
| Containment, `internal/safe` | goroutines past their deadline | `Run`, `RunTimeout` | a hang, a panic | the scan ends | yes |
| Staged privilege, `internal/privdrop`, `privilege.go` | capabilities | drop per stage | a drop that fails after the scan | it reaches the exit code | partly |
| Adjudication, `internal/adjudicate` | one signed file and its lock | record, revoke, apply | a rewrite under the lock, readers without it; a kill between signature and document; epochs, expiry, pins | a judgement stops suppressing when its ground is gone | yes |
| Triage, `internal/triage` | one unsigned file and its lock | add, remove, apply | the same with one file | what is hidden was answered | partly |
| Snapshots, `internal/snapshot` | records by time | `Capture`, `Save`, `latest` | two captures at a time; a helper that cleans its cache | exit 0 is a whole record; the newest is the one that counts | yes |
| Git object reader, `internal/vcs` | none | refs, loose objects, packs, deltas, bounded walk | a repository that is repacked, broken or hostile in content | what it lists is the history | yes |
| AUR client, `internal/aur` | counters of a request | batches, tombstones | part of a batch fails; the AUR changes between two requests | an unknown is not an absent | yes |
| Checks, `internal/check` | none | provenance, integrity, tiers, exemptions, rules | evidence that is partial | a failure never reads as a pass | partly |
| Correlation, `internal/correlate` | none | facts, joins, clusters, severity | times and owners that cannot be read | inability is a gap, more evidence never lowers | yes |
| Ownership index, `internal/own` | none | whose a path is | - | a map | partly |
| Package metadata, `internal/pkgmeta`, `alpm`, `mtree` | none | parsers | - | file formats | partly |
| Confined access, `internal/fsx` | descriptors | open, verify | symlinks, replaced files | enforced by the kernel | partly |
| Surfaces, hooks, recipe lexer, helper caches, configuration, findings, reproducers, packaging | none | - | - | - | no |

`PROJECT.json` lists the same components with their files and how far each is
modelled, and under "hazards" each place in the code where one of these
behaviours bites, with the properties that would notice.

### How they interact

A scan collects evidence once (`Collection`), judges it (`Verification`, and the rules
of `Upstream`, `Drift` and `Correlation`), passes the findings through the answers of the
operator (`Answers`), compares them with the report before, saves its own and ends in an
exit code: 3 for a gap, 1 for a finding, 0 otherwise (`HostRuns`). `baseline init` and
`append` run a scan, make a manifest of it and hand it to the chain (`ChainStore`);
`baseline pushed` records how much of the chain somebody has pushed, and `verify` and
`status` read that record against the chain (`ChainReplication`); `baseline diff`
compares the packages and pacman's log with the manifest (`Drift`). `update` fills the
bundle cache and raises the floor; `version` reads both (`BundleUpdate`); no scan does yet.
`review` and `install` walk the closure over local recipes and the AUR client
(`ClosureWalk`), and `install` goes on to approvals, snapshots and the hand-over
(`InstallFlow`); `snapshot` and the delta of a review share the store of snapshots
(`Provenance`).

## 2. The modules

| Module | Models | Uses |
| --- | --- | --- |
| `ChainLog` | abstract: what the chain store promises | |
| `ChainRecords` | `chain.go`: records, `Link`, `Verify` and its sentinels, anchors | |
| `ChainStore` | `baseline.go` init and append over `store.go`, `lock.go`, `fsx/lock.go` | `ChainRecords`, implements `ChainLog` |
| `ChainReplication` | `baseline pushed`, and the readers `verify` and `status`, over `replication.go` | `ChainStore` |
| `ChainRestore` | the same on a host whose `chain.log` is put back to an older copy | `ChainReplication` |
| `ChainEdits` | `Verify` on a file somebody edited | `ChainRecords` |
| `BundleVerify` | `bundle.Verify`: delegation, bundle, floor, gaps | |
| `BundleUpdate` | `update` and `version` over cache, floor and lock | `BundleVerify` |
| `ClosureWalk` | `ReviewClosure` | |
| `ApprovalStore` | `gate/approve.go`: slots, `Lookup`, `Approve`, `Revoke`, the private directory | |
| `InstallFlow` | `install.go` and `review.go` over staged recipes that another process writes | `ApprovalStore` |
| `Collection` | phase 1 of a scan: `collect.go`, `fsx/openin.go`, `safe/subject.go` | |
| `Verification` | phase 2: `check/tier.go`, `integrity.go`, `exempt.go`, as operators over the evidence | `Collection` |
| `Answers` | `adjudicate` and `triage`: the states of a record and what it hides, as operators | |
| `HostRuns` | `scan`, `triage`, `adjudicate` and `baseline init` over one state directory | `Answers` |
| `GitHistory` | `vcs/gitlog.go` over refs, loose objects and packs | |
| `Provenance` | `snapshot` and `ReviewDelta` over clones that helpers change | `GitHistory` |
| `Upstream` | `aur/http.go`, `aur/client.go`, `check/provenance.go` | |
| `PacmanLog` | `pacmanlog`: files, coverage, transactions | |
| `Drift` | `baseline write` and `diff`: `drift.go`, `BuildManifest` | `PacmanLog` |
| `Correlation` | `correlate.go` | |
| `Judgements` | the four evaluations of evidence side by side | `ChainEdits`, `Upstream`, `Drift`, `Correlation` |
| `MC...` | the constants of the runs | the module they are named for |
| `...Proofs` | the proofs (section 5); `ChainProofs` is about `ChainStore`, `ChainReplication` and `ChainRestore`, `GateProofs` about `InstallFlow` and `ClosureWalk` | the module they are named for |
| `Induction` | no part of the system: what the proofs need of induction over numbers | |

A definition headed "Mutant:" or under "Mistakes a change of this code could make"
belongs to no specification. Each is a wrong form of the definition it resembles;
put in its place, it must make a property fail, and `PROJECT.json` ("mutants")
says which. They are how the properties are known to say something.

### The chain

*Records.* A record's bytes hold the hash of its predecessor, so SHA-256 is
modelled by what it commits to: `Hash(r)` is the history from the first record to
`r`, and two hashes are equal when the histories are. A signature is the key
that made it. `VerifyError` makes the checks of `chain.Verify` in its order, and
names the sentinel of the first that fails.

*Store.* A run is one process. Its program counter goes through the steps of
`baselineWrite` and `Store.Append`; between two steps any other run, pacman
(`dblck`, `db`) and the clock may move. One step is one thing another process can
see or be seen by: the precheck's load of the chain, the scan, the look for
`db.lck`, each rename of `PutPayload`, the flock, the load under it, the rename of
the chain, the unlock. The record that goes into the chain is a function of the
head the run read under the lock (`NewRecord`), as in `Append`'s callback. `Abort`
is a kill or an I/O error anywhere: the files stay, the flock goes. Signers are
members of the trust set because `reportUntrustedSigner` stops the others; the
anchors `pushed` signs have no such check, and `PushStart` takes any key.

*Replication.* `pushed` writes the signature and the document with two renames
and no lock; a reader loads the chain twice (its own load and
`replicationStatusFor`'s), the document and the signature, each in a step.

*Restore.* The only step that is not aurvet's: the file becomes a prefix of itself.

*Edits.* A chain grows record by record, then one edit of one of the kinds the header of
`chain.go` names is made to it.

### The bundle

`BundleVerify` is `Verify` as a function: from the artefacts in hand, the floor
in hand and the time to a state, to gaps, to whether the floor advances and to what.
A signature names what it covers and who made it.
`BundleUpdate` runs it in processes: an update loads the floor, fetches four kinds of
file one request at a time from an origin that may move between them, judges,
stores with one rename per file, takes the lock, loads the floor again, compares,
writes. `version` reads the cache file by file, then the floor; when that cannot be opened or
read it judges as if there were none, and its run ends as `unread` instead of `done`. A run that is
killed simply takes no more steps; `Abort` exists for the one case in which that
is visible, the kernel's release of the lock. `--check` and the time matter only from
the verdict on, so they are chosen at the last fetch: this is the same set
of behaviours with fewer states.

### The closure

One walk is sequential, so its steps are the levels and the single placements.
What is not decided by the code is chosen: the world (what recipes declare,
what the system holds, which databases were read) at the start, the AUR's answer
at each request. A `Place` step is one call of `place` with everything
under it: `addName`, `addPlain`, `addAUR`, the node bound, the gap, the next
frontier. The dependency list of a node is kept in order, with its repetitions
where the code has them.

### Approvals, installs and reviews

A recipe digest commits to the set of files it was taken over and to the bytes of each, so it
is that function. A PKGBUILD is known by the files it names, by whether it has a VCS source
and by whether a rule fires on it; these are constants over its contents. One step of
`InstallFlow` is one open that is read to its end, one rename, or the prompt; between
two steps another process may write any staged file in place (which moves its time), put a new
file under its name, or remove it, and another run may use the same store, which may also
be damaged, revoked, or change its mode. `review` keeps the descriptor it read (`ino`,
`mtime`); `DigestRecipe` opens the path again, and so do the snapshot and the verification. The field
`digestIno` is not in the program: it names the file the digest was taken of, for the
properties to speak of.

### A scan

*Collection.* The phases are `collectDB`, the buffered paths, walk and sweep, the recorded
paths, the pool. One step is one open, listing, read or re-fstat, or what one goroutine does under
the collector's lock. The tree is inodes and names, another process may write, replace or
remove between any two steps, and any call of the kernel may fail. A subject that overruns its
deadline gets its gap and goes on beside the pool; what it says after `Close` is dropped by
`addFile` and `gap`. Simplified: a link in the place of a directory leads out of the root
or nowhere; the other process makes no directories and changes no modes; `DT_UNKNOWN`
entries and sockets are not told apart from what they turn out to be; a database
file changes only in that its read fails; a write always moves size or time. The order in
which workers append to the evidence is left out, since `Raw.Index` sorts it.
A subject can have both a gap (its deadline) and a later full record.

*Verification.* Operators over the closed evidence: what `verifyPackages`, `Tier`,
`Integrity` and `Exempt` make of each recorded entry, and the sweep for setuid files
nobody owns.

*Answers and host.* `Answers` is `adjudicate.Evaluate`, `adjudicate.Apply` and
`triage.Apply`: epoch before expiry before pin, scopes, evidence. `HostRuns` has the
commands as processes over the state directory: `scan` (save the report, look for the one before, apply
the triage, render), `triage` and `adjudicate` (take the lock, load, write: one rename for
triage, signature and then document for the judgements), `baseline init` (scan, document,
signature, decide). A run's scan is one step, as `Collection` has its insides, and the
write after the decision of `init` is `ChainStore`'s. The clock, the findings and the
meaning of the rules change a bounded number of times; an upgrade only between runs. A
lock that is held is refused at once. A record that cannot be read makes its store "holed";
forged stores are not modelled, as the signature is who made it.

### Provenance and history

`GitHistory` is what `vcs` reads: `HEAD`, loose and packed references, loose objects, packs with
deltas, each checked against the name it was asked for under; a walk pops the newest
commit of a frontier, as the code does. `Provenance` runs captures and reviews over two
clones (the helper's and the upstream's) that are fetched, rewritten, repacked,
cleaned and damaged meanwhile. Packs are opened once before the walk, so a clean takes away
only what is not open; the parts of a capture are taken one after another. The parents
of one commit are read in one step, and the clock only advances.

### Judgements

Four evaluations read evidence and change none. Each has a module that says how the evidence
comes about and what is said of it; `Judgements` runs them side by side, one per
behaviour, so that one configuration checks all four.

*Upstream*: requests in batches, one at a time, while the AUR changes at most twice between them;
an inquiry may have one answer that fails or contains records that were not asked for. A server that lies about
a name it was asked for is not modelled, nor are the limits on the size of an answer.
*Drift*: one baseline, then a diff, over a host that pacman changes (a package and the two lines
of its log in one step), that something else changes, and whose log is rotated, cut, garbled
or shut; each change has its budget. No line of the log is from the future. `BuildManifest`'s refusals of malformed evidence are not modelled.
*Correlation*: surfaces are planted one by one and information (a time, an install date, the
repositories' names) is lost; facts keep the order in which the scenario lists them. *Edits*
is described under the chain.

## 3. The runs

Times are for two workers on a small machine.

| Run | Configuration | Distinct states | Question |
| --- | --- | --- | --- |
| `chain_store` | MCChainStore | 29,876, 25 s | two racing writers: verifies, grows, nothing lost, payload before record, implements `ChainLog`, every run ends |
| `replication` | MCChainReplication | 1,153,956, 95 s | two appends, two pushes, a reader: anchors are true, clean means pushed |
| `restore` | MCChainRestore | 672,330, 54 s | the file is put back after one of two pushes: clean means whole |
| `bundle` | MCBundleUpdate | 820,958, 43 s | two updates, a reader, a moving origin and clock |
| `closure` | MCClosureWalk | 413,782, 49 s | 16,000 worlds |
| `install` | MCInstallFlow | 637,785, 14 s | installs and reviews while their directory is written and their store is damaged |
| `collection` | MCCollection | 100,259, 26 s | a scan of a tree that changes, with ceilings, deadlines, faults and panics |
| `host` | MCHostRuns | 2,135,257, 72 s | three commands of every kind over one state directory |
| `provenance` | MCProvenance | 63,529, 11 s | captures and reviews over repositories of every shape |
| `judgements` | MCJudgements | 335,249, 106 s | the four evaluations |
| `host_pin` | MCHostRunsPin | violated | a pin hides a finding it was not written for |
| `drift_evolution` | MCJudgementsEvolution | violated | ordinary use of pacman is reported as a critical |

### What the properties say

* `ChainVerifies`, `AppendOnly`, `PayloadsReadable`, `SuccessIsRecorded`,
  `FirstIsBaseline`: the file is in order after any interleaving and kill, changes
  only by one record at its end, never names a manifest that is not there, keeps
  what an exit 0 acknowledged, and was opened by `init`.
* `ImplementsLog`: with hashes, locks, files and processes forgotten, the store is
  the log of `ChainLog`. The refinement maps the log to the bodies of the records
  and the readable payloads to those with both files; only `PutSig`, `PutDoc` and
  `Write` map to steps, the rest to stutters.
* `EveryRunEnds`: no wait lasts for ever, whoever holds the lock.
* `AnchorIsTrue`, `CleanIsPushed`: of the two files of a record that pushes write
  across each other, whatever authenticates is true of the chain; a clean `verify`
  is about a head that was pushed.
* `CleanIsWhole`: no clean verify has lost what the push recorded last had
  confirmed, whatever was put back, appended or half pushed since.
* `EditIsNamed`, `AnchorSeesEveryEdit`: the sentinels mean what their comments say, and
  the anchor sees what the chain alone cannot.
* `FloorOnlyRises`, `HeadDigestIsOfVersion`, `NoRollback`, `ExitZeroIsRecorded`:
  the floor is monotone although it is computed from an unlocked
  read, its digest and version come from one bundle, an accepted bundle binds
  every update that begins later and every `version` that can read the floor (one that cannot judges
  without it, and may report an older bundle as usable: section 6), and exit 0 left a record.
* `NoGapMeansComplete`, `Terminates`: a closure without a gap has every AUR package that
  could be reached within the limits, and the walk ends.
* `ApprovedWasShown`: whatever damages the store or races with it, a record of an approval is the
  digest of a recipe that some run showed to somebody who said yes.
* `HandedIsShownOrTold`: recipe by recipe, a directory that is handed over still had the digested
  bytes when they were read again; they are the bytes that were shown unless another file was put
  under the name between two opens; and what was not reviewed or not digested was told.
* `CleanReviewIsWhole`: a review that ends in 0 left nothing out.
* `PassedWasThere`: a record that passes verification was found as recorded at some instant
  of the scan, and what is said of a hashed file (text, size, mode) is of one such instant;
  there is one record for a path, however many speak for it.
* `NothingIsSilent`: what differs from its record throughout the scan, a setuid file nobody owns, and
  a file the walk should have reached, are a finding, a gap or an exemption.
* `EvidenceIsFinal`, `ScanEnds`: what was handed out is not written to any more, and a subject that
  hangs does not keep the scan from ending.
* `ExitIsVerdict`: the exit code speaks of the host and not of what is listed: whatever `--since-last` and
  the triage records hide, 0 and 1 are of complete scans, and 0 of those without a finding at the floor.
* `SinceLastIsDifference`: a comparison is with another run's report and with all of it, id by id: of
  several new findings with one id the listing has one (section 6).
* `AnswersAreKept`: a store that can be read has every answer nobody replaced or withdrew, however
  commands interleave, fail or are killed; none comes back.
* `HiddenWasAnswered`, `BaselineIsJudged`: what triage hides, was shown under its id to the one who answered, and the answer is in
  force; `baseline init` writes over a critical only when a judgement in force covered it and stood when it was read.
* `DeltaIsTrue`: "up to date", "new commits" and "absent" are so in the history that was walked, and
  everything else has a gap.
* `SnapshotIsWhole`, `NewestIsRecent`: exit 0 is a record with all its parts; the newest stored record has
  what the last capture found, although captures overlap and one of them may have found the store unchanged.
* `ProvenanceIsTrue`: "absent", "removed for malware" and silence are each justified by what the AUR offered
  while it was asked.
* `DriftIsNamed`, `OrdinaryUseIsQuiet`, `TruncationBuysNothing`: every difference from the baseline is an item or
  a gap, what only pacman changed is not critical, and taking lines out of the log, making them unreadable or hiding
  them explains nothing away (of a log that is within the bounds and names no other root).
* `EvidenceOnlyAdds`, `InabilityIsAGap`: more evidence never lowers a critical cluster, and one that stops
  being critical because something can no longer be read becomes a gap.

### The bounds and why they are enough

* **Two writers** (`Runs = {r1, r2}`): every property of the store relates one run to one
  that interferes. A third can only interfere the way the second does.
  `MaxTime = 1` gives a clock that advances and is set back; `MaxTransactions = 1`
  puts one transaction anywhere around a scan. `Keys = {k1, k2}`, `Trusted = {k1}`: one
  key that counts and one that does not. The proofs remove these bounds.
* **Replication** needs two pushes for signatures and documents to cross, two
  appends so that their anchors differ, one reader; `MaxTime = 0`, as no property
  of it depends on time beyond the store's. Runs and pushes are symmetric: nothing but their names
  tells them apart. The proof removes these bounds too.
* **Restore**: two pushes and one restore (`MaxRestores = 1`), so that one push is recorded
  and the other is at work while the file is put back. A push that is recorded
  *after* that replaces the anchor that named the lost entries, which is what the command
  is told to do: `CleanIsWhole` speaks of the push recorded last (`last`), and of a reader only as long as no
  other push is recorded before it has read the document (`owed`). Every key is trusted here; the
  untrusted one is in the replication run. The proof removes these bounds.
* **Bundle**: the three releases are a delegation signed by three root keys, a second
  with a rotated online key, and a bundle by that key with two root
  signatures that expires first; `MaxTime = 1` crosses that expiry and the end of the
  first key's window, `MaxMoves = 1` lets the origin go on or back once during a
  behaviour, from any release. `CONSTRAINT ReadersFollow` drops behaviours
  in which `version` begins before any update has ended; nothing is claimed of such a reader
  (`NoRollback` quantifies over updates that had ended), and it writes nothing. The
  symmetry is between the two updates. The proofs need no such bounds.
* **Closure**: limits of two levels, four nodes and two dependencies, so that every
  limit is met with room to spare on the other side; the three recipes
  contain a split package, a cycle through each other and through the subject, a virtual name a
  repository provides, names that are refused and names nobody knows, in about 16,000
  combinations. No repository package bears the name of an AUR pkgbase (`KeysApart`, which the run evaluates and
  the proof assumes): `NoGapMeansComplete` is false then (section 6). The proof removes the bounds.
* **Install**: five scenarios: two recipes with a write, one recipe with two writes and an upset
  of the stores, two installs of one pkgbase, an install and a review of it, a review with
  two writes. Two writes are a change between two opens and a change back; `MaxUpsets = 1`. The proof removes all of these.
* **Collection**: six paths of which two are directories and one a directory in a directory, two workers,
  one change of the tree, one fault; ten configurations meet each tier, each ceiling (buffer, database file, number and
  depth of walked files), skipping, a package that records what is not there or is
  something else, and an mtree that cannot be parsed. The proofs remove the bounds on changes,
  faults, workers and files.
* **Host**: three commands, because an answer, its replacement and a scan that reads between them are
  three; twenty sessions over the pairs of commands that share a store, with at most two changes of the host
  and two faults. The proofs remove these bounds.
* **Provenance**: six commits: a line of three, a side line merged into its end (and older than what it was
  merged into), a rewritten history; `MaxLog = 1`, `MaxReview = 4`, `MaxPacks = 2`, `MaxDeltaDepth = 1` and `MaxRefDepth = 2`
  are each met and exceeded by one of about thirty repositories. The proofs hold for any acyclic history, repositories and limits.
* **Judgements**: *edits*: three records are the fewest with a record that has both a
  predecessor and a successor; four payloads leave one unused by them. *upstream*: at most four packages of two bases, batches of
  two, three states of the AUR, every log of one or two subjects of eight kinds. *drift*: two packages, two versions, two files of four lines,
  thirteen sessions of what may happen. *correlation*: six files, four packages, up to nine surfaces, a window of three.
  The proofs of `JudgementsProofs` remove these bounds for the properties they are about.

Deadlock is checked in the run of the chain store and switched off in the others, in
which every process may have ended.

## 4. Fairness

* `FairSpec` (chain): weak fairness of `Advance(r)` for each run. A process that has
  begun is scheduled by the operating system; nothing makes anybody begin one, kill
  one, run pacman or set the clock. Waiting is bounded in the code (`fsx.Lock` polls
  until its deadline, then `Busy`), so no strong fairness is needed.
* `ClosureWalk`: weak fairness of `WalkNext`. It is one goroutine, and a request has a deadline.
* `Collection`: weak fairness of `Buffer`, `Walk` and `Pool`, the three parts of `Collect` itself; the pool includes the
  timer of `RunTimeout`. Subjects have none: a subject may hang for ever, which is what the deadline is for
  (`ScanEnds` asks for sessions with a deadline; a limit of zero is none).
* The other modules state no fairness and claim no liveness.

## 5. What is proved

Everything below is checked by TLAPS for any number of processes, keys, releases, recipes, files, packages,
commits, records, clock values and transactions. The only assumptions are those the modules state about their
constants, and TLC evaluates each on the constants of the runs. Most say what type a constant has
(`KeysAssumption`, `BoundsAssumption`, `PayloadsAssumption`, `RootsAssumption`, `LimitsAssumption`, `PublicationsAssumption`,
`ContentsAssumption`, `WritesAssumption`, `StagedAssumption`, `NoTextAssumption`, `MaxDaysAssumption`, `EditBounds`,
`DriftAssumption`, `InquiriesAssumption`, `PathsAssumption`, `HostsAssumption`, each `SessionsAssumption`) or that a value meant
to be none of some others is none of them (`RunsAssumption`, `ProcessesAssumption`). Five say something of the world:

* `CommitsAssumption`: history has no cycle. A commit's name is a hash of its parents' names.
* `TreeAssumption`: a directory sorts before what it holds, so that the tree of paths has no cycle either.
* `SessionsAssumption` of `Collection`: the subtrees of one scan do not overlap. They are the package database, which is always
  `var/lib/pacman/local` under the root, and those of `usr`, `etc`, `opt`, `boot` and `srv` that are swept.
* `DriftAssumption`: besides types, no line of the log a scenario starts with is stamped later than its clock.
* `SessionsAssumption` of `Provenance`: no two snapshots that are there at the start have one stamp, and they are older than
  what the clock will give. The stamp is the file's name.

Two theorems have a hypothesis besides, and each is false without it: `FloorRises` (`OneDigestPerVersion`) and
`ClosureIsComplete` (`KeysApart`). Each is explained below.

### `Induction`

The library's induction theorems take an operator, which the provers cannot instantiate. `Induction` starts from a fact
that takes none, the least element of a well founded set (`WFMin`), and gets `Induct` for sets of numbers from it, and that a
function defined by recursion over them exists and keeps what each of its steps keeps (`IterateExists`, `Along`).
By these the proofs reach the recursive functions of the models - the walk of a capture, symbolic references, the chain of delta bases,
the paths above a path, the files the packages record - whatever holds all along a sequence, as a record's position in its chain,
and what a list without repetitions or a concatenation of lists has in it (`FlattenIs`, `ConcatHas`).

### `ChainProofs`

*The store.* `Inductive`: `Spec => []IInv`. `ChainVerifies` is not inductive on its own: a run that has
read the chain and is about to rename would, for all it says, write over somebody
else's record. `IInv` adds that a run is in its critical section exactly when it holds
the lock (`LockInv`), that what it read is still what is on disk when it
writes and that the result was verified (`CopyInv`), that the payload was
stored before (`StoredInv`), that an append found a chain (`VerbInv`), and
where a finished run's record is (`RecordedInv`). From it: `TypeCorrect`,
`ChainAlwaysVerifies`, `PayloadsAlwaysReadable`, `SuccessAlwaysRecorded`, `FirstAlwaysBaseline`,
`OnlyAppends`, and `StoreImplementsLog`: the detailed store implements `ChainLog`. In
the last, `Write` maps to `Commit`: the payload is readable by `StoredInv`, new
and not earlier than the head because the chain with it verified.

*Replication.* `StoreStillCorrect`: `SpecR => Spec`, so all of the above holds beside pushes and readers, and
`ReplInductive` may use `IInv` and that the chain only grows. Its own part: what a push has loaded is a part of
the chain (`ClaimInv`); the document on disk is true of the chain, whichever push made it (`DocInv`); the signature on disk is over
the claim of a push that has settled it (`SigInv`); what a reader knows to be pushed, a push with
a trusted key signed (`KnownInv`); a reader's second load is no shorter than its first (`LoadsInv`).
The signature and the document on disk may be of different pushes: then the pair does not
authenticate, and where it does, it is one claim. Hence `AnchorAlwaysTrue` (`AnchorIsTrue`) and
`CleanAlwaysPushed` (`CleanIsPushed`).

*Restore.* `CleanAlwaysWhole` (`CleanIsWhole`), for any number of pushes, appends, readers and restores. Once the file can
shrink, nothing above about the chain survives; what does is about the record of the pushes: the document is the claim of the push
recorded last (`PushedInv`), and what a reader is owed is that document until it has read it, the document it has read, and then the
one anchor it can have (`OwedInv`). The signature need not be of the same push: when it is not, the pair does not authenticate, the
reader has no anchor, and `verify` is not clean.

### `BundleUpdateProofs`

`Invariance`: `Spec => []IInv`. What the update decides is computed from a floor that it loaded without the
lock, so the invariant relates that to the floor on disk: `Passed` (the floor has passed what was
loaded), `Recorded` (what an update accepted is on record), and, by the step an update is at, that
what it is about to write is an active bundle's, that it holds the lock, and that the comparison it
made under the lock still holds. `NextFloorFacts` says what the floor after an
active bundle is. Hence

* `FloorRises`: `FloorOnlyRises`, provided that no two published bundles share a version with
  different digests (`OneDigestPerVersion`). The proviso is needed: `Save` compares versions and
  serials only.
* `HeadDigestInvariant`: the digest in the floor is that of a bundle of the floor's version.
* `RecordedInvariant`: exit 0 left a record that no later update takes back.
* `NoRollbackInvariant`: once an update has accepted a bundle, no update that begins later, and no `version` that
  begins later and can read the floor, uses an older one or a superseded delegation. A second inductive invariant, `RInv`, stands on the
  first: for each run, every update that had ended when it began is still ended, and once the
  run has loaded the floor, that floor covers what those updates accepted. `StepHistory` shows that
  a step does one of three things to a run's history: keep it, load the floor, or leave a reader without one, which
  has only begun or could not read it.

### `GateProofs`

*Installs.* `FlowInductive`: `Spec => []IInv`, and from it `ApprovedAlwaysShown`, `HandedAlwaysShownOrTold` and
`CleanReviewAlwaysWhole`. `IInv` says of every recipe of every run how far its review is and what is established by then
(`BeforeInv`, `DoingInv`, `PastInv`: what is digested and what is left to digest are the files the text names, or
something is told; what is past and not told is whole), and of a run what it has to show for its answer and its end
(`AnswerInv`, `EndInv`). The link between the text somebody was shown and the bytes that were digested through another open
is time: `TextInv` says that as long as the inode that was read has the time it had then, a path that leads to it leads to
that text, and a digest of it has that text. A write to it gives it a time later than all that were read (`WriteStep`),
so `Unchanged` on the kept descriptor is enough for the verification that follows (`VerifiedInv`). `ApprovedWasShown` is
a part of the invariant because a store is written by any run; its witness stays, as a run that answered does not
review again (`StepOf`).

*The closure.* `ClosureIsComplete` (`NoGapMeansComplete`), for any recipes, split packages, cycles, repositories and limits, and whatever the AUR answers.
A gap is never taken back (`GapsStay`), so the invariant is about walks without one (`WalkInv`: no gap, or the walk is `Whole`). Then every node has a
reviewed recipe or is of the system or of a repository (`NodesInv`), a name that was met and that the AUR has leads to the reviewed node of its
pkgbase (`NamesInv`), and the AUR answered for every name that it was asked for (`AskedInv`). `DepsInv` says of each dependency
of each reviewed recipe where it is: it has its node (`Settled`), or the recipe is still to be expanded, or the dependency is still to be
placed (`Pending`). Each step moves it on and none drops it without a gap; at the end nothing is to come and everything is settled
(`WholeIsComplete`). The hypothesis `KeysApart` is about names: a pkgbase, a package of a repository and a virtual name are all keys of one table
(`closure.go:875`), and where two of them are one name the first to be met stands for both, so that an AUR package
is taken for the repository's and its recipe not read. The walk then has no gap to show for it.

### `CollectionProofs`

`PassedWasAlwaysThere` (`PassedWasThere`): what a record says of a path was so at an instant of the scan. The instants are the
history variable `named`, what each path has led to so far, and `IInv` says of everything the collector holds how it is bound to it:
a record (`FilesInv`); an open descriptor, whose inode has what was read of it as long as its generation is the one
that `fstat` gave (`DescriptorsInv`); one record for a path, because a leaf that waits has none (`LeavesInv`), and because
what the walk has spoken of and what its frames and the subtrees still to come can speak of are disjoint (`WalkInv`, `Clear`).

`NothingIsEverSilent` (`NothingIsSilent`) is about the paths that nothing happened to, and what each phase owes to each of them.
`SilenceInv`: a record agrees with the tree (`AgreeInv`), and so does an entry of a listing (`ListedInv`); beneath a subtree that was entered, a
path that is reached is excused by the report, spoken for, or under an entry that is left (`WalkedInv`); a leaf that was taken has a
worker that waits for it, a gap, or an answer (`PoolInv`); a file that could not be read has its gap (`UnreadInv`). `TreeInduct`
carries `WalkedInv` from a directory to what it holds, and from the end of the pool the verification's operators do the rest.

`EvidenceStaysFinal` (`EvidenceIsFinal`): no phase of the collector can run after `closed`, and an abandoned
subject, whatever it answers, meets `done` in `addFile` and `gap`. No invariant is needed beyond `done` itself.

### `HostRunsProofs`

`AnswersAlwaysKept` (`AnswersAreKept`) and `OneRewriterOfAStore`. `AnswersAreKept` is not inductive: between load and write a
command has in hand a set that will become the store. The invariant adds that such a command holds
the lock of its store (`LockInv`, with `VerbInv` for which command can be half way through two files) and that the set is what
it should make of the answers that stand (`SetInv`, `Wanted`). A kill releases the lock; killed
between the two, a command leaves the old document under a new signature. Readers refuse it, and its records are
still those that stand, which is what the theorem says of it.

On it stands a second invariant, `Scans`, about those who read without the lock: a report is of a run that has scanned and has
the ids of what that run found (`ReportInv`); every record of a store was given by somebody as an answer to a finding that was shown to him
(`AnswerInv`, `StoreInv`); and of each run, by the step it is at, what it is compared with, what it has hidden and by which answer, and what its exit
code is made of (`RunInv`). `SelfOf` keeps the parts that only the run's own steps can disturb apart from those that any step can (`ViewOf`,
`HideOf`, `ReadOf`, `InitOf`), whose witnesses are never taken away. Hence `ExitAlwaysVerdict`, `SinceLastAlwaysDifference`, `HiddenAlwaysAnswered`,
`BaselineAlwaysJudged`.

### `ProvenanceProofs`

`DeltaAlwaysTrue` (`DeltaIsTrue`), `ZeroAlwaysWhole` (`SnapshotIsWhole`) and `NewestAlwaysRecent` (`NewestIsRecent`).
`WalkInv` is what a walk has to do with history at any moment: what is listed and what is in the frontier are all that was visited, unless it failed; the
parents of what is listed were visited, or are where the walk stops. When the frontier is empty, what was visited is therefore closed under
parents, and as history has no cycle it has every ancestor but those behind the stop (`CommitsAssumption`). A review makes the walk step by step, a capture as a recursive function;
both keep `WalkInv`. `NewestInv` is about captures that overlap: the newest record is that of a capture after which none was stored, and of one that a capture about to write an
older stamp did not find stored when it began. It needs that no two captures take one stamp (`StampsInv`).

### `JudgementsProofs`

Each of the four judgements has an invariant of its own; `PartsStep` says that a step of the whole is a step or a stutter of each.

* *Edits.* `EditAlwaysNamed` (`EditIsNamed`) and `AnchorAlwaysSees` (`AnchorSeesEveryEdit`), for chains of any length. `VerifySays` is the order of the
  checks: the sentinel is that of the first check that fails. A record's hash is all that came before it, so its `prev` is as long as its position
  (`Heights`), and records of one hash are one record with one past (`SameBody`): the records before an edit cannot be what fails, and the one at it fails exactly the
  check its sentinel is named for. One lemma for each kind of edit (`TruncateSays` to `ForgeSays`) says so.
* *Drift.* `DriftAlwaysNamed` (`DriftIsNamed`). A report is made of the packages as they are and of the log as the command read it (`ReportInv`), and a package without a digest in the
  baseline is one of the baseline's gaps (`BaselineInv`).
  `TruncationNeverBuys` (`TruncationBuysNothing`). Within the bounds and with no other root named, what `Read` makes of a log is what its files tell (`ReadSays`), so it is enough
  to say what a step does to that. A log *fades* (`Fades`) when each of its files is a file that was there with fewer of its lines, less of it readable, or lines added that are no transaction and
  stamped with this moment; every step that logs nothing makes it fade (`RotateFades`, `CutFades`, `GarbleFades`, `ShutFades`, and `NewIsLogged` for pacman's own). Then the transactions that are read are
  some of those that were, and a log that began later than the baseline says still does, or is gone (`LessIsRead`). The last needs `LogInv`: no line is
  from the future, and the baseline began by now, so that a line added now cannot pass for the beginning. Records only
  expire (`RecordsExpire`), and the two shortfalls of coverage are those of a log that does not begin late (`StillUnexplained`).
  `OrdinaryUseStaysQuiet` (`OrdinaryUseIsQuiet`). A package that only pacman changed since the baseline is as it was signed, or the log *accounts* for it (`AccountInv`): it has a
  transaction that leaves the package as it is, of this root and later than the baseline, and every line behind that one is later than the baseline too; or that transaction was cut away, and then all
  that is left is later (`Accounted`). pacman's own step establishes it (`LoggedAccounts`), appending, rotating and shutting only add to the log (`Grown`), and a cut takes the line with everything
  before it, so that no order of the lines has to be known (`CutAccounts`). What a log accounts for is read, or else a gap says what was not read, or the log begins late (`AccountIsRead`); in the last case
  the diff calls it truncated, or its coverage short. The command keeps what it read while the log goes on (`ShownInv`), for which the packages touched since are left out.
* *Upstream.* `ProvenanceAlwaysTrue` (`ProvenanceIsTrue`), for any number of packages and any batch size, with the AUR changing between any two requests. What the
  answers have to do with the AUR: a usable answer has every record that the AUR had of its batch's names when it was given (`CompleteInv`), a record of
  an asked name is one the AUR had, or the answers as a whole are refused (`ToldInv`), a page is a log of the AUR's or failed (`PagesInv`). `EveryNameIsAsked` says that the batches leave nobody out, and
  `PerPackage` that the code's two passes over all the answers say of each package what its own records do.
* *Correlation.* `InabilityIsAlwaysAGap` (`InabilityIsAGap`). What is said of a cluster is a function of its members and the host (`ClusterIs`), whatever the groups are; an instant or a date
  that a step takes away was all that made the cluster critical, or it still is, and in the first case it is what `IsGap` asks for (`LossIsSeen`).
  `EvidenceAlwaysAdds` (`EvidenceOnlyAdds`) is about the union-find. A forest has one function that gives every fact its root (`OneRooting`), and `Find` is it (`FindIs`); merging two facts makes
  one group of theirs and leaves the others alone (`MergeIs`). So after any number of pairs two joined facts have one root (`JoinedTogether`), and whatever is constant on joined pairs is constant on
  groups (`ForestAfter`). The root in the forest of the larger evidence is such a thing for the smaller: every old fact is a new one (`StillAFact`; a suppression's fact can be replaced by its hook's, which is
  the same fact) and joined facts stay joined, so an old group lies within a new one (`GroupGrows`), which is then critical (`CriticalGrows`).

### What the proofs changed

Three definitions were not what they were meant to be, and no run had shown it. The paths that nothing happened to
(`Untouched` of `Collection`) took in one that was created and removed again, which a second change of the tree makes possible.
The stray records of an answer (`Strays` of `Upstream`) took in records of an asked name that the AUR does not have, which the code cannot tell from
true ones (a server that lies about a name is not modelled, as section 2 says).
`TruncationBuysNothing` was false of a log longer than the bounds: cutting its first lines lets the scan read on to later ones, which may well
explain what was critical, and rightly. The property now says that it is about a log within them (`Whole`). The proof also showed that `PacmanLog` had no line with a stamp and a message that is not
understood, which the code counts for the window and as a gap (`unknown`).
That `NoGapMeansComplete` needs `KeysApart` was known of repositories (section 6); the proof needed it of provided names and of pkgbases that are
another pkgbase's package as well.

### What stays with TLC

* Liveness: `EveryRunEnds`, `Terminates`, `ScanEnds`. Every invariant and action property of a passing run is a theorem.
* The type of the bundle's readable signatures (`SelectSeq` over a sequence).

## 6. Disagreements between code and text

Two are runs that end in a counterexample:

| Run | The text | The code |
| --- | --- | --- |
| `host_pin` | `triage/apply.go:187-189`: two findings can share a rule and subject, "and a pin must not hide the one it was not written for" | the listing is filtered by finding id, which has rule and subject only (`main.go:761`, `report/text.go:27`) |
| `drift_evolution` | `drift.go:6`, `drift.go:652-653`: a pacman transaction explains a change, "ordinary system evolution is not a detection" | no `downgraded` explains an added package and the `installed` transaction names another version (`drift.go:517`): a package installed and then downgraded since the baseline is an unexplained critical |

Ten more statements of the repository are defined beside the properties and false of the model. No
configuration runs them; add the definition as an INVARIANT to the configuration named, and TLC shows the behaviour.

| Definition, configuration | The text | The code |
| --- | --- | --- |
| `OnlyFirstIsBaseline`, MCChainStore | `chain.go:61-64`: the first entry is init's and every later one an append | the precheck is outside the lock (`baseline.go:362`) and `Append` takes any kind: two inits both succeed |
| `NoTornBaseline`, MCChainStore | `lock.go:10-16`: a baseline assembled across a transaction is refused | `db.lck` is looked for after the scan (`baseline.go:386`); a transaction that ends before that leaves no trace (`ScanAdvisory`, `lock.go:100`, has no caller) |
| `TruncationIsReal`, MCChainReplication | `chain.go:94-96`: `ErrTruncated` means that entries were removed | a reader that loads the chain before an append and the anchor after its push reports it (`baseline.go:574`) |
| `LossIsReported`, MCChainRestore | `replication.go:365-367`: an anchor and a chain that disagree are a critical | an empty chain ends `status` with 0 before the anchor is read (`baseline.go:533`) |
| `StoredReadsBack`, MCBundleUpdate | `update.go:267-268`: signatures past the threshold are optional | `Store` leaves the surplus signature files of the release before, and the set is refused when read back (`cache.go:123`) |
| `UnreadIsNotAbsent`, MCBundleUpdate | `floor.go:174-176`: "I could not read the floor" must never be presented as "there is no floor" | `version` clears what it has of the floor and calls `Verify` without one (`update.go:559-577`): an older release that a racing update stored after a newer one was accepted is reported as usable |
| `NewIsListed`, MCHostRuns | `store.go:194-198`: a finding id is unique per finding by construction | `Diff` collects the findings by id (`store.go:173-187`): of two new ones with one id, `--since-last` lists one |
| `NoSilentSkip`, MCClosureWalk with `Repo <- MCRepoWithB` | `closure.go:30-32`: an AUR package that something claims to be a repository package must not be skipped silently | nodes of both kinds share one key space, and the first of a key wins (`closure.go:875`); `NoGapMeansComplete` is false there too |
| `HandedIsShown`, MCInstallFlow | `review.go:357-359`, `install.go:25-33`: the bytes handed over are the bytes that were reviewed | the digest is taken through a second open (`review.go:476`): a file put under the name between the two is digested, approved and verified unseen |
| `PackagesAreAnswered`, MCCollection with `Sessions <- EmptySessions` | `main.go:1494`: a package that is not compared was already gapped by the collection | an mtree of no bytes is read without a gap and skipped (`main.go:1493`) |

Smaller ones, met on the way:

* *Chain and bundle.* `update --json` exits 0 when it refuses (`update.go:222-224`); a refusal after `Save` failed says that
  nothing was cached though the files were (`update.go:207`); a dependency two packages of one level share enters the next
  frontier twice, so that its edges are listed twice (`closure.go:739`).
* *Answers and reports.* A report difference is by id, so another finding with the id of a reported one is not new either; `LoadPrevious` can
  return the run's own report when stamps are equal (`store.go:93-97`); a kill between `Save` and `Render` hides a finding
  from `--since-last` for ever; after a failed `Save` of its own a scan compares with the run before last; two pins for two findings of
  one id replace each other; `baselineDiff` (`baseline.go:706-716`) drops the faults of `loadAdjudications` and applies neither epoch nor
  evidence; an unreadable database ends in 2 although a run that covered nothing is documented as 3; a
  kill between the signature and the document of the judgements leaves a store that does not verify and
  that rewrites refuse; parsing is said to happen after the privileged phase, but `dropAll` runs at the end.
* *Provenance.* An unreadable loose reference falls back to the packed one (`gitlog.go:560`); nothing ever sets
  `Approval.VCS`, though `approve.go:364-386` promises an anchor; of disagreeing upstream records the snapshot says that
  neither is preferred, and the review takes the first; `ReviewDelta` reads `HEAD` twice; a pull during a capture
  mixes versions in one record; a clock set back leaves an older snapshot the newest; in merged history the walk
  lists ancestors of the anchor; a configuration that cannot be read is treated as absent without a gap unless it is too large.
* *Drift.* A baseline that has no digest of a package gets one later without a word; an adjudication of scope "rule" whose
  subject is empty is filed under "" and never applies; a transaction that was superseded still
  corroborates; cutting the line that names another root makes the transactions after it count for this one; a
  compressed or unreadable sibling makes the diff say that the log was truncated although it is there; one old stamp out of
  order hides a truncation; the log is read before the packages, so that a transaction between the two is a false critical.
* *Correlation.* `timeFact` falls back silently from the target's time to the path's; a fact whose time cannot be read never joins
  by package, so a cluster dissolves without a gap; two clusters can share a subject and so a finding id.

## 7. What is not modelled

* *Data formats*: canonical JSON, key files, git notes, `.SRCINFO`, mtree, local and sync databases, the bytes of
  packs. They are parsers without state; the repository fuzzes several. What they can yield (nothing, a refusal, a value) is in the
  modules that use them.
* *Rules over text*: the recipe lexer and resolver, the rules of `check/pkgbuild.go`, units, hooks, shell files
  (`surfaces`, `hook`). Their findings are inputs of `InstallFlow`, `HostRuns` and `Correlation`.
* *Path confinement* beyond what an open can answer (`fsx`): enforced by the kernel. Capability sets and the system calls
  of `privdrop`: whether the final drop succeeded is in `HostRuns`.
* *One-shot copies and plain data*: redacted reproducers, configuration, findings, build information, the helpers' cache
  locations, packaging.
* *Rendering*, logging and wording, except where an exit code depends on it; flags and the order of the checks of a scan that do not depend
  on each other.
* A disk whose renames are reordered by a power failure: `writeAtomic` syncs before it renames, and what is renamed is taken to stay.
* What each module leaves out is said in its header and in section 2.

## 8. What could come next

* A composition of `HostRuns` with `ChainStore`, so that `baseline init` is one process from its decision to its record.
