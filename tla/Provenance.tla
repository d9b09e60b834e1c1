----------------------------- MODULE Provenance -----------------------------
(* What is remembered of a package built from the AUR, and what it is used  *)
(* for: `snapshot` records the recipe, its history and the upstream commit  *)
(* that was built before the helper's cache is cleaned, and a review lists  *)
(* the upstream commits since the recorded one.  Helpers pull, push, repack *)
(* and clean the clones meanwhile, and several captures share one store.    *)
EXTENDS GitHistory, FiniteSetsExt, Functions

CONSTANTS Runs, Sessions,       \* the jobs of the runs, what happens meanwhile, the budget
          MaxLog, MaxReview     \* commits in a record, commits in a review

(* A session is what a store, a clone and a checkout may be found as, and   *)
(* what is done to them; stamps are the names of the stored records.        *)
Clones ==
    [cache : {"present", "absent", "unreadable"}, count : Nat,
     recipe : [state : {"ok", "other", "absent", "refused", "large", "unretained", "unresolved"}, at : Commits],
     srcinfo : {"ok", "other", "absent", "refused", "unparsed"},
     built : {"ok", "other", "archive", "none", "zst"},
     git : Repositories, state : Commits \cup {None, "unreadable"}]
Shaped(s) == DOMAIN s = {"stamp", "whole", "rec"} /\ s.stamp \in Nat
ASSUME SessionsAssumption ==
    /\ \A s \in Sessions :
          /\ DOMAIN s = {"jobs", "clone", "source", "stored", "heads", "changes", "key", "vcs", "remote"}
          /\ s.clone \in Clones /\ s.source \in Repositories /\ s.heads \subseteq Commits
          /\ \A t \in s.stored : Shaped(t) /\ t.stamp < 2
          /\ \A t, u \in s.stored : t.stamp = u.stamp => t = u
    /\ MaxLog \in Nat /\ MaxReview \in Nat

VARIABLES session,
          clone,      \* the helper's clone of the recipe, and where it is looked for
          source,     \* the checkout of the upstream repository beside the recipe
          snapshots,  \* the stored records of this pkgbase
          clock, run

vars == <<session, clone, source, snapshots, clock, run>>

Job(r) == session.jobs[r]
Nothing == [recipe |-> None, srcinfo |-> None, built |-> None, head |-> None, remote |-> None,
            log |-> <<>>, upstream |-> <<>>, sources |-> FALSE, gaps |-> {}]
NoWalk == [frontier |-> {}, visited |-> {}, out |-> <<>>, reached |-> FALSE, failed |-> FALSE]
Idle == [pc |-> "idle", rec |-> Nothing, search |-> {}, stamp |-> 0, stored |-> FALSE, exit |-> 9,
         after |-> {}, anchor |-> None, remote |-> None, head |-> None, walked |-> None,
         packs |-> <<>>, walk |-> NoWalk, status |-> None, moved |-> FALSE, gaps |-> {}]

Set(r, new) == run' = [run EXCEPT ![r] = new]
World == <<session, clone, source>>

-----------------------------------------------------------------------------
(* `snapshot`: the search for the clone, and the capture of it.             *)

(* Detect: a cache that cannot be listed is a gap, one that is not there is *)
(* not; where there is none at all, that is one.                            *)
SearchGaps ==
    {g \in {"cache-unreadable", "no-cache", "cache-empty", "no-recipe"} :
        \/ g = "cache-unreadable" /\ clone.cache = "unreadable"
        \/ g = "no-cache" /\ clone.cache \in {"absent", "unreadable"}
        \/ g = "cache-empty" /\ clone.cache = "present" /\ clone.count = 0
        \/ g = "no-recipe" /\ clone.cache = "present" /\ clone.count > 0
           /\ clone.recipe.state \in {"absent", "refused"}}

Held == IF clone.cache = "present" THEN clone.count ELSE 0
MaxClones == 1

(* Capture up to its first clone: the helper's own record of upstream       *)
(* commits is read before it.                                               *)
BeginCapture(r) ==
    LET gaps == {g \in {"no-clone", "vcs-state"} :
                    \/ g = "no-clone" /\ (Held = 0 \/ Held > MaxClones)
                    \/ g = "vcs-state" /\ Held > 0 /\ clone.state = "unreadable"}
        upstream == IF clone.state \in Commits THEN <<clone.state>> ELSE <<>>
        ended == {q \in Runs : run[q].stored} IN
    /\ run[r].pc = "idle" /\ Job(r) = "capture"
    /\ IF session.key = "unsafe" THEN Set(r, [run[r] EXCEPT !.pc = "done", !.exit = 2])
       ELSE Set(r, [run[r] EXCEPT !.pc = IF Held = 0 THEN "captured" ELSE "files",
                    !.search = SearchGaps, !.after = ended,
                    !.rec = [Nothing EXCEPT !.upstream = IF Held = 0 THEN <<>> ELSE upstream,
                                            !.gaps = gaps \cup IF Held = 0 THEN SearchGaps ELSE {}]])
    /\ UNCHANGED <<World, snapshots, clock>>

(* captureFile, captureBuildInfo: a part that cannot be had in full, and one*)
(* that names another pkgbase, is a gap.                                    *)
FileGaps ==
    {g \in {"pkgbuild", "srcinfo", "not-retained", "mismatch", "buildinfo"} :
        \/ g = "pkgbuild" /\ clone.recipe.state \notin {"ok", "other", "unretained"}
        \/ g = "not-retained" /\ clone.recipe.state = "unretained"
        \/ g = "srcinfo" /\ clone.srcinfo \notin {"ok", "other"}
        \/ g = "mismatch" /\ "other" \in {clone.recipe.state, clone.srcinfo, clone.built}
        \/ g = "buildinfo" /\ clone.built \notin {"ok", "other", "archive"}}

(* The text of the recipe, when its size allows it to be kept, and the      *)
(* .SRCINFO are where the VCS source is declared.                           *)
CaptureFiles(r) ==
    /\ run[r].pc = "files"
    /\ Set(r, [run[r] EXCEPT !.pc = "git",
               !.rec.recipe = IF clone.recipe.state \in {"absent", "refused", "large"} THEN None
                              ELSE clone.recipe.at,
               !.rec.srcinfo = clone.srcinfo,
               !.rec.built = clone.built,
               !.rec.sources = clone.recipe.state \in {"ok", "other"} \/ clone.srcinfo \in {"ok", "other"},
               !.rec.gaps = @ \cup FileGaps])
    /\ UNCHANGED <<World, snapshots, clock>>

(* captureGit: HEAD, the remote and the log of the recipe's repository, each*)
(* with its own gap; one commit more than is kept tells that there are more.*)
GitGaps(log) ==
    {g \in {"git"} : \/ ~Opens(clone.git) \/ Resolve(clone.git) = None \/ Remote(clone.git) = None
                     \/ FormatGaps(clone.git) \cup StoreGaps(clone.git) # {}
                     \/ Incomplete(log, MaxLog + 1)}
CaptureGit(r) ==
    LET head == IF Opens(clone.git) THEN Resolve(clone.git) ELSE None
        readable == head # None /\ ReadCommit(clone.git.loose, Packs(clone.git), head) # None
        log == IF readable THEN Log(clone.git, head, MaxLog + 1) ELSE [NoWalk EXCEPT !.failed = TRUE] IN
    /\ run[r].pc = "git"
    /\ Set(r, [run[r] EXCEPT !.pc = "upstream", !.rec.head = head,
               !.rec.remote = IF Opens(clone.git) THEN Remote(clone.git) ELSE None,
               !.rec.log = SubSeq(log.out, 1, IF Len(log.out) > MaxLog THEN MaxLog ELSE Len(log.out)),
               !.rec.gaps = @ \cup GitGaps(log)])
    /\ UNCHANGED <<World, snapshots, clock>>

(* A mutant: no record of the upstream commit is no gap.                    *)
UpstreamGapsWhenTwo(r, found) ==
    {g \in {"upstream"} : run[r].rec.sources /\ Cardinality(Range(found)) > 1}

(* captureUpstream: the checkout's HEAD, and what the helper recorded; both *)
(* are kept, the checkout's first.                                          *)
UpstreamGaps(r, found) ==
    {g \in {"upstream"} : run[r].rec.sources /\ Cardinality(Range(found)) # 1}

CaptureUpstream(r) ==
    LET head == IF Opens(source) THEN Resolve(source) ELSE None
        found == (IF head = None THEN <<>> ELSE <<head>>) \o run[r].rec.upstream IN
    /\ run[r].pc = "upstream"
    /\ Set(r, [run[r] EXCEPT !.pc = "captured",
               !.rec.upstream = IF run[r].rec.sources THEN found ELSE <<>>,
               !.rec.gaps = @ \cup UpstreamGaps(r, found)])
    /\ UNCHANGED <<World, snapshots, clock>>

-----------------------------------------------------------------------------
(* The store.                                                               *)

Whole == {s \in snapshots : s.whole}
(* latest: by name, past what cannot be read.                               *)
Latest == {s \in Whole : \A t \in Whole : t.stamp <= s.stamp}

(* A mutant: a record that was ever stored is not stored again.             *)
SameAsAny(rec) == \E s \in Whole : s.rec = rec
Same(rec) == \E s \in Latest : s.rec = rec

Exit(r) == IF run[r].rec.gaps # {} \/ run[r].search # {} THEN 3 ELSE 0
Finish(r, stored) == Set(r, [run[r] EXCEPT !.pc = "done", !.exit = Exit(r), !.stored = stored])

(* Save takes its stamp first; a record equal to the newest is not written. *)
(* That nothing could be written does not change the code.                  *)
Compare(r) ==
    /\ run[r].pc = "captured"
    /\ clock' = clock + 1
    /\ IF session.key = "refused" THEN Finish(r, FALSE)
       ELSE IF Same(run[r].rec) THEN Finish(r, TRUE)
       ELSE Set(r, [run[r] EXCEPT !.pc = "write", !.stamp = clock])
    /\ UNCHANGED <<World, snapshots>>

Write(r) ==
    /\ run[r].pc = "write"
    /\ \/ /\ snapshots' = snapshots \cup {[stamp |-> run[r].stamp, rec |-> run[r].rec, whole |-> TRUE]}
          /\ Finish(r, TRUE) /\ UNCHANGED World
       \/ /\ session.changes > 0 /\ session' = [session EXCEPT !.changes = @ - 1]
          /\ Finish(r, FALSE) /\ UNCHANGED <<snapshots, clone, source>>
    /\ UNCHANGED clock

-----------------------------------------------------------------------------
(* The review of the commits since the recorded one.                        *)

End(r, status, gaps) ==
    Set(r, [run[r] EXCEPT !.pc = "done", !.status = status, !.gaps = @ \cup gaps])

(* anchor: the first upstream commit of the newest record.                  *)
Anchor == UNION {IF s.rec.upstream = <<>> THEN {} ELSE {s.rec.upstream[1]} : s \in Latest}

BeginReview(r) ==
    /\ run[r].pc = "idle" /\ Job(r) = "review"
    /\ IF session.vcs # "git" \/ source.dir = "none" THEN End(r, "unreadable", {"unreadable"})
       ELSE Set(r, [run[r] EXCEPT !.pc = "open",
                    !.anchor = IF Anchor = {} THEN None ELSE CHOOSE c \in Anchor : TRUE,
                    !.remote = IF Anchor = {} THEN None ELSE session.remote])
    /\ UNCHANGED <<World, snapshots, clock>>

(* ReviewDelta up to the walk: HEAD, the remote, the anchor.                *)
OpenClone(r) ==
    LET remote == Remote(source)
        gaps == FormatGaps(source) \cup
                IF remote = None /\ run[r].remote # None THEN {"no-remote"} ELSE {}
        seen == [run[r] EXCEPT !.head = Resolve(source), !.gaps = gaps,
                               !.moved = remote # None /\ run[r].remote \notin {None, remote}] IN
    /\ run[r].pc = "open"
    /\ IF ~Opens(source) \/ Resolve(source) = None THEN End(r, "unreadable", {"unreadable"} \cup gaps)
       ELSE IF run[r].anchor = None
            THEN Set(r, [seen EXCEPT !.pc = "done", !.status = "no-anchor", !.gaps = gaps \cup {"no-anchor"}])
       ELSE Set(r, [seen EXCEPT !.pc = "start"])
    /\ UNCHANGED <<World, snapshots, clock>>

(* LogSince up to its first commit: the packs, and HEAD once more.          *)
StartWalk(r) ==
    LET head == Resolve(source)
        gaps == FormatGaps(source) \cup StoreGaps(source)
        readable == head # None /\ ReadCommit(source.loose, Packs(source), head) # None
        begun == [run[r] EXCEPT !.walked = head, !.packs = Packs(source), !.gaps = @ \cup gaps] IN
    /\ run[r].pc = "start"
    /\ IF head # None /\ head = run[r].anchor
       THEN Set(r, [begun EXCEPT !.pc = "judge", !.walk.reached = TRUE])
       ELSE IF ~readable THEN End(r, "unreadable", gaps \cup {"unreadable"})
       ELSE Set(r, [begun EXCEPT !.pc = "walk", !.walk = WalkFrom(head)])
    /\ UNCHANGED <<World, snapshots, clock>>

Walk(r) ==
    /\ run[r].pc = "walk"
    /\ IF WalkEnds(run[r].walk, MaxReview) THEN Set(r, [run[r] EXCEPT !.pc = "judge"])
       ELSE Set(r, [run[r] EXCEPT !.walk = WalkStep(@, run[r].anchor, source.loose, run[r].packs)])
    /\ UNCHANGED <<World, snapshots, clock>>

(* Only a walk that was not cut short says where the anchor is; an anchor   *)
(* that is HEAD is up to date whatever the walk did.                        *)
Judge(r) ==
    LET w == run[r].walk
        truncated == Len(w.out) >= MaxReview
        status == IF run[r].anchor = run[r].head \/ (w.reached /\ w.out = <<>>) THEN "up-to-date"
                  ELSE IF w.reached THEN "new-commits"
                  ELSE IF truncated THEN "undetermined" ELSE "anchor-absent" IN
    /\ run[r].pc = "judge"
    /\ IF Incomplete(w, MaxReview) THEN End(r, "undetermined", {"incomplete"})
       ELSE End(r, status, IF truncated THEN {"truncated"} ELSE {})
    /\ UNCHANGED <<World, snapshots, clock>>

-----------------------------------------------------------------------------
(* The helper, and git, meanwhile.                                          *)

(* What a commit names, it and all its ancestors: what every set of commits *)
(* has that has it and leaves no parent out.                                *)
Histories == {S \in SUBSET Commits : \A c \in S : Parents[c] \subseteq S}
Ancestors(c) == {d \in Commits : \A S \in Histories : c \in S => d \in S}

(* A fetch puts the new commits into the loose store and then moves the ref,*)
(* forwards or not.                                                         *)
Stored(repo, c) ==
    repo.loose[c] # NoObject \/ \E i \in DOMAIN repo.packs : repo.packs[i].objects[c] # NoObject
Fetched(repo, c) ==
    [repo EXCEPT !.loose = [d \in Commits |-> IF d \in Ancestors(c) /\ ~Stored(repo, d)
                                             THEN Full(d) ELSE @[d]],
                 !.refs["main"] = c]

(* A repack moves what is loose into one pack and drops what nothing refers *)
(* to.                                                                      *)
Repacked(repo) ==
    LET kept == Ancestors(Resolve(repo))
        at(d) == IF repo.loose[d] # NoObject THEN repo.loose[d]
                 ELSE LET held == {i \in DOMAIN repo.packs : repo.packs[i].objects[d] # NoObject} IN
                      IF held = {} THEN NoObject ELSE repo.packs[CHOOSE i \in held : TRUE].objects[d] IN
    [repo EXCEPT !.loose = [d \in Commits |-> NoObject],
                 !.packs = <<[index |-> TRUE,
                              objects |-> [d \in Commits |-> IF d \in kept THEN at(d) ELSE NoObject]]>>,
                 !.packed["main"] = Resolve(repo), !.refs["main"] = None]

(* Cleaning leaves nothing but what is open.                                *)
Cleaned(repo) == [repo EXCEPT !.dir = "none", !.head = Refused, !.packs = <<>>,
                              !.loose = [d \in Commits |-> NoObject]]

MayChange == session.changes > 0 /\ session' = [session EXCEPT !.changes = @ - 1]

ChangeClones ==
    /\ MayChange
    /\ \/ /\ Opens(source) /\ \E c \in session.heads : source' = Fetched(source, c)
          /\ UNCHANGED clone
       \/ /\ Opens(source) /\ Resolve(source) # None /\ source.refs["main"] \in Commits
          /\ source' = Repacked(source) /\ UNCHANGED clone
       \/ /\ source' = [source EXCEPT !.origin = "elsewhere"] /\ UNCHANGED clone
       \/ /\ source' = Cleaned(source) /\ UNCHANGED clone
       \/ /\ clone.count > 0
          /\ \E c \in session.heads :
                clone' = [clone EXCEPT !.recipe.at = c, !.git = Fetched(@, c)]
          /\ UNCHANGED source
       \/ /\ \E c \in session.heads : clone' = [clone EXCEPT !.state = c]
          /\ UNCHANGED source
       \/ /\ clone' = [clone EXCEPT !.count = 0, !.git = Cleaned(@)] /\ source' = Cleaned(source)
    /\ UNCHANGED <<snapshots, clock, run>>

(* A stored record is damaged.                                              *)
Damage ==
    /\ MayChange
    /\ \E s \in snapshots : snapshots' = (snapshots \ {s}) \cup {[s EXCEPT !.whole = FALSE]}
    /\ UNCHANGED <<clone, source, clock, run>>

-----------------------------------------------------------------------------
Init ==
    /\ session \in Sessions
    /\ clone = session.clone /\ source = session.source
    /\ snapshots = session.stored /\ clock = 2
    /\ run = [r \in Runs |-> Idle]

Capture(r) == \/ BeginCapture(r) \/ CaptureFiles(r) \/ CaptureGit(r) \/ CaptureUpstream(r)
              \/ Compare(r) \/ Write(r)
Review(r) == BeginReview(r) \/ OpenClone(r) \/ StartWalk(r) \/ Walk(r) \/ Judge(r)

Next == (\E r \in Runs : Capture(r) \/ Review(r)) \/ ChangeClones \/ Damage

Spec == Init /\ [][Next]_vars

-----------------------------------------------------------------------------
Reviewed(r) == run[r].pc = "done" /\ Job(r) = "review"
Captured(r) == run[r].pc = "done" /\ Job(r) = "capture"

(* What a review says of the recorded commit is so: up to date only when it *)
(* was HEAD during the review; new commits only when it is behind the HEAD  *)
(* that was walked, with every commit listed that is not behind the recorded*)
(* one, unless the list says it was cut; absent only when it is not in that *)
(* history; and everything else with a gap.  Whatever is fetched, rewritten,*)
(* repacked, damaged or planted under another name (vcsdelta.go, gitlog.go).*)
DeltaIsTrue ==
    \A r \in Runs : Reviewed(r) =>
        LET anchor == run[r].anchor
            listed == Range(run[r].walk.out) IN
        /\ listed # {} => listed \subseteq Ancestors(run[r].walked)
        /\ CASE run[r].status = "up-to-date" -> anchor \in {run[r].head, run[r].walked}
             [] run[r].status = "new-commits" ->
                    /\ anchor \in Ancestors(run[r].walked)
                    /\ "truncated" \notin run[r].gaps =>
                           Ancestors(run[r].walked) \ Ancestors(anchor) \subseteq listed
             [] run[r].status = "anchor-absent" -> anchor \notin Ancestors(run[r].walked)
             [] OTHER -> run[r].gaps # {}

(* `snapshot` exits 0 only for a record that has all of it: the recipe and  *)
(* its .SRCINFO, the .BUILDINFO that ties it to what was built, its HEAD,   *)
(* remote and history up to the limit, and one upstream commit for the VCS  *)
(* source - all filed under the pkgbase they name (snapshot.go).            *)
SnapshotIsWhole ==
    \A r \in Runs : Captured(r) /\ run[r].exit = 0 =>
        LET rec == run[r].rec IN
        /\ rec.recipe # None /\ rec.srcinfo = "ok" /\ rec.built \in {"ok", "archive"}
        /\ rec.head # None /\ rec.remote # None
        /\ Len(rec.log) = MaxLog \/ \E c \in Range(rec.log) : Parents[c] = {}
        /\ Cardinality(Range(rec.upstream)) = 1

(* The newest record is the one a review starts from: it has what a capture *)
(* found that no capture stored since has replaced, however the captures    *)
(* overlap and whichever of them found the store unchanged (store.go).      *)
NewestIsRecent ==
    LET stored == {r \in Runs : Captured(r) /\ run[r].stored}
        last == {r \in stored : \A q \in stored : r \notin run[q].after} IN
    stored # {} /\ Whole = snapshots => \A s \in Latest : \E r \in last : s.rec = run[r].rec
=============================================================================
