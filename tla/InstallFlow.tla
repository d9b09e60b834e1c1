----------------------------- MODULE InstallFlow -----------------------------
(***************************************************************************)
(* `aurvet install` and `aurvet review` (cmd/aurvet/install.go, review.go) *)
(* over the approval store and the snapshots.  An install stages the       *)
(* recipes of a closure in a directory of its own, reviews each, asks,     *)
(* records the approvals, captures snapshots, verifies the staged recipes  *)
(* again and hands the directory over; a review does the second of these   *)
(* over a clone.  Another process of the same account (an editor, a        *)
(* helper) may write any of these directories between any two opens.       *)
(*                                                                         *)
(* One step is one open of a file that is read to its end, or one rename   *)
(* or other effect the process has on a shared store.  A PKGBUILD is known *)
(* by the files it names, by whether it has a VCS source and by whether a  *)
(* rule fires on it; these are functions of its contents.                  *)
(***************************************************************************)
EXTENDS ApprovalStore, Sequences

CONSTANTS
    Runs,         \* processes
    Sessions,     \* what may happen: each run's command and closure, and the
                  \* number of writes and of upsets of the stores beside them
    Staged,       \* the files a recipe can have when it is staged or cloned
    NamesOf,      \* contents of a PKGBUILD -> the files it names
    VcsTexts,     \* PKGBUILDs that name a VCS source
    HitTexts,     \* PKGBUILDs on which a rule of at least the floor fires
    MaxWrites,    \* bounds of those two numbers
    MaxUpsets

ASSUME ContentsAssumption ==
    /\ NamesOf \in [Contents -> SUBSET Files]
    /\ VcsTexts \subseteq Contents
    /\ HitTexts \subseteq Contents
    /\ Pkgbuild \notin Files
ASSUME SessionsAssumption ==
    \A s \in Sessions :
        /\ s.writes \in 0..MaxWrites /\ s.upsets \in 0..MaxUpsets
        /\ \A r \in Runs :
            LET run == s.runs[r] IN
            /\ run.command \in {"install", "review", "none"}
            /\ run.closure \in Seq(PkgBases)
            /\ CASE run.command = "install" -> Len(run.closure) > 0
                 [] run.command = "review" -> Len(run.closure) = 1
                 [] run.command = "none" -> run.closure = <<>>
ASSUME WritesAssumption == MaxWrites \in Nat /\ MaxUpsets \in Nat

VARIABLES
    session,      \* one of Sessions
    pc,           \* run -> its next step
    at,           \* run -> the recipe it is at
    left,         \* run -> the files of that recipe it has yet to read
    dir,          \* run -> position -> file -> the inode that is there, its bytes
    mtimes,       \* run -> position -> inode of a PKGBUILD -> its last write
    review,       \* run -> position -> what was established of the recipe
    verified,     \* run -> position -> what was read again before handover
    answer,       \* run -> what was typed at the prompt
    outcome,      \* run -> how it ended
    snapshots,    \* pkgbase -> the text of its newest snapshot
    writes,       \* writes the other process has made
    upsets

runVars == <<pc, at, left, review, verified, answer, outcome>>
dirVars == <<dir, mtimes>>
vars == <<session, storeVars, runVars, dirVars, snapshots, writes, upsets>>

Absent == [ino |-> 0, bytes |-> "absent"]
NoText == "none"
ASSUME NoTextAssumption == NoText \notin Contents
NoDigest == [f \in {} |-> 0]

(* text, ino and mtime are the recipe as read and the stat of the descriptor *)
(* that is kept open; digest is DigestRecipe's; told is whether a gap was    *)
(* raised for it.  digestIno is not in the program: it names the file        *)
(* DigestRecipe found under the path, for the properties to speak of.        *)
Unreviewed == [text |-> NoText, ino |-> 0, mtime |-> 0, digest |-> NoDigest,
               digestIno |-> 0, status |-> "none", told |-> FALSE, hit |-> FALSE]

Command(r) == session.runs[r].command
Closure(r) == session.runs[r].closure
Positions(r) == DOMAIN Closure(r)
Here(r) == dir[r][at[r]]
Now(r) == review[r][at[r]]
Base(r) == Closure(r)[at[r]]
Present(r, f) == Here(r)[f] # Absent

Goto(r, step) == pc' = [pc EXCEPT ![r] = step]
Note(r, change) == review' = [review EXCEPT ![r][at[r]] = change]

(* The step for the next recipe, or the one after the last. *)
NextRecipe(r, first, after) ==
    IF at[r] < Len(Closure(r))
      THEN Goto(r, first) /\ at' = [at EXCEPT ![r] = @ + 1]
      ELSE Goto(r, after) /\ at' = [at EXCEPT ![r] = 1]

AfterReview(r) == IF Command(r) = "install" THEN "ask" ELSE "render"

FilesOfInode0 ==
    {fs \in [RecipeNames -> {Absent} \union [ino : {0}, bytes : Contents]] :
        fs[Pkgbuild] # Absent}
ASSUME StagedAssumption == Staged \subseteq FilesOfInode0

-----------------------------------------------------------------------------
(* Staging.  A recipe that cannot be fetched or staged is a gap, and is not *)
(* reviewed; one that is staged has a PKGBUILD.  A clone is simply there.   *)

Stage(r) ==
    /\ pc[r] = "stage"
    /\ \/ /\ \E fs \in Staged :
              /\ dir' = [dir EXCEPT ![r][at[r]] = fs]
          /\ UNCHANGED review
       \/ /\ Command(r) = "install"
          /\ Note(r, [Now(r) EXCEPT !.told = TRUE, !.status = "skipped"])
          /\ UNCHANGED dir
    /\ NextRecipe(r, "stage", "read")
    /\ UNCHANGED <<session, storeVars, left, verified, answer, outcome,
                   mtimes, snapshots, writes, upsets>>

-----------------------------------------------------------------------------
(* reviewer.review.  A failure at any step is a gap, and the recipe is left *)
(* without a digest, so that it is neither approved nor verified later.     *)

Skip(r) ==
    /\ pc[r] = "read"
    /\ Now(r).status = "skipped"
    /\ NextRecipe(r, "read", AfterReview(r))
    /\ UNCHANGED <<session, storeVars, left, verified, answer, outcome,
                   review, dirVars, snapshots, writes, upsets>>

(* The open, the size cap, the read and the look whether the file moved      *)
(* under it; then the rules, on the bytes read.                              *)
Read(r) ==
    /\ pc[r] = "read"
    /\ Now(r).status # "skipped"
    /\ IF Present(r, Pkgbuild)
         THEN LET file == Here(r)[Pkgbuild] IN
              /\ Note(r, [Now(r) EXCEPT !.text = file.bytes, !.ino = file.ino,
                              !.mtime = mtimes[r][at[r]][file.ino],
                              !.hit = file.bytes \in HitTexts])
              /\ Goto(r, "probe")
              /\ UNCHANGED at
         ELSE /\ Note(r, [Now(r) EXCEPT !.told = TRUE])
              /\ NextRecipe(r, "read", AfterReview(r))
    /\ UNCHANGED <<session, storeVars, left, verified, answer, outcome,
                   dirVars, snapshots, writes, upsets>>

(* A file the recipe names and the directory lacks stays out of the digest, *)
(* and that is said.                                                        *)
Readable(r) == {f \in NamesOf[Now(r).text] : Present(r, f)}

(* Mutant: a missing file is left out quietly. *)
LacksNothing(r) == FALSE

Lacks(r) == Readable(r) # NamesOf[Now(r).text]

Probe(r) ==
    /\ pc[r] = "probe"
    /\ left' = [left EXCEPT ![r] = {Pkgbuild} \union Readable(r)]
    /\ Note(r, [Now(r) EXCEPT !.told = @ \/ Lacks(r)])
    /\ Goto(r, "digest")
    /\ UNCHANGED <<session, storeVars, at, verified, answer, outcome,
                   dirVars, snapshots, writes, upsets>>

(* DigestRecipe: the PKGBUILD first, each file through an open of its own. *)
NextFile(r) == IF Pkgbuild \in left[r] THEN Pkgbuild ELSE CHOOSE f \in left[r] : TRUE

With(digest, f, bytes) ==
    [g \in DOMAIN digest \union {f} |-> IF g = f THEN bytes ELSE digest[g]]

Digest(r) ==
    LET f == NextFile(r) IN
    /\ pc[r] = "digest"
    /\ left[r] # {}
    /\ IF Present(r, f)
         THEN /\ Note(r, [Now(r) EXCEPT
                     !.digest = With(@, f, Here(r)[f].bytes),
                     !.digestIno = IF f = Pkgbuild THEN Here(r)[f].ino ELSE @])
              /\ left' = [left EXCEPT ![r] = @ \ {f}]
              /\ UNCHANGED <<session, pc, at>>
         ELSE /\ Note(r, [Now(r) EXCEPT !.told = TRUE, !.digest = NoDigest])
              /\ left' = [left EXCEPT ![r] = {}]
              /\ NextRecipe(r, "read", AfterReview(r))
    /\ UNCHANGED <<session, storeVars, verified, answer, outcome, dirVars,
                   snapshots, writes, upsets>>

(* The text an approval of `digest` was given for, when the newest snapshot *)
(* still holds it.                                                          *)
ApprovedText(p, digest) ==
    IF snapshots[p] = digest[Pkgbuild] THEN snapshots[p] ELSE NoText

(* A PKGBUILD that changed since its approval is shown as a line diff, or it *)
(* is said that it cannot be.                                                *)
DiffIsLimited(r) ==
    LET p == Base(r) IN
    /\ Status(p, Now(r).digest) = "recipe-changed"
    /\ approvals[p].digest[Pkgbuild] # Now(r).digest[Pkgbuild]
    /\ ApprovedText(p, approvals[p].digest) = NoText

(* vcsDelta: beside a staged recipe there is no checkout, so the commits of *)
(* a VCS source are a gap; a clone may have one, and what ReviewDelta says  *)
(* of it is a gap, a finding or nothing.                                    *)
DeltaResults(r) ==
    IF Now(r).text \notin VcsTexts THEN {"nothing"}
    ELSE IF Command(r) = "install" THEN {"gap"}
    ELSE {"gap", "finding", "nothing"}

Lookup(r) ==
    LET status == Status(Base(r), Now(r).digest) IN
    /\ pc[r] = "digest"
    /\ left[r] = {}
    /\ \E delta \in DeltaResults(r) :
          Note(r, [Now(r) EXCEPT !.status = status,
                      !.told = \/ @
                               \/ status = "could-not-determine"
                               \/ DiffIsLimited(r)
                               \/ delta = "gap",
                      !.hit = @ \/ delta = "finding"])
    /\ NextRecipe(r, "read", AfterReview(r))
    /\ UNCHANGED <<session, storeVars, left, verified, answer, outcome,
                   dirVars, snapshots, writes, upsets>>

Told(r) == \E i \in Positions(r) : review[r][i].told
Hit(r) == \E i \in Positions(r) : review[r][i].hit

(* report.ExitCode *)
ExitCode(told, hit) == IF told THEN 3 ELSE IF hit THEN 1 ELSE 0

Render(r) ==
    /\ pc[r] = "render"
    /\ Goto(r, "end")
    /\ outcome' = [outcome EXCEPT
          ![r] = [kind |-> "reviewed", exit |-> ExitCode(Told(r), Hit(r))]]
    /\ UNCHANGED <<session, storeVars, at, left, review, verified, answer,
                   dirVars, snapshots, writes, upsets>>

(* Mutant: the answer is not looked at. *)
AfterAnyAnswer(yes) == "approve"

-----------------------------------------------------------------------------
(* The prompt.  Anything but "yes", the end of the input too, declines. *)

AfterAnswer(yes) == IF yes THEN "approve" ELSE "end"

Ask(r) ==
    /\ pc[r] = "ask"
    /\ \E yes \in BOOLEAN :
          /\ answer' = [answer EXCEPT ![r] = IF yes THEN "yes" ELSE "no"]
          /\ Goto(r, AfterAnswer(yes))
          /\ outcome' = IF AfterAnswer(yes) = "end"
               THEN [outcome EXCEPT ![r] = [kind |-> "declined",
                        exit |-> IF Told(r) THEN 3 ELSE 1]]
               ELSE outcome
    /\ UNCHANGED <<session, storeVars, at, left, review, verified, dirVars,
                   snapshots, writes, upsets>>

(* An approval that cannot be recorded is a line on stderr and no more. *)
Record(r) ==
    /\ pc[r] = "approve"
    /\ IF Now(r).digest = NoDigest
         THEN UNCHANGED storeVars
         ELSE Approve(Base(r), Now(r).digest) \/ ApproveFails
    /\ NextRecipe(r, "approve", "capture")
    /\ UNCHANGED <<session, left, review, verified, answer, outcome,
                   dirVars, snapshots, writes, upsets>>

(* snapshot.Capture reads the staged PKGBUILD once more, and Save writes what *)
(* it read unless the newest record says the same, or the store refuses.      *)
Capture(r) ==
    /\ pc[r] = "capture"
    /\ IF Now(r).status = "skipped"
         THEN UNCHANGED snapshots
         ELSE snapshots' \in
                {snapshots, [snapshots EXCEPT ![Base(r)] =
                    IF Present(r, Pkgbuild) THEN Here(r)[Pkgbuild].bytes ELSE NoText]}
    /\ NextRecipe(r, "capture", "verify")
    /\ UNCHANGED <<session, storeVars, left, review, verified, answer,
                   outcome, dirVars, writes, upsets>>

-----------------------------------------------------------------------------
(* verifyUnchanged, for each recipe with a digest: the descriptor the text  *)
(* was read from still describes the same file, and the paths still lead to *)
(* the bytes that were digested.                                            *)

(* Mutant: the descriptor is not asked. *)
DescriptorNotAsked(r) == TRUE

(* fsx.Unchanged on the retained descriptor.  It is the inode that is asked, *)
(* whatever its path leads to by now.                                        *)
DescriptorUnchanged(r) == mtimes[r][at[r]][Now(r).ino] = Now(r).mtime

Verify(r) ==
    /\ pc[r] = "verify"
    /\ IF Now(r).digest # NoDigest /\ DescriptorUnchanged(r)
         THEN /\ left' = [left EXCEPT ![r] = DOMAIN Now(r).digest]
              /\ Goto(r, "again")
              /\ UNCHANGED at
         ELSE UNCHANGED left /\ NextRecipe(r, "verify", "handover")
    /\ UNCHANGED <<session, storeVars, review, verified, answer, outcome,
                   dirVars, snapshots, writes, upsets>>

Again(r) ==
    LET f == NextFile(r) IN
    /\ pc[r] = "again"
    /\ IF left[r] # {} /\ Present(r, f)
         THEN /\ verified' = [verified EXCEPT
                    ![r][at[r]] = With(@, f, Here(r)[f].bytes)]
              /\ left' = [left EXCEPT ![r] = @ \ {f}]
              /\ UNCHANGED <<session, pc, at>>
         ELSE /\ left' = [left EXCEPT ![r] = {}]
              /\ UNCHANGED verified
              /\ NextRecipe(r, "verify", "handover")
    /\ UNCHANGED <<session, storeVars, review, answer, outcome, dirVars,
                   snapshots, writes, upsets>>

(* The digests agree; a recipe without one was not verified. *)
RecipeUnchanged(r, i) == verified[r][i] = review[r][i].digest

(* An install that hands over ends in 3 all the same: that .BUILDINFO is out *)
(* of its reach is a gap of every install.                                   *)
HandOver(r) ==
    /\ pc[r] = "handover"
    /\ Goto(r, "end")
    /\ outcome' = [outcome EXCEPT ![r] =
          [kind |-> IF \A i \in Positions(r) : RecipeUnchanged(r, i)
                      THEN "handed over" ELSE "refused",
           exit |-> 3]]
    /\ UNCHANGED <<session, storeVars, at, left, review, verified, answer,
                   dirVars, snapshots, writes, upsets>>

-----------------------------------------------------------------------------
(* Everything else: the process that writes the directory, in place or by   *)
(* renaming a new file over the old, or removing it; records damaged; a     *)
(* `snapshot` of another clone.  A write in place moves the time of a file. *)

WriteFile(r, i, f) ==
    LET old == dir[r][i][f]
        time == writes + 1 IN
    /\ writes < session.writes
    /\ pc[r] \notin {"stage", "end"}
    /\ writes' = time
    /\ \E new \in {Absent} \union [ino : {old.ino, time}, bytes : Contents] :
          /\ new # old
          /\ old = Absent => new.ino = time
          /\ dir' = [dir EXCEPT ![r][i][f] = new]
          /\ mtimes' = IF f = Pkgbuild /\ new # Absent
                         THEN [mtimes EXCEPT ![r][i][new.ino] = time]
                         ELSE mtimes
    /\ UNCHANGED <<session, storeVars, runVars, snapshots, upsets>>

Upset ==
    /\ upsets < session.upsets
    /\ upsets' = upsets + 1
    /\ \/ /\ \/ \E p \in PkgBases : Damage(p) \/ Revoke(p)
             \/ ChangeMode
          /\ UNCHANGED snapshots
       \/ /\ \E p \in PkgBases, t \in Contents : snapshots' = [snapshots EXCEPT ![p] = t]
          /\ UNCHANGED storeVars
    /\ UNCHANGED <<session, runVars, dirVars, writes>>

-----------------------------------------------------------------------------

Init ==
    /\ StoreInit
    /\ session \in Sessions
    /\ pc = [r \in Runs |-> IF Command(r) = "none" THEN "end" ELSE "stage"]
    /\ at = [r \in Runs |-> 1]
    /\ left = [r \in Runs |-> {}]
    /\ dir = [r \in Runs |-> [i \in Positions(r) |-> [f \in RecipeNames |-> Absent]]]
    /\ mtimes = [r \in Runs |-> [i \in Positions(r) |-> [n \in 0..MaxWrites |-> 0]]]
    /\ review = [r \in Runs |-> [i \in Positions(r) |-> Unreviewed]]
    /\ verified = [r \in Runs |-> [i \in Positions(r) |-> NoDigest]]
    /\ answer = [r \in Runs |-> "none"]
    /\ outcome = [r \in Runs |-> [kind |-> "none", exit |-> 0]]
    /\ snapshots = [p \in PkgBases |-> NoText]
    /\ writes = 0
    /\ upsets = 0

Step(r) ==
    \/ Stage(r) \/ Skip(r) \/ Read(r) \/ Probe(r) \/ Digest(r) \/ Lookup(r)
    \/ Render(r) \/ Ask(r) \/ Record(r) \/ Capture(r)
    \/ Verify(r) \/ Again(r) \/ HandOver(r)

Next ==
    \/ \E r \in Runs : Step(r)
    \/ \E r \in Runs : \E i \in Positions(r), f \in RecipeNames : WriteFile(r, i, f)
    \/ Upset

Spec == Init /\ [][Next]_vars

-----------------------------------------------------------------------------
(* Properties *)

(* What a directory that was handed over may rest on (install.go:25-33,       *)
(* review.go:357-360): for each recipe with a digest the files read again     *)
(* have the bytes that were digested, the PKGBUILD that was digested is the   *)
(* text the reader was shown unless another file was put under its name       *)
(* between the two opens, and a file the recipe names but the digest lacks    *)
(* was told; a recipe without a digest was told.                              *)
HandedIsShownOrTold ==
    \A r \in Runs : outcome[r].kind = "handed over" =>
        \A i \in Positions(r) :
            LET given == review[r][i] IN
            IF given.digest = NoDigest THEN given.told
            ELSE /\ verified[r][i] = given.digest
                 /\ given.digestIno = given.ino => given.digest[Pkgbuild] = given.text
                 /\ given.told \/ NamesOf[given.text] \subseteq DOMAIN given.digest

(* Whatever damages the store, moves under the review or races with it, a     *)
(* record of an approval is the digest of a recipe that some run showed to    *)
(* somebody who answered yes (install.go:434-475).                            *)
ApprovedWasShown ==
    \A p \in PkgBases : approvals[p].kind = "approval" =>
        \E r \in Runs : \E i \in Positions(r) :
            /\ answer[r] = "yes"
            /\ Closure(r)[i] = p
            /\ approvals[p].digest = review[r][i].digest

(* A review that ends in 0 read the PKGBUILD, no rule fired on what it read,  *)
(* digested every file it names and had an answer from the store: nothing it  *)
(* could not establish is silent (review.go:385-503).                         *)
CleanReviewIsWhole ==
    \A r \in Runs : outcome[r] = [kind |-> "reviewed", exit |-> 0] =>
        LET got == review[r][1] IN
        /\ got.text \in Contents \ HitTexts
        /\ DOMAIN got.digest = {Pkgbuild} \union NamesOf[got.text]
        /\ got.status \in Statuses \ {"could-not-determine"}

(* review.go:357-360 and install.go:25-33 say more: that the bytes handed     *)
(* over are the bytes that were reviewed.                                     *)
(* TLC refutes it (README, section 6).                                       *)
HandedIsShown ==
    \A r \in Runs : outcome[r].kind = "handed over" =>
        \A i \in Positions(r) :
            review[r][i].digest # NoDigest =>
                review[r][i].digest[Pkgbuild] = review[r][i].text
=============================================================================
