----------------------------- MODULE GateProofs -----------------------------
(***************************************************************************)
(* Proofs about what installs and reviews hand over, for any number of     *)
(* them, any closures and recipes, and any number of writes beside them;   *)
(* and about the walk that finds a closure, for any recipes, repositories, *)
(* bounds and answers of the AUR.                                          *)
(*                                                                         *)
(* The invariant of InstallFlow says of every recipe of every run how far  *)
(* its review is and what is established by then: before it, nothing;      *)
(* during it, which files are digested and which are left; after it, that  *)
(* what is not told is whole. The link between the text that was shown and *)
(* the bytes that were digested is the time of the last write: as long as  *)
(* the inode that was read has the time it had then, it still has that     *)
(* text. The invariant of ClosureWalk says what a walk without a gap has   *)
(* found out: where every name it met belongs, and of every dependency of  *)
(* a recipe that it is placed or still to come.                            *)
(***************************************************************************)
EXTENDS InstallFlow, ClosureWalk, Induction, SequenceTheorems, TLAPS

\* The steps before a run has reviewed all its recipes, and those after yes.
Early == {"stage", "read", "probe", "digest"}
Late == {"approve", "capture", "verify", "again", "handover", "end"}
Pcs == Early \cup Late \cup {"ask", "render"}

File == {Absent} \cup [ino : 0..writes, bytes : Contents]

Fields == {"text", "ino", "mtime", "digest", "digestIno", "status", "told", "hit"}

Base0 ==
    /\ session \in Sessions
    /\ writes \in 0..MaxWrites
    /\ DOMAIN pc = Runs /\ DOMAIN at = Runs /\ DOMAIN left = Runs
    /\ DOMAIN dir = Runs /\ DOMAIN mtimes = Runs
    /\ DOMAIN review = Runs /\ DOMAIN verified = Runs
    /\ DOMAIN answer = Runs /\ DOMAIN outcome = Runs
    /\ DOMAIN approvals = PkgBases

RunTyped(r) ==
    /\ pc[r] \in Pcs
    /\ pc[r] # "end" => at[r] \in Positions(r)
    /\ DOMAIN dir[r] = Positions(r) /\ DOMAIN mtimes[r] = Positions(r)
    /\ DOMAIN review[r] = Positions(r) /\ DOMAIN verified[r] = Positions(r)
    /\ \A i \in Positions(r) :
           /\ dir[r][i] \in [RecipeNames -> File]
           /\ mtimes[r][i] \in [0..MaxWrites -> 0..writes]
           /\ Fields \subseteq DOMAIN review[r][i]
           /\ review[r][i].ino \in 0..writes
           /\ review[r][i].mtime \in 0..writes

\* The review of recipe i is over; it is going on; it has not begun.
Past(r, i) == pc[r] \notin Early \/ (pc[r] \in {"read", "probe", "digest"} /\ i < at[r])
Doing(r, i) == pc[r] \in {"probe", "digest"} /\ i = at[r]

BeforeInv(r, i) ==
    /\ pc[r] \in Early => verified[r][i] = NoDigest
    /\ ~Past(r, i) /\ ~(pc[r] = "digest" /\ i = at[r]) => review[r][i].digest = NoDigest
    /\ ~Past(r, i) /\ ~Doing(r, i) =>
           review[r][i].text = NoText /\ (review[r][i].status = "skipped" => review[r][i].told)

DoingInv(r, i) ==
    Doing(r, i) =>
        /\ review[r][i].text \in Contents
        /\ review[r][i].text \in HitTexts => review[r][i].hit
        /\ pc[r] = "digest" =>
               /\ Pkgbuild \in DOMAIN review[r][i].digest \cup left[r]
               /\ DOMAIN review[r][i].digest \cup left[r] \subseteq {Pkgbuild} \cup NamesOf[review[r][i].text]
               /\ review[r][i].told \/ NamesOf[review[r][i].text] \subseteq DOMAIN review[r][i].digest \cup left[r]

WholeReview(g) ==
    /\ g.text \in Contents
    /\ g.text \in HitTexts => g.hit
    /\ DOMAIN g.digest = {Pkgbuild} \cup NamesOf[g.text]
    /\ g.status \in Statuses \ {"could-not-determine"}

PastInv(r, i) ==
    Past(r, i) =>
        /\ review[r][i].digest # NoDigest => Pkgbuild \in DOMAIN review[r][i].digest
        /\ review[r][i].told \/ WholeReview(review[r][i])

\* The bytes that were digested are those that were shown, if they come from
\* the file that was shown.
Shown(g) == g.digestIno = g.ino /\ Pkgbuild \in DOMAIN g.digest => g.digest[Pkgbuild] = g.text

TextInv(r, i) ==
    mtimes[r][i][review[r][i].ino] = review[r][i].mtime =>
        /\ /\ review[r][i].text # NoText
           /\ dir[r][i][Pkgbuild] # Absent
           /\ dir[r][i][Pkgbuild].ino = review[r][i].ino
           => dir[r][i][Pkgbuild].bytes = review[r][i].text
        /\ Shown(review[r][i])

VerifiedInv(r, i) ==
    verified[r][i] # NoDigest \/ (pc[r] = "again" /\ i = at[r]) => Shown(review[r][i])

Recipe(r, i) ==
    BeforeInv(r, i) /\ DoingInv(r, i) /\ PastInv(r, i) /\ TextInv(r, i) /\ VerifiedInv(r, i)

\* What a run that ended has to show for it, and what yes has led to.
EndInv(r) ==
    /\ outcome[r].kind = "handed over" =>
           pc[r] = "end" /\ \A i \in Positions(r) : verified[r][i] = review[r][i].digest
    /\ outcome[r] = [kind |-> "reviewed", exit |-> 0] =>
           /\ pc[r] = "end" /\ 1 \in Positions(r)
           /\ \A i \in Positions(r) : ~review[r][i].told /\ ~review[r][i].hit

AnswerInv(r) ==
    /\ answer[r] = "yes" => pc[r] \in Late
    /\ pc[r] = "approve" => answer[r] = "yes"

Own(r) == RunTyped(r) /\ (\A i \in Positions(r) : Recipe(r, i)) /\ EndInv(r) /\ AnswerInv(r)

IInv == Base0 /\ (\A r \in Runs : Own(r)) /\ ApprovedWasShown

-----------------------------------------------------------------------------
(* Frames.                                                                 *)

\* Only r moves; nothing is written beside it.
Alone(r) ==
    /\ UNCHANGED <<session, mtimes, writes>>
    /\ DOMAIN pc' = Runs /\ DOMAIN at' = Runs /\ DOMAIN left' = Runs
    /\ DOMAIN dir' = Runs /\ DOMAIN review' = Runs /\ DOMAIN verified' = Runs
    /\ DOMAIN answer' = Runs /\ DOMAIN outcome' = Runs
    /\ \A q \in Runs \ {r} :
           /\ pc'[q] = pc[q] /\ at'[q] = at[q] /\ left'[q] = left[q] /\ dir'[q] = dir[q]
           /\ review'[q] = review[q] /\ verified'[q] = verified[q]
           /\ answer'[q] = answer[q] /\ outcome'[q] = outcome[q]

LEMMA PositionsAre ==
    ASSUME session \in Sessions, NEW r \in Runs
    PROVE  Closure(r) \in Seq(PkgBases) /\ Len(Closure(r)) \in Nat /\ Positions(r) = 1..Len(Closure(r))
<1>1. Closure(r) \in Seq(PkgBases)
  BY SessionsAssumption DEF Closure
<1>2. QED
  BY <1>1 DEF Positions

\* What is not moved keeps its own.
LEMMA OthersKeep ==
    ASSUME IInv, NEW r \in Runs, NEW q \in Runs \ {r}, Alone(r)
    PROVE  Own(q)'
<1>1. Own(q)
  BY DEF IInv
<1>2. Positions(q)' = Positions(q) /\ File' = File
  BY DEF Alone, Positions, Closure, File
<1>3. /\ pc'[q] = pc[q] /\ at'[q] = at[q] /\ left'[q] = left[q] /\ dir'[q] = dir[q]
      /\ review'[q] = review[q] /\ verified'[q] = verified[q]
      /\ answer'[q] = answer[q] /\ outcome'[q] = outcome[q] /\ mtimes'[q] = mtimes[q] /\ writes' = writes
  BY DEF Alone
<1>4. RunTyped(q)'
  BY <1>1, <1>2, <1>3 DEF Own, RunTyped
<1>5. ASSUME NEW i \in Positions(q) PROVE Recipe(q, i)'
  BY <1>1, <1>3, <1>5 DEF Own, Recipe, BeforeInv, DoingInv, PastInv, TextInv, VerifiedInv, Past, Doing
<1>6. EndInv(q)' /\ AnswerInv(q)'
  BY <1>1, <1>2, <1>3 DEF Own, EndInv, AnswerInv
<1>7. QED
  BY <1>2, <1>4, <1>5, <1>6 DEF Own

\* A step of r that keeps r's own part, and what an answer of yes rests on.
LEMMA StepOf ==
    ASSUME IInv, NEW r \in Runs, Alone(r), UNCHANGED approvals,
           answer[r] = "yes" => answer'[r] = "yes" /\ review'[r] = review[r],
           Own(r)'
    PROVE  IInv'
<1>1. Base0'
  BY DEF IInv, Base0, Alone
<1>2. \A q \in Runs : Own(q)'
  BY OthersKeep
<1>3. \A q \in Runs : Closure(q)' = Closure(q) /\ Positions(q)' = Positions(q)
  BY DEF Alone, Closure, Positions
<1>4. ApprovedWasShown'
  <2>1. SUFFICES ASSUME NEW p \in PkgBases, approvals[p].kind = "approval"
                 PROVE  \E q \in Runs : \E i \in Positions(q) :
                            answer'[q] = "yes" /\ Closure(q)[i] = p /\ approvals[p].digest = review'[q][i].digest
    BY <1>3 DEF ApprovedWasShown
  <2>2. PICK q \in Runs : \E i \in Positions(q) :
            answer[q] = "yes" /\ Closure(q)[i] = p /\ approvals[p].digest = review[q][i].digest
    BY <2>1 DEF IInv, ApprovedWasShown
  <2>3. answer'[q] = "yes" /\ review'[q] = review[q]
    BY <2>2 DEF Alone
  <2>4. QED
    BY <2>2, <2>3
<1>5. QED
  BY <1>1, <1>2, <1>4 DEF IInv

LEMMA NextIs ==
    ASSUME IInv, NEW r \in Runs, pc[r] # "end", NEW step, NEW after, NextRecipe(r, step, after)
    PROVE  /\ DOMAIN pc' = Runs /\ DOMAIN at' = Runs
           /\ \A q \in Runs \ {r} : pc'[q] = pc[q] /\ at'[q] = at[q]
           /\ at'[r] \in Positions(r)
           /\ \/ pc'[r] = step /\ at'[r] = at[r] + 1
              \/ pc'[r] = after /\ at[r] = Len(Closure(r)) /\ at'[r] = 1
<1>1. at[r] \in Positions(r) /\ session \in Sessions
  BY DEF IInv, Base0, Own, RunTyped
<1>2. Positions(r) = 1..Len(Closure(r)) /\ Len(Closure(r)) \in Nat
  BY <1>1, PositionsAre
<1>3. DOMAIN pc = Runs /\ DOMAIN at = Runs
  BY DEF IInv, Base0
<1>4. CASE at[r] < Len(Closure(r))
  BY <1>1, <1>2, <1>3, <1>4 DEF NextRecipe, Goto
<1>5. CASE ~(at[r] < Len(Closure(r)))
  BY <1>1, <1>2, <1>3, <1>5 DEF NextRecipe, Goto
<1>6. QED
  BY <1>4, <1>5

\* g is what is known of the recipe r is at, and no more has changed.
Noted(r, g) ==
    /\ DOMAIN review' = Runs
    /\ \A q \in Runs \ {r} : review'[q] = review[q]
    /\ DOMAIN review'[r] = Positions(r)
    /\ review'[r][at[r]] = g
    /\ \A i \in Positions(r) \ {at[r]} : review'[r][i] = review[r][i]

LEMMA NoteIs ==
    ASSUME IInv, NEW r \in Runs, pc[r] # "end", NEW g, Note(r, g)
    PROVE  Noted(r, g)
BY DEF IInv, Base0, Own, RunTyped, Note, Noted

LEMMA UnnotedIs ==
    ASSUME IInv, NEW r \in Runs, pc[r] # "end", UNCHANGED review
    PROVE  Noted(r, review[r][at[r]])
BY DEF IInv, Base0, Own, RunTyped, Noted

\* The review of a recipe ends, and the run goes on to the next or to what
\* comes after the last.
LEMMA Ends ==
    ASSUME IInv, NEW r \in Runs, pc[r] \in {"read", "digest"}, Alone(r),
           NextRecipe(r, "read", AfterReview(r)), NEW g, Noted(r, g),
           dir'[r] = dir[r], verified'[r] = verified[r],
           answer'[r] = answer[r], outcome'[r] = outcome[r],
           Fields \subseteq DOMAIN g,
           g.ino = review[r][at[r]].ino, g.mtime = review[r][at[r]].mtime, g.text = review[r][at[r]].text,
           g.digest = NoDigest \/ (/\ g.digest = review[r][at[r]].digest
                                   /\ g.digestIno = review[r][at[r]].digestIno
                                   /\ Pkgbuild \in DOMAIN g.digest),
           g.told \/ WholeReview(g)
    PROVE  Own(r)'
<1>1. Own(r) /\ RunTyped(r) /\ pc[r] \in Early /\ at[r] \in Positions(r)
  BY DEF IInv, Own, RunTyped, Early
<1>2. Positions(r)' = Positions(r) /\ File' = File /\ mtimes' = mtimes /\ writes' = writes
  BY DEF Alone, Positions, Closure, File
<1>3. /\ at'[r] \in Positions(r)
      /\ \/ pc'[r] = "read" /\ at'[r] = at[r] + 1
         \/ pc'[r] \in {"ask", "render"} /\ at[r] = Len(Closure(r))
  BY NextIs DEF AfterReview
<1>4. Positions(r) = 1..Len(Closure(r)) /\ Len(Closure(r)) \in Nat
  BY PositionsAre DEF IInv, Base0
<1>5. RunTyped(r)'
  <2>1. pc'[r] \in Pcs
    BY <1>3 DEF Pcs, Early
  <2>2. ASSUME NEW i \in Positions(r)
        PROVE  /\ Fields \subseteq DOMAIN review'[r][i]
               /\ review'[r][i].ino \in 0..writes /\ review'[r][i].mtime \in 0..writes
    BY <1>1, <2>2 DEF Noted, RunTyped
  <2>3. QED
    BY <1>1, <1>2, <1>3, <2>1, <2>2 DEF RunTyped, Noted
<1>6. ASSUME NEW i \in Positions(r) PROVE Recipe(r, i)'
  <2>1. i = at[r] => Past(r, i)'
    BY <1>1, <1>3, <1>4, <1>6 DEF Past, Early
  <2>2. i # at[r] => (Past(r, i)' <=> Past(r, i))
    BY <1>1, <1>3, <1>4, <1>6 DEF Past, Early
  <2>3. ~Doing(r, i)' /\ pc'[r] \notin {"probe", "digest", "again"}
    BY <1>3 DEF Doing
  <2>4. Recipe(r, i)
    BY <1>1, <1>6 DEF Own
  <2>5. DOMAIN NoDigest = {}
    BY DEF NoDigest
  <2>6. CASE i = at[r]
    <3>1. review'[r][i] = g
      BY <2>6 DEF Noted
    <3>2. BeforeInv(r, i)'
      BY <1>1, <2>1, <2>4, <2>6 DEF BeforeInv, Recipe
    <3>3. PastInv(r, i)'
      BY <2>5, <3>1 DEF PastInv
    <3>4. TextInv(r, i)'
      BY <1>2, <2>4, <2>5, <2>6, <3>1 DEF TextInv, Recipe, Shown
    <3>5. VerifiedInv(r, i)'
      BY <1>1, <2>3, <2>4 DEF VerifiedInv, Recipe, BeforeInv
    <3>6. QED
      BY <2>3, <3>2, <3>3, <3>4, <3>5 DEF Recipe, DoingInv
  <2>7. CASE i # at[r]
    <3>1. review'[r][i] = review[r][i]
      BY <1>6, <2>7 DEF Noted
    <3>2. ~Doing(r, i)
      BY <2>7 DEF Doing
    <3>3. BeforeInv(r, i)'
      BY <1>1, <2>2, <2>4, <2>7, <3>1, <3>2 DEF BeforeInv, Recipe
    <3>4. PastInv(r, i)'
      BY <2>2, <2>4, <2>7, <3>1 DEF PastInv, Recipe
    <3>5. TextInv(r, i)'
      BY <1>2, <2>4, <3>1 DEF TextInv, Recipe
    <3>6. VerifiedInv(r, i)'
      BY <1>1, <2>3, <2>4 DEF VerifiedInv, Recipe, BeforeInv
    <3>7. QED
      BY <2>3, <3>3, <3>4, <3>5, <3>6 DEF Recipe, DoingInv
  <2>8. QED
    BY <2>6, <2>7
<1>7. EndInv(r)' /\ AnswerInv(r)'
  BY <1>1, <1>3 DEF Own, EndInv, AnswerInv, Early, Late
<1>8. QED
  BY <1>2, <1>5, <1>6, <1>7 DEF Own

-----------------------------------------------------------------------------
(* The review of one recipe.                                               *)

\* What is known of a run that is at a recipe it has not reviewed yet.
LEMMA AtEarly ==
    ASSUME IInv, NEW r \in Runs, pc[r] \in Early
    PROVE  /\ Own(r) /\ RunTyped(r) /\ Recipe(r, at[r])
           /\ at[r] \in Positions(r) /\ ~Past(r, at[r])
           /\ answer[r] # "yes"
<1>1. Own(r) /\ RunTyped(r) /\ at[r] \in Positions(r)
  BY DEF IInv, Own, RunTyped, Early
<1>2. Positions(r) = 1..Len(Closure(r)) /\ Len(Closure(r)) \in Nat
  BY PositionsAre DEF IInv, Base0
<1>3. ~Past(r, at[r])
  BY <1>1, <1>2 DEF Past
<1>4. QED
  BY <1>1, <1>3 DEF Own, AnswerInv, Early, Late

LEMMA SkipStep == ASSUME IInv, NEW r \in Runs, Skip(r) PROVE IInv'
<1>1. /\ pc[r] = "read" /\ review[r][at[r]].status = "skipped"
      /\ NextRecipe(r, "read", AfterReview(r))
      /\ UNCHANGED <<session, approvals, left, verified, answer, outcome, review, dir, mtimes, writes>>
  BY DEF Skip, Now, storeVars, dirVars
<1>2. Alone(r)
  BY <1>1, NextIs DEF Alone, IInv, Base0
<1>3. Noted(r, review[r][at[r]])
  BY <1>1, UnnotedIs
<1>4. /\ Fields \subseteq DOMAIN review[r][at[r]] /\ review[r][at[r]].digest = NoDigest
      /\ review[r][at[r]].told
  BY <1>1, AtEarly DEF RunTyped, Recipe, BeforeInv, Doing, Early
<1>5. Own(r)'
  BY <1>1, <1>2, <1>3, <1>4, Ends
<1>6. QED
  BY <1>1, <1>2, <1>5, StepOf

\* The review of a recipe goes on: what there is to show of it is that its own
\* part holds.
LEMMA GoesOn ==
    ASSUME IInv, NEW r \in Runs, pc[r] \in {"read", "probe", "digest"}, Alone(r),
           pc'[r] \in {"probe", "digest"}, at'[r] = at[r], NEW g, Noted(r, g),
           dir'[r] = dir[r], verified'[r] = verified[r],
           answer'[r] = answer[r], outcome'[r] = outcome[r],
           Fields \subseteq DOMAIN g, g.ino \in 0..writes, g.mtime \in 0..writes,
           Recipe(r, at[r])'
    PROVE  Own(r)'
<1>1. Own(r) /\ RunTyped(r) /\ pc[r] \in Early /\ pc'[r] \in Early /\ at[r] \in Positions(r)
  BY DEF IInv, Own, RunTyped, Early
<1>2. Positions(r)' = Positions(r) /\ File' = File /\ mtimes' = mtimes /\ writes' = writes
  BY DEF Alone, Positions, Closure, File
<1>3. RunTyped(r)'
  <2>1. ASSUME NEW i \in Positions(r)
        PROVE  /\ Fields \subseteq DOMAIN review'[r][i]
               /\ review'[r][i].ino \in 0..writes /\ review'[r][i].mtime \in 0..writes
    BY <1>1, <2>1 DEF Noted, RunTyped
  <2>2. QED
    BY <1>1, <1>2, <2>1 DEF RunTyped, Noted, Pcs, Early
<1>4. ASSUME NEW i \in Positions(r) \ {at[r]} PROVE Recipe(r, i)'
  <2>1. Recipe(r, i) /\ review'[r][i] = review[r][i]
    BY <1>1, <1>4 DEF Own, Noted
  <2>2. ~Doing(r, i)' /\ ~Doing(r, i) /\ (Past(r, i)' <=> Past(r, i))
    BY <1>1, <1>4 DEF Past, Doing, Early
  <2>3. BeforeInv(r, i)'
    BY <1>1, <1>4, <2>1, <2>2 DEF BeforeInv, Recipe, Early
  <2>4. PastInv(r, i)' /\ TextInv(r, i)'
    BY <1>2, <2>1, <2>2 DEF PastInv, TextInv, Recipe
  <2>5. VerifiedInv(r, i)'
    BY <1>1, <2>1 DEF VerifiedInv, Recipe
  <2>6. QED
    BY <2>2, <2>3, <2>4, <2>5 DEF Recipe, DoingInv
<1>5. EndInv(r)' /\ AnswerInv(r)'
  BY <1>1 DEF Own, EndInv, AnswerInv, Early, Late
<1>6. QED
  BY <1>2, <1>3, <1>4, <1>5 DEF Own

LEMMA ReadStep == ASSUME IInv, NEW r \in Runs, Read(r) PROVE IInv'
<1>1. /\ pc[r] = "read"
      /\ UNCHANGED <<session, approvals, left, verified, answer, outcome, dir, mtimes, writes>>
  BY DEF Read, Now, storeVars, dirVars
<1>2. /\ Own(r) /\ RunTyped(r) /\ Recipe(r, at[r]) /\ at[r] \in Positions(r)
      /\ answer[r] # "yes" /\ ~Past(r, at[r])
  BY <1>1, AtEarly DEF Early
<1>3. review[r][at[r]].digest = NoDigest /\ DOMAIN NoDigest = {}
  BY <1>1, <1>2 DEF Recipe, BeforeInv, NoDigest
<1>4. CASE ~Present(r, Pkgbuild)
  <2> DEFINE g == [review[r][at[r]] EXCEPT !.told = TRUE]
  <2>1. Note(r, g) /\ NextRecipe(r, "read", AfterReview(r))
    BY <1>4 DEF Read, Now
  <2>2. /\ Fields \subseteq DOMAIN g /\ g.told /\ g.digest = NoDigest
        /\ g.ino = review[r][at[r]].ino /\ g.mtime = review[r][at[r]].mtime
        /\ g.text = review[r][at[r]].text
    BY <1>2, <1>3 DEF RunTyped, Fields
  <2> HIDE DEF g
  <2>3. Alone(r) /\ Noted(r, g)
    BY <1>1, <2>1, NextIs, NoteIs DEF Alone, Noted, IInv, Base0
  <2>4. Own(r)'
    BY <1>1, <2>1, <2>2, <2>3, Ends
  <2>5. QED
    BY <1>1, <1>2, <2>3, <2>4, StepOf
<1>5. CASE Present(r, Pkgbuild)
  <2> DEFINE file == dir[r][at[r]][Pkgbuild]
             hit == file.bytes \in HitTexts
             g == [review[r][at[r]] EXCEPT !.text = file.bytes, !.ino = file.ino,
                       !.mtime = mtimes[r][at[r]][file.ino], !.hit = hit]
  <2>1. /\ Note(r, g) /\ pc' = [pc EXCEPT ![r] = "probe"] /\ UNCHANGED at
    BY <1>5, Zenon DEF Read, Now, Here, Goto
  <2>2. file \in [ino : 0..writes, bytes : Contents] /\ file # Absent
    BY <1>2, <1>5 DEF RunTyped, File, Present, Here, RecipeNames
  <2>3. mtimes[r][at[r]][file.ino] \in 0..writes
    <3>1. file.ino \in 0..MaxWrites
      BY <2>2, WritesAssumption DEF IInv, Base0
    <3>2. QED
      BY <1>2, <3>1 DEF RunTyped
  <2> HIDE DEF hit
  <2>4. /\ Fields \subseteq DOMAIN g /\ g.hit = hit /\ g.digest = NoDigest
        /\ g.text = file.bytes /\ g.ino = file.ino /\ g.mtime = mtimes[r][at[r]][file.ino]
    BY <1>2, <1>3 DEF RunTyped, Fields
  <2>5. hit <=> file.bytes \in HitTexts
    BY DEF hit
  <2> HIDE DEF g
  <2>6. Noted(r, g)
    BY <1>1, <2>1, NoteIs
  <2>7. Alone(r) /\ pc'[r] = "probe" /\ at'[r] = at[r]
    BY <1>1, <2>1, <2>6 DEF Alone, Noted, IInv, Base0
  <2>8. Recipe(r, at[r])'
    <3>1. review'[r][at[r]] = g
      BY <2>6 DEF Noted
    <3>2. ~Past(r, at[r])' /\ Doing(r, at[r])' /\ pc'[r] \in Early
      BY <1>1, <1>2, <2>7 DEF Past, Doing, Early
    <3>3. BeforeInv(r, at[r])'
      BY <1>1, <1>2, <2>4, <2>7, <3>1, <3>2 DEF BeforeInv, Recipe, Early
    <3>4. DoingInv(r, at[r])'
      BY <2>2, <2>4, <2>5, <2>7, <3>1 DEF DoingInv
    <3>5. TextInv(r, at[r])' /\ VerifiedInv(r, at[r])'
      BY <1>1, <1>3, <2>4, <2>7, <3>1, SMTT(30) DEF TextInv, VerifiedInv, Shown
    <3>6. QED
      BY <3>2, <3>3, <3>4, <3>5 DEF Recipe, PastInv
  <2>9. g.ino \in 0..writes /\ g.mtime \in 0..writes
    BY <2>2, <2>3, <2>4
  <2>10. Own(r)'
    BY <1>1, <2>4, <2>6, <2>7, <2>8, <2>9, GoesOn
  <2>11. QED
    BY <1>1, <1>2, <2>7, <2>10, StepOf
<1>6. QED
  BY <1>4, <1>5

LEMMA ProbeStep == ASSUME IInv, NEW r \in Runs, Probe(r) PROVE IInv'
<1>1. /\ pc[r] = "probe" /\ pc' = [pc EXCEPT ![r] = "digest"]
      /\ left' = [left EXCEPT ![r] = {Pkgbuild} \cup Readable(r)]
      /\ UNCHANGED <<session, approvals, at, verified, answer, outcome, dir, mtimes, writes>>
  BY DEF Probe, Goto, storeVars, dirVars
<1>2. /\ Own(r) /\ RunTyped(r) /\ Recipe(r, at[r]) /\ at[r] \in Positions(r)
      /\ answer[r] # "yes" /\ ~Past(r, at[r])
  BY <1>1, AtEarly DEF Early
<1>3. review[r][at[r]].digest = NoDigest /\ DOMAIN NoDigest = {} /\ Doing(r, at[r])
  BY <1>1, <1>2 DEF Recipe, BeforeInv, Doing, NoDigest
<1> DEFINE told == review[r][at[r]].told \/ Lacks(r)
           g == [review[r][at[r]] EXCEPT !.told = told]
<1>4. Note(r, g)
  BY Zenon DEF Probe, Now
<1>5. told <=> review[r][at[r]].told \/ Lacks(r)
  OBVIOUS
<1> HIDE DEF told
<1>6. /\ Fields \subseteq DOMAIN g /\ g.told = told /\ g.digest = NoDigest
      /\ g.text = review[r][at[r]].text /\ g.ino = review[r][at[r]].ino
      /\ g.mtime = review[r][at[r]].mtime /\ g.digestIno = review[r][at[r]].digestIno
      /\ g.hit = review[r][at[r]].hit /\ g.status = review[r][at[r]].status
  BY <1>2, <1>3 DEF RunTyped, Fields
<1> HIDE DEF g
<1>7. Noted(r, g) /\ review'[r][at[r]] = g
  BY <1>1, <1>4, NoteIs DEF Noted
<1>8. Alone(r) /\ pc'[r] = "digest" /\ at'[r] = at[r] /\ left'[r] = {Pkgbuild} \cup Readable(r)
  BY <1>1, <1>7 DEF Alone, Noted, IInv, Base0
<1>9. Recipe(r, at[r])'
  <2>1. ~Past(r, at[r])' /\ Doing(r, at[r])' /\ pc'[r] \in Early
    BY <1>1, <1>2, <1>8 DEF Past, Doing, Early
  <2>2. BeforeInv(r, at[r])'
    BY <1>1, <1>2, <1>6, <1>7, <1>8, <2>1 DEF BeforeInv, Recipe, Early
  <2>3. DoingInv(r, at[r])'
    <3>1. /\ g.text \in Contents /\ (g.text \in HitTexts => g.hit)
      BY <1>2, <1>3, <1>6 DEF Recipe, DoingInv
    <3>2. Readable(r) \subseteq NamesOf[g.text] /\ (g.told \/ Readable(r) = NamesOf[g.text])
      <4>1. Readable(r) \subseteq NamesOf[g.text] /\ (Lacks(r) \/ Readable(r) = NamesOf[g.text])
        BY <1>6 DEF Readable, Lacks, Now
      <4>2. g.told <=> review[r][at[r]].told \/ Lacks(r)
        BY <1>5, <1>6, Zenon
      <4>3. QED
        BY <4>1, <4>2
    <3>3. QED
      BY <1>3, <1>6, <1>7, <1>8, <3>1, <3>2 DEF DoingInv
  <2>4. TextInv(r, at[r])' /\ VerifiedInv(r, at[r])'
    BY <1>1, <1>2, <1>3, <1>6, <1>7, <1>8 DEF TextInv, VerifiedInv, Shown, Recipe
  <2>5. QED
    BY <2>1, <2>2, <2>3, <2>4 DEF Recipe, PastInv
<1>10. Own(r)'
  BY <1>1, <1>2, <1>6, <1>7, <1>8, <1>9, GoesOn DEF RunTyped
<1>11. QED
  BY <1>1, <1>2, <1>8, <1>10, StepOf

\* One more file in a digest.
LEMMA WithAdds ==
    ASSUME NEW d, NEW f, NEW b
    PROVE  /\ DOMAIN With(d, f, b) = DOMAIN d \cup {f}
           /\ With(d, f, b)[f] = b
           /\ \A x \in DOMAIN d \ {f} : With(d, f, b)[x] = d[x]
BY DEF With

LEMMA NextFileLeft ==
    ASSUME NEW r, left[r] # {}
    PROVE  NextFile(r) \in left[r]
BY DEF NextFile

LEMMA DigestStep == ASSUME IInv, NEW r \in Runs, Digest(r) PROVE IInv'
<1> DEFINE f == NextFile(r)
<1>1. /\ pc[r] = "digest" /\ left[r] # {}
      /\ UNCHANGED <<session, approvals, verified, answer, outcome, dir, mtimes, writes>>
  BY DEF Digest, storeVars, dirVars
<1>2. /\ Own(r) /\ RunTyped(r) /\ Recipe(r, at[r]) /\ at[r] \in Positions(r)
      /\ answer[r] # "yes" /\ ~Past(r, at[r]) /\ Doing(r, at[r])
  BY <1>1, AtEarly DEF Early, Doing
<1>3. f \in left[r]
  BY <1>1, NextFileLeft
<1>4. CASE ~Present(r, f)
  <2> DEFINE g == [review[r][at[r]] EXCEPT !.told = TRUE, !.digest = NoDigest]
  <2>1. Note(r, g) /\ NextRecipe(r, "read", AfterReview(r)) /\ left' = [left EXCEPT ![r] = {}]
    BY <1>4 DEF Digest, Now
  <2>2. /\ Fields \subseteq DOMAIN g /\ g.told /\ g.digest = NoDigest
        /\ g.ino = review[r][at[r]].ino /\ g.mtime = review[r][at[r]].mtime
        /\ g.text = review[r][at[r]].text
    BY <1>2 DEF RunTyped, Fields
  <2> HIDE DEF g
  <2>3. Alone(r) /\ Noted(r, g)
    BY <1>1, <2>1, NextIs, NoteIs DEF Alone, Noted, IInv, Base0
  <2>4. Own(r)'
    BY <1>1, <2>1, <2>2, <2>3, Ends
  <2>5. QED
    BY <1>1, <1>2, <2>3, <2>4, StepOf
<1>5. CASE Present(r, f)
  <2> DEFINE file == dir[r][at[r]][f]
             old == review[r][at[r]]
             ino == IF f = Pkgbuild THEN file.ino ELSE old.digestIno
             g == [old EXCEPT !.digest = With(old.digest, f, file.bytes), !.digestIno = ino]
  <2>1. Note(r, g) /\ left' = [left EXCEPT ![r] = @ \ {f}] /\ UNCHANGED <<pc, at>>
    BY <1>5 DEF Digest, Now, Here
  <2>2. /\ Fields \subseteq DOMAIN g /\ g.told = old.told /\ g.hit = old.hit
        /\ g.digest = With(old.digest, f, file.bytes) /\ g.digestIno = ino
        /\ g.ino = old.ino /\ g.mtime = old.mtime /\ g.text = old.text /\ g.status = old.status
    BY <1>2 DEF RunTyped, Fields
  <2>3. /\ DOMAIN g.digest = DOMAIN old.digest \cup {f} /\ g.digest[f] = file.bytes
        /\ \A x \in DOMAIN old.digest \ {f} : g.digest[x] = old.digest[x]
    <3> HIDE DEF g, f
    <3>1. /\ DOMAIN With(old.digest, f, file.bytes) = DOMAIN old.digest \cup {f}
          /\ With(old.digest, f, file.bytes)[f] = file.bytes
          /\ \A x \in DOMAIN old.digest \ {f} : With(old.digest, f, file.bytes)[x] = old.digest[x]
      <4> HIDE DEF file, old
      <4>1. DOMAIN With(old.digest, f, file.bytes) = DOMAIN old.digest \cup {f}
        BY WithAdds
      <4>2. With(old.digest, f, file.bytes)[f] = file.bytes
        BY DEF With
      <4>3. \A x \in DOMAIN old.digest \ {f} : With(old.digest, f, file.bytes)[x] = old.digest[x]
        BY DEF With
      <4>4. QED
        BY <4>1, <4>2, <4>3
    <3>2. QED
      BY <2>2, <3>1, Zenon
  <2>4. file = dir[r][at[r]][f] /\ file # Absent
    BY <1>5 DEF Present, Here
  <2> HIDE DEF g, f
  <2>5. Noted(r, g) /\ review'[r][at[r]] = g
    BY <1>1, <2>1, NoteIs DEF Noted
  <2>6. Alone(r) /\ pc'[r] = "digest" /\ at'[r] = at[r] /\ left'[r] = left[r] \ {f}
    BY <1>1, <2>1, <2>5 DEF Alone, Noted, IInv, Base0
  <2>7. Recipe(r, at[r])'
    <3>1. ~Past(r, at[r])' /\ Doing(r, at[r])' /\ pc'[r] \in Early
      BY <1>1, <1>2, <2>6 DEF Past, Doing, Early
    <3>2. BeforeInv(r, at[r])'
      BY <1>1, <1>2, <2>6, <3>1 DEF BeforeInv, Recipe, Early
    <3>3. DOMAIN g.digest \cup left'[r] = DOMAIN old.digest \cup left[r]
      BY <1>3, <2>3, <2>6, SMTT(30)
    <3>4. DoingInv(r, at[r])'
      BY <1>1, <1>2, <2>2, <2>5, <2>6, <3>3 DEF DoingInv, Recipe
    <3>5. TextInv(r, at[r])'
      <4>1. SUFFICES ASSUME mtimes[r][at[r]][old.ino] = old.mtime PROVE
              /\ (g.text # NoText /\ dir[r][at[r]][Pkgbuild] # Absent /\ dir[r][at[r]][Pkgbuild].ino = g.ino
                  => dir[r][at[r]][Pkgbuild].bytes = g.text)
              /\ Shown(g)
        BY <1>1, <2>2, <2>5, <2>6 DEF TextInv
      <4>2. /\ (g.text # NoText /\ dir[r][at[r]][Pkgbuild] # Absent /\ dir[r][at[r]][Pkgbuild].ino = g.ino
                => dir[r][at[r]][Pkgbuild].bytes = g.text)
            /\ Shown(old)
        BY <1>2, <2>2, <4>1 DEF TextInv, Recipe
      <4>3. g.text # NoText
        BY <1>2, <2>2, NoTextAssumption, SMTT(30) DEF Recipe, DoingInv
      <4>4. CASE f = Pkgbuild
        BY <2>2, <2>3, <2>4, <4>2, <4>3, <4>4 DEF Shown
      <4>5. CASE f # Pkgbuild
        <5>1. g.digestIno = old.digestIno
          BY <2>2, <4>5
        <5>2. Pkgbuild \in DOMAIN g.digest => Pkgbuild \in DOMAIN old.digest /\ g.digest[Pkgbuild] = old.digest[Pkgbuild]
          BY <2>3, <4>5
        <5>3. QED
          BY <2>2, <4>2, <5>1, <5>2 DEF Shown
      <4>6. QED
        BY <4>2, <4>4, <4>5
    <3>6. VerifiedInv(r, at[r])'
      BY <1>1, <1>2, <2>6 DEF VerifiedInv, Recipe, BeforeInv, Early
    <3>7. QED
      BY <3>1, <3>2, <3>4, <3>5, <3>6 DEF Recipe, PastInv
  <2>8. Own(r)'
    BY <1>1, <1>2, <2>2, <2>5, <2>6, <2>7, GoesOn DEF RunTyped
  <2>9. QED
    BY <1>1, <1>2, <2>6, <2>8, StepOf
<1>6. QED
  BY <1>4, <1>5

LEMMA StatusIs == ASSUME NEW p, NEW d PROVE Status(p, d) \in Statuses
BY DEF Status, Statuses

LEMMA LookupStep == ASSUME IInv, NEW r \in Runs, Lookup(r) PROVE IInv'
<1> DEFINE old == review[r][at[r]]
           status == Status(Base(r), old.digest)
<1>1. /\ pc[r] = "digest" /\ left[r] = {}
      /\ NextRecipe(r, "read", AfterReview(r))
      /\ UNCHANGED <<session, approvals, left, verified, answer, outcome, dir, mtimes, writes>>
  BY DEF Lookup, storeVars, dirVars
<1>2. /\ Own(r) /\ RunTyped(r) /\ Recipe(r, at[r]) /\ at[r] \in Positions(r)
      /\ answer[r] # "yes" /\ ~Past(r, at[r]) /\ Doing(r, at[r])
  BY <1>1, AtEarly DEF Early, Doing
<1>3. PICK delta \in DeltaResults(r) :
        Note(r, [old EXCEPT !.status = status,
                            !.told = old.told \/ status = "could-not-determine" \/ DiffIsLimited(r) \/ delta = "gap",
                            !.hit = old.hit \/ delta = "finding"])
  BY Zenon DEF Lookup, Now
<1> DEFINE told == old.told \/ status = "could-not-determine" \/ DiffIsLimited(r) \/ delta = "gap"
           hit == old.hit \/ delta = "finding"
           g == [old EXCEPT !.status = status, !.told = told, !.hit = hit]
<1>4. Note(r, g)
  BY <1>3, Zenon
<1>5. (old.told \/ status = "could-not-determine" => told) /\ (old.hit => hit) /\ status \in Statuses
  BY StatusIs
<1> HIDE DEF told, hit, status
<1>6. /\ Fields \subseteq DOMAIN g /\ g.told = told /\ g.hit = hit /\ g.status = status
      /\ g.digest = old.digest /\ g.digestIno = old.digestIno
      /\ g.ino = old.ino /\ g.mtime = old.mtime /\ g.text = old.text
  BY <1>2 DEF RunTyped, Fields
<1> HIDE DEF g
<1>7. Alone(r) /\ Noted(r, g)
  BY <1>1, <1>4, NextIs, NoteIs DEF Alone, Noted, IInv, Base0
<1>8. /\ old.text \in Contents /\ (old.text \in HitTexts => old.hit)
      /\ Pkgbuild \in DOMAIN old.digest
      /\ DOMAIN old.digest \subseteq {Pkgbuild} \cup NamesOf[old.text]
      /\ old.told \/ NamesOf[old.text] \subseteq DOMAIN old.digest
  BY <1>1, <1>2 DEF Recipe, DoingInv
<1>9. g.told \/ WholeReview(g)
  <2>1. (old.told \/ status = "could-not-determine" => g.told) /\ (old.hit => g.hit)
    BY <1>5, <1>6, Zenon
  <2>2. ~old.told => DOMAIN g.digest = {Pkgbuild} \cup NamesOf[g.text]
    BY <1>6, <1>8
  <2>3. QED
    BY <1>5, <1>6, <1>8, <2>1, <2>2 DEF WholeReview
<1>10. Own(r)'
  BY <1>1, <1>6, <1>7, <1>8, <1>9, Ends
<1>11. QED
  BY <1>1, <1>2, <1>7, <1>10, StepOf

\* A recipe is staged, or it is told that it could not be.
LEMMA StageStep == ASSUME IInv, NEW r \in Runs, Stage(r) PROVE IInv'
<1>1. /\ pc[r] = "stage" /\ NextRecipe(r, "stage", "read")
      /\ UNCHANGED <<session, approvals, left, verified, answer, outcome, mtimes, writes>>
  BY DEF Stage, storeVars
<1>2. /\ Own(r) /\ RunTyped(r) /\ at[r] \in Positions(r) /\ answer[r] # "yes"
  BY <1>1, AtEarly DEF Early
<1>3. /\ DOMAIN pc' = Runs /\ DOMAIN at' = Runs
      /\ \A q \in Runs \ {r} : pc'[q] = pc[q] /\ at'[q] = at[q]
      /\ at'[r] \in Positions(r)
      /\ pc'[r] = "stage" \/ (pc'[r] = "read" /\ at'[r] = 1)
  BY <1>1, NextIs
<1>4. writes \in 0..MaxWrites /\ MaxWrites \in Nat /\ DOMAIN dir = Runs
  BY WritesAssumption DEF IInv, Base0
<1>5. /\ DOMAIN dir' = Runs /\ \A q \in Runs \ {r} : dir'[q] = dir[q]
      /\ DOMAIN dir'[r] = Positions(r)
      /\ \A i \in Positions(r) : dir'[r][i] \in [RecipeNames -> File]
  <2>1. CASE UNCHANGED dir
    BY <1>2, <1>4, <2>1 DEF RunTyped
  <2>2. CASE \E fs \in Staged : dir' = [dir EXCEPT ![r][at[r]] = fs]
    <3>1. PICK fs \in Staged : dir' = [dir EXCEPT ![r][at[r]] = fs]
      BY <2>2
    <3>2. fs \in [RecipeNames -> File]
      BY <1>4, StagedAssumption DEF FilesOfInode0, File
    <3>3. QED
      BY <1>2, <1>4, <3>1, <3>2 DEF RunTyped
  <2>3. QED
    BY <2>1, <2>2 DEF Stage
<1>6. \E g : /\ Noted(r, g)
             /\ Fields \subseteq DOMAIN g
             /\ g.ino = review[r][at[r]].ino /\ g.mtime = review[r][at[r]].mtime
             /\ g.text = review[r][at[r]].text /\ g.digest = review[r][at[r]].digest
             /\ g.status = "skipped" => g.told
  <2>1. CASE UNCHANGED review
    <3>1. Noted(r, review[r][at[r]])
      BY <1>1, <2>1, UnnotedIs
    <3>2. Fields \subseteq DOMAIN review[r][at[r]]
      BY <1>2 DEF RunTyped
    <3>3. review[r][at[r]].status = "skipped" => review[r][at[r]].told
      BY <1>1, <1>2 DEF Own, Recipe, BeforeInv, Past, Doing, Early
    <3>4. QED
      BY <3>1, <3>2, <3>3
  <2>2. CASE ~UNCHANGED review
    <3> DEFINE g == [review[r][at[r]] EXCEPT !.told = TRUE, !.status = "skipped"]
    <3>1. Note(r, g)
      BY <2>2 DEF Stage, Now
    <3>2. /\ Fields \subseteq DOMAIN g /\ g.told
          /\ g.ino = review[r][at[r]].ino /\ g.mtime = review[r][at[r]].mtime
          /\ g.text = review[r][at[r]].text /\ g.digest = review[r][at[r]].digest
      BY <1>2 DEF RunTyped, Fields
    <3> HIDE DEF g
    <3>3. Noted(r, g)
      BY <1>1, <3>1, NoteIs
    <3>4. QED
      BY <3>2, <3>3
  <2>3. QED
    BY <2>1, <2>2
<1>7. PICK g : /\ Noted(r, g)
               /\ Fields \subseteq DOMAIN g
               /\ g.ino = review[r][at[r]].ino /\ g.mtime = review[r][at[r]].mtime
               /\ g.text = review[r][at[r]].text /\ g.digest = review[r][at[r]].digest
               /\ g.status = "skipped" => g.told
  BY <1>6
<1>8. Alone(r)
  BY <1>1, <1>3, <1>5, <1>7 DEF Alone, Noted, IInv, Base0
<1>9. Positions(r)' = Positions(r) /\ File' = File
  BY <1>1 DEF Positions, Closure, File
<1>10. RunTyped(r)'
  <2>1. ASSUME NEW i \in Positions(r)
        PROVE  /\ Fields \subseteq DOMAIN review'[r][i]
               /\ review'[r][i].ino \in 0..writes /\ review'[r][i].mtime \in 0..writes
    BY <1>2, <1>7, <2>1 DEF Noted, RunTyped
  <2>2. DOMAIN review'[r] = Positions(r)
    BY <1>7 DEF Noted
  <2>3. pc'[r] \in Pcs
    BY <1>3 DEF Pcs, Early
  <2>4. QED
    BY <1>1, <1>2, <1>3, <1>5, <1>9, <2>1, <2>2, <2>3 DEF RunTyped
<1>11. ASSUME NEW i \in Positions(r) PROVE Recipe(r, i)'
  <2>1. Recipe(r, i) /\ ~Past(r, i) /\ ~Doing(r, i)
    BY <1>1, <1>2, <1>11 DEF Own, Past, Doing, Early
  <2>2. ~Past(r, i)' /\ ~Doing(r, i)' /\ pc'[r] \in Early /\ pc'[r] \notin {"again", "digest"}
    <3>1. i \in Nat /\ i >= 1
      BY <1>11, PositionsAre DEF IInv, Base0
    <3>2. QED
      BY <1>3, <3>1 DEF Past, Doing, Early
  <2>3. /\ verified'[r][i] = NoDigest
        /\ review'[r][i].digest = NoDigest /\ review'[r][i].text = NoText
        /\ review'[r][i].status = "skipped" => review'[r][i].told
    BY <1>1, <1>7, <1>11, <2>1 DEF Recipe, BeforeInv, Noted, Early
  <2>4. Shown(review'[r][i])
    BY <2>3 DEF Shown, NoDigest
  <2>5. QED
    BY <2>2, <2>3, <2>4 DEF Recipe, BeforeInv, DoingInv, PastInv, TextInv, VerifiedInv, Shown
<1>12. Own(r)'
  <2>1. EndInv(r)' /\ AnswerInv(r)'
    BY <1>1, <1>2, <1>3 DEF Own, EndInv, AnswerInv, Early, Late
  <2>2. QED
    BY <1>9, <1>10, <1>11, <2>1 DEF Own
<1>13. QED
  BY <1>1, <1>2, <1>8, <1>12, StepOf

-----------------------------------------------------------------------------
(* After the reviews.                                                      *)

\* The reviews are over: what there is to show of a later step is what it
\* verified, what it ended with and what was answered.
LEMMA Later ==
    ASSUME IInv, NEW r \in Runs, pc[r] \notin Early, pc[r] # "end", Alone(r),
           pc'[r] \in Pcs \ Early, pc'[r] # "end" => at'[r] \in Positions(r),
           dir'[r] = dir[r], review' = review, DOMAIN verified'[r] = Positions(r),
           \A i \in Positions(r) : VerifiedInv(r, i)',
           EndInv(r)', AnswerInv(r)'
    PROVE  Own(r)'
<1>1. Own(r) /\ RunTyped(r)
  BY DEF IInv, Own
<1>2. Positions(r)' = Positions(r) /\ File' = File /\ mtimes' = mtimes /\ writes' = writes
  BY DEF Alone, Positions, Closure, File
<1>3. RunTyped(r)'
  BY <1>1, <1>2 DEF RunTyped
<1>4. ASSUME NEW i \in Positions(r) PROVE Recipe(r, i)'
  <2>1. Recipe(r, i)
    BY <1>1, <1>4 DEF Own
  <2>2. Past(r, i) /\ Past(r, i)' /\ ~Doing(r, i)' /\ pc'[r] \notin Early
    BY DEF Past, Doing, Early
  <2>3. BeforeInv(r, i)' /\ DoingInv(r, i)'
    BY <2>2 DEF BeforeInv, DoingInv, Early
  <2>4. PastInv(r, i)' /\ TextInv(r, i)'
    BY <1>2, <2>1, <2>2 DEF PastInv, TextInv, Recipe
  <2>5. QED
    BY <1>4, <2>3, <2>4 DEF Recipe
<1>5. QED
  BY <1>2, <1>3, <1>4 DEF Own

\* A run that goes on has not ended, and keeps what it answered.
LEMMA NotEnded ==
    ASSUME IInv, NEW r \in Runs, pc[r] # "end",
           outcome'[r] = outcome[r], answer'[r] = answer[r],
           pc[r] \in Late => pc'[r] \in Late, pc'[r] = "approve" => pc[r] = "approve"
    PROVE  EndInv(r)' /\ AnswerInv(r)'
BY DEF IInv, Own, EndInv, AnswerInv

\* What a run that has reviewed its recipes knows.
LEMMA AtLater ==
    ASSUME IInv, NEW r \in Runs, pc[r] \in {"ask", "render"} \cup (Late \ {"end"})
    PROVE  /\ pc[r] \notin Early /\ pc[r] # "end"
           /\ Own(r) /\ RunTyped(r) /\ at[r] \in Positions(r)
           /\ \A i \in Positions(r) : Recipe(r, i) /\ Past(r, i)
           /\ DOMAIN review = Runs /\ DOMAIN verified[r] = Positions(r)
<1>1. Own(r) /\ RunTyped(r) /\ pc[r] \notin Early /\ pc[r] # "end" /\ DOMAIN review = Runs
  BY DEF IInv, Base0, Own, Early, Late
<1>2. QED
  BY <1>1 DEF Own, RunTyped, Past

LEMMA RenderStep == ASSUME IInv, NEW r \in Runs, Render(r) PROVE IInv'
<1> DEFINE exit == ExitCode(Told(r), Hit(r))
<1>1. /\ pc[r] = "render" /\ pc' = [pc EXCEPT ![r] = "end"]
      /\ outcome' = [outcome EXCEPT ![r] = [kind |-> "reviewed", exit |-> exit]]
      /\ UNCHANGED <<session, approvals, at, left, review, verified, answer, dir, mtimes, writes>>
  BY DEF Render, Goto, storeVars, dirVars
<1>2. /\ pc[r] \notin Early /\ pc[r] # "end" /\ Own(r) /\ RunTyped(r) /\ at[r] \in Positions(r)
      /\ \A i \in Positions(r) : Recipe(r, i)
      /\ DOMAIN verified[r] = Positions(r)
  BY <1>1, AtLater
<1>3. exit = 0 => \A i \in Positions(r) : ~review[r][i].told /\ ~review[r][i].hit
  BY DEF ExitCode, Told, Hit
<1>4. 1 \in Positions(r)
  BY <1>2, PositionsAre DEF IInv, Base0
<1> HIDE DEF exit
<1>5. /\ pc'[r] = "end" /\ outcome'[r].kind = "reviewed" /\ outcome'[r].exit = exit
  BY <1>1 DEF IInv, Base0
<1>6. Alone(r)
  BY <1>1 DEF Alone, IInv, Base0
<1>7. Positions(r)' = Positions(r)
  BY <1>1 DEF Positions, Closure
<1>8. EndInv(r)'
  <2>1. outcome'[r] = [kind |-> "reviewed", exit |-> 0] => exit = 0
    BY <1>5
  <2>2. outcome'[r].kind # "handed over"
    BY <1>5
  <2>3. \A i \in Positions(r) : exit = 0 => ~review'[r][i].told /\ ~review'[r][i].hit
    BY <1>1, <1>3
  <2>4. QED
    BY <1>4, <1>5, <1>7, <2>1, <2>2, <2>3 DEF EndInv
<1>9. AnswerInv(r)' /\ answer[r] # "yes"
  BY <1>1, <1>2, <1>5 DEF Own, AnswerInv, Late
<1>10. \A i \in Positions(r) : VerifiedInv(r, i)'
  BY <1>1, <1>2, <1>5 DEF VerifiedInv, Recipe
<1>11. Own(r)'
  BY <1>1, <1>2, <1>5, <1>6, <1>8, <1>9, <1>10, Later DEF Pcs, Early, Late
<1>12. QED
  BY <1>1, <1>6, <1>9, <1>11, StepOf

LEMMA AskStep == ASSUME IInv, NEW r \in Runs, Ask(r) PROVE IInv'
<1>1. /\ pc[r] = "ask"
      /\ UNCHANGED <<session, approvals, at, left, review, verified, dir, mtimes, writes>>
  BY DEF Ask, storeVars, dirVars
<1>2. /\ pc[r] \notin Early /\ pc[r] # "end" /\ Own(r) /\ RunTyped(r) /\ at[r] \in Positions(r)
      /\ \A i \in Positions(r) : Recipe(r, i)
      /\ DOMAIN verified[r] = Positions(r) /\ answer[r] # "yes"
  <2>1. Own(r) => (answer[r] = "yes" => pc[r] \in Late)
    BY DEF Own, AnswerInv
  <2>2. QED
    BY <1>1, <2>1, AtLater DEF Late
<1>3. /\ DOMAIN pc' = Runs /\ DOMAIN answer' = Runs /\ DOMAIN outcome' = Runs
      /\ \A q \in Runs \ {r} : pc'[q] = pc[q] /\ answer'[q] = answer[q] /\ outcome'[q] = outcome[q]
      /\ \/ pc'[r] = "approve" /\ answer'[r] = "yes" /\ outcome'[r] = outcome[r]
         \/ pc'[r] = "end" /\ answer'[r] = "no" /\ outcome'[r].kind = "declined"
  <2>1. /\ DOMAIN pc = Runs /\ DOMAIN answer = Runs /\ DOMAIN outcome = Runs
    BY DEF IInv, Base0
  <2>2. PICK yes \in BOOLEAN :
          /\ answer' = [answer EXCEPT ![r] = IF yes THEN "yes" ELSE "no"]
          /\ pc' = [pc EXCEPT ![r] = AfterAnswer(yes)]
          /\ outcome' = IF AfterAnswer(yes) = "end"
               THEN [outcome EXCEPT ![r] = [kind |-> "declined", exit |-> IF Told(r) THEN 3 ELSE 1]]
               ELSE outcome
    BY DEF Ask, Goto
  <2>3. CASE yes
    BY <2>1, <2>2, <2>3 DEF AfterAnswer
  <2>4. CASE ~yes
    BY <2>1, <2>2, <2>4 DEF AfterAnswer
  <2>5. QED
    BY <2>3, <2>4
<1>4. Alone(r)
  BY <1>1, <1>3 DEF Alone, IInv, Base0
<1>5. Positions(r)' = Positions(r)
  BY <1>1 DEF Positions, Closure
<1>6. EndInv(r)'
  <2>1. CASE outcome'[r] = outcome[r]
    BY <1>2, <2>1 DEF Own, EndInv
  <2>2. CASE outcome'[r].kind = "declined"
    <3>1. outcome'[r] # [kind |-> "reviewed", exit |-> 0]
      BY <2>2
    <3>2. QED
      BY <2>2, <3>1 DEF EndInv
  <2>3. QED
    BY <1>3, <2>1, <2>2
<1>7. AnswerInv(r)'
  BY <1>3 DEF AnswerInv, Late
<1>8. \A i \in Positions(r) : VerifiedInv(r, i)'
  BY <1>1, <1>2, <1>3 DEF VerifiedInv, Recipe
<1>9. Own(r)'
  BY <1>1, <1>2, <1>3, <1>4, <1>6, <1>7, <1>8, Later DEF Pcs, Early, Late
<1>10. QED
  BY <1>1, <1>2, <1>4, <1>9, StepOf

\* A record is the digest of a recipe for which somebody answered yes.
LEMMA RecordStep == ASSUME IInv, NEW r \in Runs, Record(r) PROVE IInv'
<1>1. /\ pc[r] = "approve" /\ NextRecipe(r, "approve", "capture")
      /\ UNCHANGED <<session, left, review, verified, answer, outcome, dir, mtimes, writes>>
  BY DEF Record, dirVars
<1>2. /\ pc[r] \notin Early /\ pc[r] # "end" /\ Own(r) /\ RunTyped(r) /\ at[r] \in Positions(r)
      /\ \A i \in Positions(r) : Recipe(r, i)
      /\ DOMAIN verified[r] = Positions(r)
  BY <1>1, AtLater DEF Late
<1>3. /\ DOMAIN pc' = Runs /\ DOMAIN at' = Runs
      /\ \A q \in Runs \ {r} : pc'[q] = pc[q] /\ at'[q] = at[q]
      /\ at'[r] \in Positions(r) /\ pc'[r] \in {"approve", "capture"}
  BY <1>1, <1>2, NextIs
<1>4. Alone(r)
  BY <1>1, <1>3 DEF Alone, IInv, Base0
<1>5. EndInv(r)' /\ AnswerInv(r)'
  BY <1>1, <1>3, NotEnded DEF Late
<1>6. \A i \in Positions(r) : VerifiedInv(r, i)'
  BY <1>1, <1>2, <1>3 DEF VerifiedInv, Recipe
<1>7. Own(r)'
  BY <1>1, <1>2, <1>3, <1>4, <1>5, <1>6, Later DEF Pcs, Early, Late
<1>8. \A q \in Runs : Own(q)'
  BY <1>4, <1>7, OthersKeep
<1>9. \/ UNCHANGED approvals
      \/ approvals' = [approvals EXCEPT ![Base(r)] = Approval(review[r][at[r]].digest)]
  BY DEF Record, Approve, ApproveFails, storeVars, Now
<1>10. Base0'
  BY <1>4, <1>9 DEF IInv, Base0, Alone
<1>11. \A q \in Runs : Closure(q)' = Closure(q) /\ Positions(q)' = Positions(q)
  BY <1>1 DEF Closure, Positions
<1>12. ApprovedWasShown'
  <2>1. SUFFICES ASSUME NEW p \in PkgBases, approvals'[p].kind = "approval"
                 PROVE  \E q \in Runs : \E i \in Positions(q) :
                            answer[q] = "yes" /\ Closure(q)[i] = p /\ approvals'[p].digest = review[q][i].digest
    BY <1>1, <1>11 DEF ApprovedWasShown
  <2>2. CASE approvals'[p] = approvals[p]
    BY <2>1, <2>2 DEF IInv, ApprovedWasShown
  <2>3. CASE approvals'[p] # approvals[p]
    <3>1. p = Base(r) /\ approvals'[p] = Approval(review[r][at[r]].digest)
      BY <1>9, <2>3 DEF IInv, Base0
    <3>2. answer[r] = "yes" /\ Closure(r)[at[r]] = p
      BY <1>1, <1>2, <3>1 DEF Own, AnswerInv, Base
    <3>3. approvals'[p].digest = review[r][at[r]].digest
      BY <3>1 DEF Approval
    <3>4. QED
      BY <1>2, <3>2, <3>3
  <2>4. QED
    BY <2>2, <2>3
<1>13. QED
  BY <1>8, <1>10, <1>12 DEF IInv

LEMMA CaptureStep == ASSUME IInv, NEW r \in Runs, Capture(r) PROVE IInv'
<1>1. /\ pc[r] = "capture" /\ NextRecipe(r, "capture", "verify")
      /\ UNCHANGED <<session, approvals, left, review, verified, answer, outcome, dir, mtimes, writes>>
  BY DEF Capture, dirVars, storeVars
<1>2. /\ pc[r] \notin Early /\ pc[r] # "end" /\ Own(r) /\ RunTyped(r) /\ at[r] \in Positions(r)
      /\ \A i \in Positions(r) : Recipe(r, i)
      /\ DOMAIN verified[r] = Positions(r)
  BY <1>1, AtLater DEF Late
<1>3. /\ DOMAIN pc' = Runs /\ DOMAIN at' = Runs
      /\ \A q \in Runs \ {r} : pc'[q] = pc[q] /\ at'[q] = at[q]
      /\ at'[r] \in Positions(r) /\ pc'[r] \in {"capture", "verify"}
  BY <1>1, <1>2, NextIs
<1>4. Alone(r)
  BY <1>1, <1>3 DEF Alone, IInv, Base0
<1>5. EndInv(r)' /\ AnswerInv(r)'
  BY <1>1, <1>3, NotEnded DEF Late
<1>6. \A i \in Positions(r) : VerifiedInv(r, i)'
  BY <1>1, <1>2, <1>3 DEF VerifiedInv, Recipe
<1>7. Own(r)'
  BY <1>1, <1>2, <1>3, <1>4, <1>5, <1>6, Later DEF Pcs, Early, Late
<1>8. QED
  BY <1>1, <1>4, <1>7, StepOf

\* A descriptor that still has its time led to the text that was digested.
LEMMA VerifyStep == ASSUME IInv, NEW r \in Runs, Verify(r) PROVE IInv'
<1>1. /\ pc[r] = "verify"
      /\ UNCHANGED <<session, approvals, review, verified, answer, outcome, dir, mtimes, writes>>
  BY DEF Verify, dirVars, storeVars
<1>2. /\ pc[r] \notin Early /\ pc[r] # "end" /\ Own(r) /\ RunTyped(r) /\ at[r] \in Positions(r)
      /\ \A i \in Positions(r) : Recipe(r, i)
      /\ DOMAIN verified[r] = Positions(r)
  BY <1>1, AtLater DEF Late
<1>3. /\ DOMAIN pc' = Runs /\ DOMAIN at' = Runs /\ DOMAIN left' = Runs
      /\ \A q \in Runs \ {r} : pc'[q] = pc[q] /\ at'[q] = at[q] /\ left'[q] = left[q]
      /\ at'[r] \in Positions(r)
      /\ \/ pc'[r] \in {"verify", "handover"}
         \/ pc'[r] = "again" /\ at'[r] = at[r] /\ DescriptorUnchanged(r)
  <2>1. DOMAIN pc = Runs /\ DOMAIN at = Runs /\ DOMAIN left = Runs
    BY DEF IInv, Base0
  <2>2. CASE Now(r).digest # NoDigest /\ DescriptorUnchanged(r)
    <3>1. /\ left' = [left EXCEPT ![r] = DOMAIN Now(r).digest]
          /\ pc' = [pc EXCEPT ![r] = "again"] /\ UNCHANGED at
      BY <2>2 DEF Verify, Goto
    <3>2. QED
      BY <1>2, <2>1, <2>2, <3>1
  <2>3. CASE ~(Now(r).digest # NoDigest /\ DescriptorUnchanged(r))
    <3>1. UNCHANGED left /\ NextRecipe(r, "verify", "handover")
      BY <2>3 DEF Verify
    <3>2. QED
      BY <1>2, <2>1, <3>1, NextIs
  <2>4. QED
    BY <2>2, <2>3
<1>4. Alone(r)
  BY <1>1, <1>3 DEF Alone, IInv, Base0
<1>5. EndInv(r)' /\ AnswerInv(r)'
  BY <1>1, <1>3, NotEnded DEF Late
<1>6. ASSUME NEW i \in Positions(r) PROVE VerifiedInv(r, i)'
  <2>1. VerifiedInv(r, i) /\ TextInv(r, i)
    BY <1>2 DEF Recipe
  <2>2. CASE verified[r][i] # NoDigest
    BY <1>1, <2>1, <2>2 DEF VerifiedInv
  <2>3. CASE verified[r][i] = NoDigest /\ pc'[r] = "again" /\ i = at'[r]
    BY <1>1, <1>3, <2>1, <2>3 DEF VerifiedInv, TextInv, DescriptorUnchanged, Now
  <2>4. QED
    BY <1>1, <2>2, <2>3 DEF VerifiedInv
<1>7. Own(r)'
  BY <1>1, <1>2, <1>3, <1>4, <1>5, <1>6, Later DEF Pcs, Early, Late
<1>8. QED
  BY <1>1, <1>4, <1>7, StepOf

LEMMA AgainStep == ASSUME IInv, NEW r \in Runs, Again(r) PROVE IInv'
<1>1. /\ pc[r] = "again"
      /\ UNCHANGED <<session, approvals, review, answer, outcome, dir, mtimes, writes>>
  BY DEF Again, dirVars, storeVars
<1>2. /\ pc[r] \notin Early /\ pc[r] # "end" /\ Own(r) /\ RunTyped(r) /\ at[r] \in Positions(r)
      /\ \A i \in Positions(r) : Recipe(r, i)
      /\ DOMAIN verified[r] = Positions(r)
  BY <1>1, AtLater DEF Late
<1>3. /\ DOMAIN pc' = Runs /\ DOMAIN at' = Runs /\ DOMAIN left' = Runs /\ DOMAIN verified' = Runs
      /\ \A q \in Runs \ {r} : /\ pc'[q] = pc[q] /\ at'[q] = at[q] /\ left'[q] = left[q]
                               /\ verified'[q] = verified[q]
      /\ at'[r] \in Positions(r) /\ DOMAIN verified'[r] = Positions(r)
      /\ pc'[r] \in {"verify", "again", "handover"}
      /\ pc'[r] = "again" => at'[r] = at[r]
      /\ \A i \in Positions(r) \ {at[r]} : verified'[r][i] = verified[r][i]
  <2>1. DOMAIN pc = Runs /\ DOMAIN at = Runs /\ DOMAIN left = Runs /\ DOMAIN verified = Runs
    BY DEF IInv, Base0
  <2>2. CASE left[r] # {} /\ Present(r, NextFile(r))
    <3>1. PICK x, y : /\ verified' = [verified EXCEPT ![r][at[r]] = x]
                      /\ left' = [left EXCEPT ![r] = y] /\ UNCHANGED <<pc, at>>
      BY <2>2 DEF Again
    <3>2. QED
      BY <1>1, <1>2, <2>1, <3>1
  <2>3. CASE ~(left[r] # {} /\ Present(r, NextFile(r)))
    <3>1. /\ left' = [left EXCEPT ![r] = {}] /\ UNCHANGED verified
          /\ NextRecipe(r, "verify", "handover")
      BY <2>3 DEF Again
    <3>2. QED
      BY <1>2, <2>1, <3>1, NextIs
  <2>4. QED
    BY <2>2, <2>3
<1>4. Alone(r)
  BY <1>1, <1>3 DEF Alone, IInv, Base0
<1>5. EndInv(r)' /\ AnswerInv(r)'
  BY <1>1, <1>3, NotEnded DEF Late
<1>6. ASSUME NEW i \in Positions(r) PROVE VerifiedInv(r, i)'
  <2>1. VerifiedInv(r, i)
    BY <1>2 DEF Recipe
  <2>2. CASE i = at[r]
    BY <1>1, <2>1, <2>2 DEF VerifiedInv
  <2>3. CASE i # at[r]
    BY <1>1, <1>3, <2>1, <2>3 DEF VerifiedInv
  <2>4. QED
    BY <2>2, <2>3
<1>7. Own(r)'
  BY <1>1, <1>2, <1>3, <1>4, <1>5, <1>6, Later DEF Pcs, Early, Late
<1>8. QED
  BY <1>1, <1>4, <1>7, StepOf

LEMMA HandOverStep == ASSUME IInv, NEW r \in Runs, HandOver(r) PROVE IInv'
<1> DEFINE kind == IF \A i \in Positions(r) : RecipeUnchanged(r, i) THEN "handed over" ELSE "refused"
<1>1. /\ pc[r] = "handover" /\ pc' = [pc EXCEPT ![r] = "end"]
      /\ outcome' = [outcome EXCEPT ![r] = [kind |-> kind, exit |-> 3]]
      /\ UNCHANGED <<session, approvals, at, left, review, verified, answer, dir, mtimes, writes>>
  BY DEF HandOver, Goto, storeVars, dirVars
<1>2. /\ pc[r] \notin Early /\ pc[r] # "end" /\ Own(r) /\ RunTyped(r) /\ at[r] \in Positions(r)
      /\ \A i \in Positions(r) : Recipe(r, i)
      /\ DOMAIN verified[r] = Positions(r)
  BY <1>1, AtLater DEF Late
<1>3. kind = "handed over" => \A i \in Positions(r) : verified[r][i] = review[r][i].digest
  BY DEF RecipeUnchanged
<1> HIDE DEF kind
<1>4. pc'[r] = "end" /\ outcome'[r].kind = kind /\ outcome'[r].exit = 3
  BY <1>1 DEF IInv, Base0
<1>5. Alone(r)
  BY <1>1 DEF Alone, IInv, Base0
<1>6. Positions(r)' = Positions(r)
  BY <1>1 DEF Positions, Closure
<1>7. EndInv(r)'
  <2>1. outcome'[r] # [kind |-> "reviewed", exit |-> 0]
    BY <1>4
  <2>2. QED
    BY <1>1, <1>3, <1>4, <1>6, <2>1 DEF EndInv
<1>8. AnswerInv(r)'
  BY <1>4 DEF AnswerInv, Late
<1>9. \A i \in Positions(r) : VerifiedInv(r, i)'
  BY <1>1, <1>2, <1>4 DEF VerifiedInv, Recipe
<1>10. Own(r)'
  BY <1>1, <1>2, <1>4, <1>5, <1>7, <1>8, <1>9, Later DEF Pcs, Early, Late
<1>11. QED
  BY <1>1, <1>5, <1>10, StepOf

-----------------------------------------------------------------------------
(* The other process, and the stores beside the runs.                      *)

\* A write gives a file a later time than any that was read of it, so where the
\* time is still the same the text is.
LEMMA WriteStep ==
    ASSUME IInv, NEW r \in Runs, NEW j \in Positions(r), NEW f \in RecipeNames, WriteFile(r, j, f)
    PROVE  IInv'
<1> DEFINE old == dir[r][j][f]
<1>1. /\ writes < session.writes /\ writes' = writes + 1
      /\ UNCHANGED <<session, approvals, pc, at, left, review, verified, answer, outcome>>
  BY DEF WriteFile, storeVars, runVars
<1>2. PICK new \in {Absent} \cup [ino : {old.ino, writes + 1}, bytes : Contents] :
        /\ old = Absent => new.ino = writes + 1
        /\ dir' = [dir EXCEPT ![r][j][f] = new]
        /\ mtimes' = IF f = Pkgbuild /\ new # Absent
                       THEN [mtimes EXCEPT ![r][j][new.ino] = writes + 1]
                       ELSE mtimes
  BY DEF WriteFile
<1>3. /\ session \in Sessions /\ writes \in Nat /\ writes' \in 0..MaxWrites /\ MaxWrites \in Nat
      /\ DOMAIN dir = Runs /\ DOMAIN mtimes = Runs
  <2>1. /\ session \in Sessions /\ writes \in 0..MaxWrites
        /\ DOMAIN dir = Runs /\ DOMAIN mtimes = Runs
    BY DEF IInv, Base0
  <2>2. session.writes \in 0..MaxWrites /\ MaxWrites \in Nat
    BY <2>1, SessionsAssumption, WritesAssumption
  <2>3. QED
    BY <1>1, <2>1, <2>2
<1>4. Own(r) /\ RunTyped(r) /\ dir[r][j] \in [RecipeNames -> File]
  BY DEF IInv, Own, RunTyped
<1>5. File \subseteq File'
  BY <1>1, <1>3 DEF File
<1>6. Positions(r)' = Positions(r)
  BY <1>1 DEF Positions, Closure
<1>7. new \in File' /\ new.ino \in 0..MaxWrites
  <2>1. old \in File
    BY <1>4
  <2>2. old.ino \in 0..writes
    BY <1>3, <2>1 DEF File, Absent
  <2>3. QED
    BY <1>1, <1>2, <1>3, <2>2 DEF File, Absent
<1> HIDE DEF old
<1>8. /\ DOMAIN dir' = Runs /\ DOMAIN mtimes' = Runs
      /\ \A q \in Runs \ {r} : dir'[q] = dir[q] /\ mtimes'[q] = mtimes[q]
      /\ DOMAIN dir'[r] = Positions(r) /\ DOMAIN mtimes'[r] = Positions(r)
      /\ \A i \in Positions(r) \ {j} : dir'[r][i] = dir[r][i] /\ mtimes'[r][i] = mtimes[r][i]
      /\ dir'[r][j] = [dir[r][j] EXCEPT ![f] = new]
      /\ mtimes'[r][j] = IF f = Pkgbuild /\ new # Absent
                           THEN [mtimes[r][j] EXCEPT ![new.ino] = writes + 1] ELSE mtimes[r][j]
  BY <1>2, <1>3, <1>4 DEF RunTyped
<1>9. Base0'
  BY <1>1, <1>3, <1>8 DEF IInv, Base0
<1>10. ASSUME NEW q \in Runs \ {r} PROVE Own(q)'
  <2>1. Own(q) /\ Positions(q)' = Positions(q)
    BY <1>1 DEF IInv, Positions, Closure
  <2>2. RunTyped(q)'
    BY <1>1, <1>3, <1>5, <1>8, <2>1 DEF Own, RunTyped
  <2>3. \A i \in Positions(q) : Recipe(q, i)'
    BY <1>1, <1>8, <2>1 DEF Own, Recipe, BeforeInv, DoingInv, PastInv, TextInv, VerifiedInv, Past, Doing
  <2>4. EndInv(q)' /\ AnswerInv(q)'
    BY <1>1, <2>1 DEF Own, EndInv, AnswerInv
  <2>5. QED
    BY <2>1, <2>2, <2>3, <2>4 DEF Own
<1>11. RunTyped(r)'
  <2>1. dir'[r][j] \in [RecipeNames -> File']
    BY <1>4, <1>5, <1>7, <1>8
  <2>2. mtimes[r][j] \in [0..MaxWrites -> 0..writes]
    BY <1>4 DEF RunTyped
  <2>3. mtimes'[r][j] \in [0..MaxWrites -> 0..writes']
    BY <1>1, <1>3, <1>7, <1>8, <2>2
  <2>4. ASSUME NEW i \in Positions(r) \ {j}
        PROVE  dir'[r][i] \in [RecipeNames -> File'] /\ mtimes'[r][i] \in [0..MaxWrites -> 0..writes']
    <3>1. dir[r][i] \in [RecipeNames -> File] /\ mtimes[r][i] \in [0..MaxWrites -> 0..writes]
      BY <1>4, <2>4 DEF RunTyped
    <3>2. QED
      BY <1>1, <1>3, <1>5, <1>8, <2>4, <3>1
  <2>5. ASSUME NEW i \in Positions(r)
        PROVE  /\ dir'[r][i] \in [RecipeNames -> File']
               /\ mtimes'[r][i] \in [0..MaxWrites -> 0..writes']
    BY <2>1, <2>3, <2>4
  <2>6. /\ DOMAIN review[r] = Positions(r) /\ DOMAIN verified[r] = Positions(r)
        /\ pc[r] \in Pcs /\ (pc[r] # "end" => at[r] \in Positions(r))
    BY <1>4 DEF RunTyped
  <2>7. ASSUME NEW i \in Positions(r)
        PROVE  /\ Fields \subseteq DOMAIN review[r][i]
               /\ review[r][i].ino \in 0..writes' /\ review[r][i].mtime \in 0..writes'
    BY <1>1, <1>3, <1>4, <2>7 DEF RunTyped
  <2>8. QED
    BY <1>1, <1>6, <1>8, <2>5, <2>6, <2>7 DEF RunTyped
<1>12. ASSUME NEW i \in Positions(r) PROVE Recipe(r, i)'
  <2>1. Recipe(r, i)
    BY <1>4, <1>12 DEF Own
  <2>2. BeforeInv(r, i)' /\ DoingInv(r, i)' /\ PastInv(r, i)' /\ VerifiedInv(r, i)'
    BY <1>1, <2>1 DEF Recipe, BeforeInv, DoingInv, PastInv, VerifiedInv, Past, Doing
  <2>3. TextInv(r, i)'
    <3>1. CASE i # j
      BY <1>1, <1>8, <1>12, <2>1, <3>1 DEF Recipe, TextInv
    <3>2. CASE i = j /\ f # Pkgbuild
      <4>1. mtimes'[r][i] = mtimes[r][i] /\ dir'[r][i][Pkgbuild] = dir[r][i][Pkgbuild]
        BY <1>4, <1>8, <3>2 DEF RecipeNames
      <4>2. QED
        BY <1>1, <2>1, <4>1 DEF Recipe, TextInv
    <3>3. CASE i = j /\ f = Pkgbuild /\ new = Absent
      <4>1. mtimes'[r][i] = mtimes[r][i] /\ dir'[r][i][Pkgbuild] = Absent
        BY <1>4, <1>8, <3>3 DEF RecipeNames
      <4>2. QED
        BY <1>1, <2>1, <4>1 DEF Recipe, TextInv
    <3>4. CASE i = j /\ f = Pkgbuild /\ new # Absent
      <4>1. /\ mtimes[r][i] \in [0..MaxWrites -> 0..writes]
            /\ review[r][i].ino \in 0..writes /\ review[r][i].mtime \in 0..writes
        BY <1>4, <1>12 DEF RunTyped
      <4>2. dir'[r][i][Pkgbuild] = new
        BY <1>4, <1>8, <3>4
      <4>3. mtimes'[r][i] = [mtimes[r][i] EXCEPT ![new.ino] = writes + 1]
        BY <1>8, <3>4
      <4>4. CASE new.ino = review[r][i].ino
        <5>1. mtimes'[r][i][review[r][i].ino] = writes + 1
          BY <1>7, <4>1, <4>3, <4>4
        <5>2. review[r][i].mtime # writes + 1
          BY <1>3, <4>1
        <5>3. QED
          BY <1>1, <5>1, <5>2 DEF TextInv
      <4>5. CASE new.ino # review[r][i].ino
        <5>1. mtimes'[r][i][review[r][i].ino] = mtimes[r][i][review[r][i].ino]
          BY <1>3, <4>1, <4>3, <4>5
        <5>2. QED
          BY <1>1, <2>1, <4>2, <4>5, <5>1 DEF Recipe, TextInv
      <4>6. QED
        BY <4>4, <4>5
    <3>5. QED
      BY <3>1, <3>2, <3>3, <3>4
  <2>4. QED
    BY <2>2, <2>3 DEF Recipe
<1>13. Own(r)'
  BY <1>1, <1>4, <1>6, <1>11, <1>12 DEF Own, EndInv, AnswerInv
<1>14. ApprovedWasShown'
  BY <1>1 DEF IInv, ApprovedWasShown, Positions, Closure
<1>15. QED
  BY <1>9, <1>10, <1>13, <1>14 DEF IInv

\* Nothing moves but the stores, and no approval comes of it.
LEMMA StoresMove ==
    ASSUME IInv,
           UNCHANGED <<session, pc, at, left, review, verified, answer, outcome, dir, mtimes, writes>>,
           DOMAIN approvals' = PkgBases,
           \A p \in PkgBases : approvals'[p] = approvals[p] \/ approvals'[p].kind # "approval"
    PROVE  IInv'
<1>1. Base0'
  BY DEF IInv, Base0
<1>2. \A q \in Runs : Positions(q)' = Positions(q) /\ Closure(q)' = Closure(q) /\ File' = File
  BY DEF Positions, Closure, File
<1>3. ASSUME NEW q \in Runs PROVE Own(q)'
  <2>1. Own(q) /\ Positions(q)' = Positions(q) /\ File' = File
    BY <1>2 DEF IInv
  <2>2. RunTyped(q)'
    BY <2>1 DEF Own, RunTyped
  <2>3. \A i \in Positions(q) : Recipe(q, i)'
    BY <2>1 DEF Own, Recipe, BeforeInv, DoingInv, PastInv, TextInv, VerifiedInv, Past, Doing
  <2>4. EndInv(q)' /\ AnswerInv(q)'
    BY <2>1 DEF Own, EndInv, AnswerInv
  <2>5. QED
    BY <2>1, <2>2, <2>3, <2>4 DEF Own
<1>4. ApprovedWasShown'
  <2>1. SUFFICES ASSUME NEW p \in PkgBases, approvals'[p].kind = "approval"
                 PROVE  \E q \in Runs : \E i \in Positions(q) :
                            answer[q] = "yes" /\ Closure(q)[i] = p /\ approvals'[p].digest = review[q][i].digest
    BY <1>2 DEF ApprovedWasShown
  <2>2. approvals'[p] = approvals[p]
    BY <2>1
  <2>3. QED
    BY <2>1, <2>2 DEF IInv, ApprovedWasShown
<1>5. QED
  BY <1>1, <1>3, <1>4 DEF IInv

\* What befalls the stores makes no approval.
LEMMA UpsetStep == ASSUME IInv, Upset PROVE IInv'
<1>1. UNCHANGED <<session, pc, at, left, review, verified, answer, outcome, dir, mtimes, writes>>
  BY DEF Upset, runVars, dirVars
<1>2. \/ UNCHANGED approvals
      \/ \E p \in PkgBases : \/ approvals' = [approvals EXCEPT ![p] = NoRecord]
                             \/ approvals' = [approvals EXCEPT ![p] = Damaged]
  BY DEF Upset, Damage, Revoke, ChangeMode, storeVars
<1>3. /\ DOMAIN approvals' = PkgBases
      /\ \A p \in PkgBases : approvals'[p] = approvals[p] \/ approvals'[p].kind # "approval"
  BY <1>2 DEF IInv, Base0, NoRecord, Damaged
<1>4. QED
  BY <1>1, <1>3, StoresMove

-----------------------------------------------------------------------------

LEMMA InvInit == Init => IInv
<1> SUFFICES ASSUME Init PROVE IInv
  OBVIOUS
<1>1. session \in Sessions /\ MaxWrites \in Nat /\ writes = 0
  BY WritesAssumption DEF Init
<1>2. Base0
  BY <1>1 DEF Init, Base0, StoreInit
<1>3. ASSUME NEW r \in Runs PROVE Own(r)
  <2>1. /\ pc[r] = IF Command(r) = "none" THEN "end" ELSE "stage"
        /\ at[r] = 1
        /\ dir[r] = [i \in Positions(r) |-> [f \in RecipeNames |-> Absent]]
        /\ mtimes[r] = [i \in Positions(r) |-> [n \in 0..MaxWrites |-> 0]]
        /\ review[r] = [i \in Positions(r) |-> Unreviewed]
        /\ verified[r] = [i \in Positions(r) |-> NoDigest]
        /\ answer[r] = "none"
        /\ outcome[r] = [kind |-> "none", exit |-> 0]
    BY DEF Init
  <2>2. /\ Command(r) # "none" => 1 \in Positions(r)
        /\ Command(r) = "none" => Positions(r) = {}
    <3>1. /\ Command(r) \in {"install", "review", "none"}
          /\ Command(r) = "install" => Len(Closure(r)) > 0
          /\ Command(r) = "review" => Len(Closure(r)) = 1
          /\ Command(r) = "none" => Closure(r) = <<>>
      BY <1>1, SessionsAssumption DEF Command, Closure
    <3>2. Positions(r) = 1..Len(Closure(r)) /\ Len(Closure(r)) \in Nat
      BY <1>1, PositionsAre
    <3>3. QED
      BY <3>1, <3>2
  <2>3. pc[r] \in {"stage", "end"} /\ (pc[r] = "end" => Positions(r) = {})
    BY <2>1, <2>2
  <2>4. RunTyped(r)
    BY <1>1, <2>1, <2>2, <2>3 DEF RunTyped, Pcs, Early, Late, File, Fields, Unreviewed
  <2>5. ASSUME NEW i \in Positions(r) PROVE Recipe(r, i)
    <3>1. pc[r] = "stage" /\ verified[r][i] = NoDigest /\ review[r][i] = Unreviewed
      BY <2>1, <2>3, <2>5
    <3>2. DOMAIN NoDigest = {}
      BY DEF NoDigest
    <3>3. ~Past(r, i) /\ ~Doing(r, i) /\ Shown(review[r][i])
      BY <3>1, <3>2 DEF Past, Doing, Early, Shown, Unreviewed
    <3>4. QED
      BY <3>1, <3>3 DEF Recipe, BeforeInv, DoingInv, PastInv, TextInv, VerifiedInv, Unreviewed
  <2>6. EndInv(r) /\ AnswerInv(r)
    BY <2>1, <2>3 DEF EndInv, AnswerInv
  <2>7. QED
    BY <2>4, <2>5, <2>6 DEF Own
<1>4. ApprovedWasShown
  BY DEF Init, StoreInit, ApprovedWasShown, NoRecord
<1>5. QED
  BY <1>2, <1>3, <1>4 DEF IInv

LEMMA InvNext == IInv /\ [Next]_vars => IInv'
<1> SUFFICES ASSUME IInv, [Next]_vars PROVE IInv'
  OBVIOUS
<1>1. ASSUME NEW r \in Runs, Step(r) PROVE IInv'
  BY <1>1, StageStep, SkipStep, ReadStep, ProbeStep, DigestStep, LookupStep, RenderStep,
     AskStep, RecordStep, CaptureStep, VerifyStep, AgainStep, HandOverStep DEF Step
<1>2. ASSUME NEW r \in Runs, NEW i \in Positions(r), NEW f \in RecipeNames, WriteFile(r, i, f)
      PROVE  IInv'
  BY <1>2, WriteStep
<1>3. CASE Upset
  BY <1>3, UpsetStep
<1>4. CASE UNCHANGED vars
  <2>1. UNCHANGED <<session, approvals, pc, at, left, review, verified, answer, outcome, dir, mtimes, writes>>
    BY <1>4 DEF vars, storeVars, runVars, dirVars
  <2>2. QED
    BY <2>1, StoresMove DEF IInv, Base0
<1>5. QED
  BY <1>1, <1>2, <1>3, <1>4 DEF Next

\* The invariant holds in every behaviour of the installs and reviews.
THEOREM FlowInductive == Spec => []IInv
BY InvInit, InvNext, PTL DEF Spec

\* No order of installs, reviews, edits, damage and refused writes leaves a
\* record of an approval for a digest that nobody was shown and said yes to.
THEOREM ApprovedAlwaysShown == Spec => []ApprovedWasShown
<1>1. IInv => ApprovedWasShown
  BY DEF IInv
<1>2. QED
  BY <1>1, FlowInductive, PTL

\* A directory that is handed over was digested and read again recipe by
\* recipe, and what it lacks or could not be reviewed of it was told.
THEOREM HandedAlwaysShownOrTold == Spec => []HandedIsShownOrTold
<1>1. IInv => HandedIsShownOrTold
  <2>1. SUFFICES ASSUME IInv, NEW r \in Runs, outcome[r].kind = "handed over", NEW i \in Positions(r)
                 PROVE  LET given == review[r][i] IN
                        IF given.digest = NoDigest THEN given.told
                        ELSE /\ verified[r][i] = given.digest
                             /\ given.digestIno = given.ino => given.digest[Pkgbuild] = given.text
                             /\ given.told \/ NamesOf[given.text] \subseteq DOMAIN given.digest
    BY DEF HandedIsShownOrTold
  <2>2. /\ Recipe(r, i) /\ Past(r, i) /\ verified[r][i] = review[r][i].digest
    BY <2>1 DEF IInv, Own, EndInv, Past, Early
  <2>3. CASE review[r][i].digest = NoDigest
    <3>1. DOMAIN NoDigest = {}
      BY DEF NoDigest
    <3>2. QED
      BY <2>2, <2>3, <3>1 DEF Recipe, PastInv, WholeReview
  <2>4. CASE review[r][i].digest # NoDigest
    BY <2>2, <2>4 DEF Recipe, PastInv, VerifiedInv, Shown, WholeReview
  <2>5. QED
    BY <2>3, <2>4
<1>2. QED
  BY <1>1, FlowInductive, PTL

\* A review that ends in 0 established everything it set out to establish.
THEOREM CleanReviewAlwaysWhole == Spec => []CleanReviewIsWhole
<1>1. IInv => CleanReviewIsWhole
  <2>1. SUFFICES ASSUME IInv, NEW r \in Runs, outcome[r] = [kind |-> "reviewed", exit |-> 0]
                 PROVE  LET got == review[r][1] IN
                        /\ got.text \in Contents \ HitTexts
                        /\ DOMAIN got.digest = {Pkgbuild} \cup NamesOf[got.text]
                        /\ got.status \in Statuses \ {"could-not-determine"}
    BY DEF CleanReviewIsWhole
  <2>2. /\ 1 \in Positions(r) /\ pc[r] = "end" /\ ~review[r][1].told /\ ~review[r][1].hit
    BY <2>1 DEF IInv, Own, EndInv
  <2>3. Recipe(r, 1) /\ Past(r, 1)
    <3>1. \A i \in Positions(r) : Recipe(r, i)
      <4>1. Own(r)
        BY <2>1 DEF IInv
      <4>2. QED
        BY <4>1, Zenon DEF Own
    <3>2. Past(r, 1)
      BY <2>2 DEF Past, Early
    <3>3. QED
      BY <2>2, <3>1, <3>2
  <2>4. WholeReview(review[r][1])
    BY <2>2, <2>3 DEF Recipe, PastInv
  <2>5. QED
    BY <2>2, <2>4 DEF WholeReview
<1>2. QED
  BY <1>1, FlowInductive, PTL

-----------------------------------------------------------------------------
(* The walk of a closure.                                                 *)

\* Distinct leaves nothing out and adds nothing.
LEMMA DistinctHas ==
    ASSUME NEW S, NEW names \in Seq(S)
    PROVE  Distinct(names) \in Seq(S) /\ Range(Distinct(names)) = Range(names)
<1> DEFINE n == Len(names)
           T == Seq(S)
           Kept(F) == [k \in 0..n |-> IF k = 0 THEN << >>
                                      ELSE IF Contains(F[k - 1], names[k]) THEN F[k - 1]
                                      ELSE Append(F[k - 1], names[k])]
           kept == CHOOSE F : F = Kept(F)
           Steps == [k \in 1..n |-> [s \in T |-> IF Contains(s, names[k]) THEN s ELSE Append(s, names[k])]]
<1>1. n \in Nat /\ (\A k \in 1..n : names[k] \in S) /\ << >> \in T /\ DOMAIN names = 1..n
  OBVIOUS
<1>2. Steps \in [1..n -> [T -> T]]
  BY <1>1
<1>3. PICK g \in [0..n -> T] : Iterates(g, n, << >>, Steps)
  <2> HIDE DEF Steps, T
  <2> QED BY <1>1, <1>2, IterateExists
<1>4. g = Kept(g)
  <2>1. ASSUME NEW k \in 0..n
        PROVE  g[k] = IF k = 0 THEN << >>
                      ELSE IF Contains(g[k - 1], names[k]) THEN g[k - 1]
                      ELSE Append(g[k - 1], names[k])
    <3>1. g[k] = IF k = 0 THEN << >> ELSE Steps[k][g[k - 1]]
      <4> HIDE DEF Steps
      <4> QED BY <1>3 DEF Iterates
    <3>2. k # 0 => k \in 1..n /\ g[k - 1] \in T
      <4>1. k # 0 => k - 1 \in 0..n
        BY <1>1
      <4> QED BY <1>1, <1>3, <4>1
    <3> QED BY <3>1, <3>2
  <2>2. g = [k \in 0..n |-> g[k]]
    BY SMTT(30)
  <2> QED BY <2>1, <2>2
<1>5. kept = Kept(kept)
  BY <1>4
<1>6. Distinct(names) = kept[n]
  BY DEF Distinct
<1> HIDE DEF kept
<1>7. ASSUME NEW k \in 0..n
      PROVE  kept[k] = IF k = 0 THEN << >>
                       ELSE IF Contains(kept[k - 1], names[k]) THEN kept[k - 1]
                       ELSE Append(kept[k - 1], names[k])
  BY <1>5
<1> DEFINE Upto(k) == {names[i] : i \in 1..k}
           P == {k \in 0..n : kept[k] \in T /\ Range(kept[k]) = Upto(k)}
<1>8. 0 \in P
  <2>1. kept[0] = << >> /\ 0 \in 0..n
    BY <1>1, <1>7
  <2>2. Range(<< >>) = {}
    BY DEF Range
  <2>3. Upto(0) = {}
    OBVIOUS
  <2> QED BY <1>1, <2>1, <2>2, <2>3
<1>9. ASSUME NEW k \in Nat, k < n, k \in P
      PROVE  k + 1 \in P
  <2>1. k + 1 \in 0..n /\ k + 1 \in 1..n /\ (k + 1) - 1 = k /\ k + 1 # 0
    BY <1>1, <1>9
  <2>2. kept[k + 1] = IF Contains(kept[k], names[k + 1]) THEN kept[k] ELSE Append(kept[k], names[k + 1])
    BY <1>7, <2>1
  <2>3. Upto(k + 1) = Upto(k) \cup {names[k + 1]}
    BY <2>1
  <2>4. kept[k] \in T /\ Range(kept[k]) = Upto(k) /\ names[k + 1] \in S
    BY <1>1, <1>9, <2>1
  <2> HIDE DEF Upto
  <2>5. CASE Contains(kept[k], names[k + 1])
    <3>1. names[k + 1] \in Range(kept[k])
      BY <2>5 DEF Contains, Range
    <3> QED BY <2>1, <2>2, <2>3, <2>4, <2>5, <3>1
  <2>6. CASE ~Contains(kept[k], names[k + 1])
    <3>1. /\ Append(kept[k], names[k + 1]) \in T
          /\ Range(Append(kept[k], names[k + 1])) = Range(kept[k]) \cup {names[k + 1]}
      <4>1. PICK s, e : s = kept[k] /\ e = names[k + 1]
        OBVIOUS
      <4>2. s \in Seq(S) /\ e \in S
        BY <2>4, <4>1
      <4>3. Append(s, e) \in Seq(S) /\ DOMAIN Append(s, e) = 1..(Len(s) + 1) /\ DOMAIN s = 1..Len(s) /\ Len(s) \in Nat
        BY <4>2
      <4>4. \A i \in 1..(Len(s) + 1) : Append(s, e)[i] = IF i = Len(s) + 1 THEN e ELSE s[i]
        BY <4>2
      <4>5. Range(Append(s, e)) = Range(s) \cup {e}
        BY <4>3, <4>4 DEF Range
      <4> QED BY <4>1, <4>3, <4>5
    <3> QED BY <2>1, <2>2, <2>3, <2>4, <2>6, <3>1
  <2> QED BY <2>5, <2>6
<1>10. n \in P
  <2>1. n \in 0..n
    BY <1>1
  <2> HIDE DEF P, n
  <2>2. \A k \in 0..n : k \in P
    BY <1>1, <1>8, <1>9, Along
  <2> QED BY <2>1, <2>2
<1>11. Upto(n) = Range(names)
  BY <1>1 DEF Range
<1> QED BY <1>6, <1>10, <1>11

-----------------------------------------------------------------------------
(* What a walk without a gap has found out so far.                         *)

Keys == Names \cup Bases
Marks == {"", "self", "cycle", "repeat"}
Edges == [name : Names, to : Keys \cup {NoKey}, mark : Marks]
Refs == [from : Nat \ {0}, name : Names]

\* Without a gap there is no node that nothing placed.
Node == [key : Keys, kind : {"aur", "repo", "repo-provides"}, names : SUBSET Keys, parent : Nat,
         depth : Nat, deps : Seq(Edges), reviewed : BOOLEAN]

\* A node is of the kind it says, and one of the AUR was read whole.
Founded(nd) ==
    /\ nd.kind = "repo" => nd.key \in Repo
    /\ nd.kind = "repo-provides" => nd.key \in Provided \ DOMAIN BaseOf
    /\ nd.kind = "aur" => nd.key \in Bases /\ nd.reviewed /\ world.recipe[nd.key] = "whole"

\* A name is where it belongs.
Right(nd, n) == LivesInAUR(n) => nd.key = BaseOf[n] /\ nd.reviewed
Settled(ns, n) == \E j \in DOMAIN ns : n \in ns[j].names /\ Right(ns[j], n)

\* The name of a dependency is settled, or the node is still to be expanded, or
\* the dependency is still to be placed.
Pending(i, n) ==
    \/ phase = "expand" /\ i \in Range(frontier)
    \/ i \in Range(next)
    \/ phase \in {"ask", "place"} /\ \E k \in DOMAIN refs : refs[k].name = n

WalkTyped ==
    /\ world \in Worlds /\ world.loaded
    /\ nodes \in Seq(Node) /\ depth \in Nat
    /\ frontier \in Seq(DOMAIN nodes) /\ next \in Seq(DOMAIN nodes)
    /\ refs \in Seq(Refs)
    /\ phase \in {"expand", "ask", "place", "done"}
    /\ phase # "place" => next = << >>

NodesInv == \A i \in DOMAIN nodes : Founded(nodes[i])

NamesInv == \A n \in DOMAIN byName : byName[n] \in DOMAIN nodes /\ Right(nodes[byName[n]], n)

DepsInv ==
    \A i \in DOMAIN nodes : nodes[i].kind = "aur" =>
        \A n \in Range(world.declares[nodes[i].key]) : Settled(nodes, n) \/ Pending(i, n)

\* What place can do without the AUR.
Local(n) == n \in Refused \cup DOMAIN byName \cup world.local \cup Repo

AskedInv ==
    phase = "place" =>
        /\ failed = FALSE
        /\ DOMAIN remote \subseteq DOMAIN BaseOf
        /\ \A k \in DOMAIN refs :
               LET n == refs[k].name
               IN  /\ n \in DOMAIN BaseOf => Local(n) \/ n \in DOMAIN remote
                   /\ world.resolver \/ Local(n)

Whole == WalkTyped /\ NodesInv /\ NamesInv /\ DepsInv /\ AskedInv

WalkInv == gaps = {} => Whole

-----------------------------------------------------------------------------
(* The first node.                                                         *)

LEMMA WorldHas ==
    ASSUME NEW w \in Worlds
    PROVE  /\ w.declares \in [Bases -> Seq(Names)]
           /\ w.recipe \in [Bases -> {"absent", "srcinfo", "whole"}]
           /\ w.local \subseteq {n \in DOMAIN BaseOf : BaseOf[n] \in Bases}
           /\ w.loaded \in BOOLEAN /\ w.resolver \in BOOLEAN
  BY WorldAssumption

LEMMA WalkBegins ==
    ASSUME KeysApart, WalkInit, gaps = {}
    PROVE  Whole
<1>1. world \in Worlds /\ world.loaded /\ world.recipe[Root] = "whole" /\ Root \in Bases
  BY WorldAssumption DEF WalkInit, RecipeGap
<1>2. PICK nd : nd = NewNode(Root, "aur", Root, NoParent)
  OBVIOUS
<1>3. nd = [key |-> Root, kind |-> "aur", names |-> {Root}, parent |-> 0, depth |-> 0, deps |-> << >>,
            reviewed |-> TRUE]
  BY <1>1, <1>2 DEF NewNode, NoParent
<1>4. nd \in Node
  BY <1>1, <1>3 DEF Node, Keys
<1>5. nodes = << nd >> /\ DOMAIN nodes = {1} /\ nodes[1] = nd /\ nodes \in Seq(Node)
  BY <1>2, <1>4 DEF WalkInit
<1>6. Founded(nd)
  BY <1>1, <1>3 DEF Founded
<1>7. Right(nd, Root)
  BY <1>1, <1>3 DEF Right, KeysApart, LivesInAUR
<1>8. WalkTyped
  BY <1>1, <1>5 DEF WalkInit, WalkTyped
<1>9. NodesInv
  BY <1>5, <1>6 DEF NodesInv
<1>10. NamesInv
  BY <1>5, <1>7 DEF NamesInv, WalkInit
<1>11. DepsInv
  <2>1. \A i \in DOMAIN nodes : i \in Range(frontier)
    BY <1>5 DEF WalkInit, Range
  <2> QED BY <2>1 DEF DepsInv, Pending, WalkInit
<1>12. AskedInv
  BY DEF AskedInv, WalkInit
<1> QED BY <1>8, <1>9, <1>10, <1>11, <1>12 DEF Whole

-----------------------------------------------------------------------------
(* The steps that place nothing.                                           *)

LEMMA DeclaredIs ==
    ASSUME WalkTyped, NodesInv, NEW i \in DOMAIN nodes
    PROVE  /\ Declared(i) \in Seq(Names)
           /\ nodes[i].kind = "aur" => Range(Declared(i)) = Range(world.declares[nodes[i].key])
<1>1. CASE nodes[i].kind = "aur"
  <2>1. nodes[i].key \in Bases /\ world.recipe[nodes[i].key] = "whole"
    BY <1>1 DEF NodesInv, Founded
  <2>2. world.declares[nodes[i].key] \in Seq(Names)
    BY <2>1, WorldHas DEF WalkTyped
  <2>3. Declared(i) = Distinct(world.declares[nodes[i].key])
    BY <1>1, <2>1 DEF Declared, OnSystem
  <2> QED BY <2>2, <2>3, DistinctHas
<1>2. CASE nodes[i].kind # "aur"
  BY <1>2 DEF Declared
<1> QED BY <1>1, <1>2

LEMMA StopKeeps ==
    ASSUME Whole, Stop, gaps' = {}
    PROVE  Whole'
<1>1. phase = "expand" /\ phase' = "done" /\ UNCHANGED <<world, nodes, byName, frontier, depth, refs, remote, failed, next>>
  BY DEF Stop, reply
<1>2. \A i \in Range(frontier) : Declared(i) = << >>
  BY DEF Stop
<1>3. WalkTyped'
  BY <1>1 DEF Whole, WalkTyped
<1>4. NodesInv'
  BY <1>1 DEF Whole, NodesInv, Founded
<1>5. NamesInv'
  BY <1>1 DEF Whole, NamesInv, Right
<1>6. AskedInv'
  BY <1>1 DEF AskedInv
<1>7. ASSUME NEW i \in DOMAIN nodes, nodes[i].kind = "aur", NEW n \in Range(world.declares[nodes[i].key])
      PROVE  Settled(nodes, n)
  <2>1. Settled(nodes, n) \/ Pending(i, n)
    BY <1>7 DEF Whole, DepsInv
  <2>2. n \in Range(Declared(i))
    BY <1>7, DeclaredIs DEF Whole
  <2>3. i \notin Range(frontier)
    BY <1>2, <2>2 DEF Range
  <2>4. i \notin Range(next)
    BY <1>1 DEF Whole, WalkTyped, Range
  <2> QED BY <1>1, <2>1, <2>3, <2>4 DEF Pending
<1>8. DepsInv'
  BY <1>1, <1>7 DEF DepsInv, Settled, Right
<1> QED BY <1>3, <1>4, <1>5, <1>6, <1>8 DEF Whole

EdgesOf(i) == [k \in DOMAIN Declared(i) |-> [from |-> i, name |-> Declared(i)[k]]]

LEMMA LeastOfTwo ==
    ASSUME NEW a \in Nat, NEW b \in Nat, a <= b
    PROVE  Min({a, b}) = a
  BY DEF Min

LEMMA ExpandsAll ==
    ASSUME WalkTyped, NodesInv, Expand, gaps' = {}
    PROVE  refs' = FlattenSeq([k \in DOMAIN frontier |-> EdgesOf(frontier[k])])
<1> DEFINE upToBound(i) == SubSeq(Declared(i), 1, Min({Len(Declared(i)), MaxDepsPerNode}))
           edges(i) == [k \in DOMAIN upToBound(i) |-> [from |-> i, name |-> upToBound(i)[k]]]
<1>1. refs' = FlattenSeq([k \in DOMAIN frontier |-> edges(frontier[k])])
  BY DEF Expand
<1>2. ASSUME NEW k \in DOMAIN frontier PROVE edges(frontier[k]) = EdgesOf(frontier[k])
  <2>1. PICK i, d : i = frontier[k] /\ d = Declared(i)
    OBVIOUS
  <2>2. i \in DOMAIN nodes /\ i \in Range(frontier)
    BY <2>1 DEF WalkTyped, Range
  <2>3. d \in Seq(Names)
    BY <2>1, <2>2, DeclaredIs
  <2>4. ~(Len(d) > MaxDepsPerNode)
    BY <2>1, <2>2 DEF Expand
  <2>5. Len(d) \in Nat /\ MaxDepsPerNode \in Nat /\ Len(d) <= MaxDepsPerNode
    BY <2>3, <2>4, BoundsAssumption
  <2>6. Min({Len(d), MaxDepsPerNode}) = Len(d)
    BY <2>5, LeastOfTwo
  <2>7. SubSeq(d, 1, Len(d)) = d
    BY <2>3, SubSeqFull
  <2>8. upToBound(i) = d
    BY <2>1, <2>6, <2>7
  <2> QED BY <2>1, <2>8 DEF EdgesOf
<1> QED BY <1>1, <1>2

LEMMA ExpandKeeps ==
    ASSUME Whole, Expand, gaps' = {}
    PROVE  Whole'
<1>0. WalkTyped /\ NodesInv /\ NamesInv /\ DepsInv
  BY DEF Whole
<1>1. phase = "expand" /\ phase' = "ask" /\ UNCHANGED <<world, nodes, byName, frontier, depth, remote, failed, next>>
  BY DEF Expand, reply
<1>2. PICK lists : lists = [k \in DOMAIN frontier |-> EdgesOf(frontier[k])]
  OBVIOUS
<1>3. refs' = FlattenSeq(lists)
  BY <1>0, <1>2, ExpandsAll
<1>4. frontier \in Seq(DOMAIN nodes) /\ DOMAIN nodes \subseteq Nat \ {0}
  BY <1>0 DEF WalkTyped
<1>5. ASSUME NEW i \in DOMAIN nodes PROVE EdgesOf(i) \in Seq(Refs)
  <2>1. Declared(i) \in Seq(Names) /\ i \in Nat \ {0}
    BY <1>0, <1>4, DeclaredIs
  <2>2. PICK d, n : d = Declared(i) /\ n = Len(d)
    OBVIOUS
  <2>3. n \in Nat /\ DOMAIN d = 1..n /\ \A k \in 1..n : d[k] \in Names
    BY <2>1, <2>2
  <2>4. EdgesOf(i) = [k \in 1..n |-> [from |-> i, name |-> d[k]]]
    BY <2>2, <2>3 DEF EdgesOf
  <2>5. \A k \in 1..n : [from |-> i, name |-> d[k]] \in Refs
    BY <2>1, <2>3 DEF Refs
  <2> QED BY <2>3, <2>4, <2>5
<1>6. lists \in Seq(Seq(Refs))
  <2>1. \A k \in DOMAIN frontier : lists[k] \in Seq(Refs)
    BY <1>2, <1>4, <1>5
  <2>2. DOMAIN lists = 1..Len(frontier) /\ Len(frontier) \in Nat /\ lists = [k \in 1..Len(frontier) |-> lists[k]]
    BY <1>2, <1>4
  <2> QED BY <2>1, <2>2
<1>7. refs' \in Seq(Refs)
  BY <1>3, <1>6, FlattenType
<1>8. WalkTyped'
  BY <1>0, <1>1, <1>7 DEF WalkTyped
<1>9. NodesInv'
  BY <1>0, <1>1 DEF NodesInv, Founded
<1>10. NamesInv'
  BY <1>0, <1>1 DEF NamesInv, Right
<1>11. AskedInv'
  BY <1>1 DEF AskedInv
<1>12. ASSUME NEW i \in DOMAIN nodes, nodes[i].kind = "aur", NEW n \in Range(world.declares[nodes[i].key])
      PROVE  Settled(nodes, n) \/ \E k \in DOMAIN refs' : refs'[k].name = n
  <2>1. Settled(nodes, n) \/ Pending(i, n)
    BY <1>0, <1>12 DEF DepsInv
  <2>2. i \notin Range(next)
    BY <1>0, <1>1 DEF WalkTyped, Range
  <2>3. SUFFICES ASSUME i \in Range(frontier) PROVE \E k \in DOMAIN refs' : refs'[k].name = n
    BY <1>1, <2>1, <2>2 DEF Pending
  <2>4. PICK k \in DOMAIN frontier : i = frontier[k]
    BY <2>3 DEF Range
  <2>5. n \in Range(Declared(i))
    BY <1>0, <1>12, DeclaredIs
  <2>6. PICK m \in DOMAIN Declared(i) : n = Declared(i)[m]
    BY <2>5 DEF Range
  <2>7. PICK ref : ref = [from |-> i, name |-> n]
    OBVIOUS
  <2>8. ref \in Range(lists[k]) /\ k \in DOMAIN lists
    BY <1>2, <2>4, <2>6, <2>7 DEF EdgesOf, Range
  <2>9. ref \in Range(FlattenSeq(lists))
    BY <1>6, <2>8, FlattenHas
  <2>10. PICK q \in DOMAIN refs' : ref = refs'[q]
    BY <1>3, <2>9 DEF Range
  <2> QED BY <2>7, <2>10
<1>13. DepsInv'
  BY <1>1, <1>12 DEF DepsInv, Settled, Right, Pending
<1> QED BY <1>8, <1>9, <1>10, <1>11, <1>13 DEF Whole

LEMMA AskKeeps ==
    ASSUME Whole, AskAUR, gaps' = {}
    PROVE  Whole'
<1>0. WalkTyped /\ NodesInv /\ NamesInv /\ DepsInv
  BY DEF Whole
<1>1. phase = "ask" /\ phase' = "place" /\ UNCHANGED <<world, nodes, byName, frontier, depth, refs, next>>
  BY DEF AskAUR
<1>2. (Asked = {} \/ world.resolver) /\ remote' = Known(Asked) /\ failed' = FALSE
  BY DEF AskAUR
<1>3. WalkTyped'
  BY <1>0, <1>1 DEF WalkTyped
<1>4. NodesInv'
  BY <1>0, <1>1 DEF NodesInv, Founded
<1>5. NamesInv'
  BY <1>0, <1>1 DEF NamesInv, Right
<1>6. DepsInv'
  BY <1>0, <1>1 DEF DepsInv, Settled, Right, Pending
<1>7. ASSUME NEW k \in DOMAIN refs
      PROVE  Local(refs[k].name) \/ refs[k].name \in Asked
  <2>1. refs[k] \in Range(refs)
    BY DEF Range
  <2> QED BY <2>1 DEF Asked, Local, InRepo
<1>8. DOMAIN Known(Asked) = Asked \cap DOMAIN BaseOf /\ \A n \in Asked \cap DOMAIN BaseOf : Known(Asked)[n] = BaseOf[n]
  BY DEF Known
<1>9. AskedInv'
  BY <1>1, <1>2, <1>7, <1>8 DEF AskedInv, Local, Known
<1> QED BY <1>3, <1>4, <1>5, <1>6, <1>9 DEF Whole

LEMMA EndLevelKeeps ==
    ASSUME Whole, EndLevel
    PROVE  Whole'
<1>0. WalkTyped /\ NodesInv /\ NamesInv /\ DepsInv
  BY DEF Whole
<1>1. /\ phase = "place" /\ refs = << >> /\ frontier' = next /\ next' = << >> /\ depth' = depth + 1
      /\ phase' = "expand" /\ UNCHANGED <<world, nodes, byName, refs, remote, failed>>
  BY DEF EndLevel, reply
<1>2. WalkTyped'
  BY <1>0, <1>1 DEF WalkTyped
<1>3. NodesInv'
  BY <1>0, <1>1 DEF NodesInv, Founded
<1>4. NamesInv'
  BY <1>0, <1>1 DEF NamesInv, Right
<1>5. AskedInv'
  BY <1>1 DEF AskedInv
<1>6. DepsInv'
  BY <1>0, <1>1 DEF DepsInv, Settled, Right, Pending
<1> QED BY <1>2, <1>3, <1>4, <1>5, <1>6 DEF Whole

-----------------------------------------------------------------------------
(* A dependency is placed.                                                 *)

Same(nd2, nd) == nd2.key = nd.key /\ nd2.kind = nd.kind /\ nd2.reviewed = nd.reviewed /\ nd.names \subseteq nd2.names

Grown(ns2, ns) ==
    /\ ns2 \in Seq(Node) /\ DOMAIN ns \subseteq DOMAIN ns2
    /\ \A i \in DOMAIN ns : Same(ns2[i], ns[i])

\* An edge changes nothing but a list of edges.
OnlyEdges(ns2, ns) ==
    /\ ns2 \in Seq(Node) /\ DOMAIN ns2 = DOMAIN ns
    /\ \A i \in DOMAIN ns : /\ ns2[i].key = ns[i].key /\ ns2[i].kind = ns[i].kind
                            /\ ns2[i].reviewed = ns[i].reviewed /\ ns2[i].names = ns[i].names
                            /\ ns2[i].depth = ns[i].depth

LEMMA AddEdgeKeeps ==
    ASSUME NEW ns \in Seq(Node), NEW r \in Refs, NEW to \in Keys \cup {NoKey}, NEW mark \in Marks,
           NEW ns2, ns2 = AddEdge(ns, r, to, mark)
    PROVE  OnlyEdges(ns2, ns)
<1>1. PICK n, from, edge : n = Len(ns) /\ from = r.from /\ edge = [name |-> r.name, to |-> to, mark |-> mark]
  OBVIOUS
<1>2. n \in Nat /\ DOMAIN ns = 1..n /\ (\A i \in 1..n : ns[i] \in Node) /\ edge \in Edges
  BY <1>1 DEF Refs, Edges
<1>3. ns2 = [ns EXCEPT ![from].deps = Append(@, edge)]
  BY <1>1 DEF AddEdge
<1>4. DOMAIN ns2 = 1..n
  BY <1>2, <1>3
<1>5. ASSUME NEW i \in 1..n
      PROVE  /\ ns2[i] \in Node
             /\ ns2[i].key = ns[i].key /\ ns2[i].kind = ns[i].kind /\ ns2[i].depth = ns[i].depth
             /\ ns2[i].reviewed = ns[i].reviewed /\ ns2[i].names = ns[i].names
  <2>1. PICK nd : nd = ns[i]
    OBVIOUS
  <2>2. nd \in Node
    BY <1>2, <2>1
  <2>3. CASE i = from
    <3>1. ns2[i] = [nd EXCEPT !.deps = Append(nd.deps, edge)]
      BY <1>2, <1>3, <2>1, <2>3
    <3>2. Append(nd.deps, edge) \in Seq(Edges)
      BY <1>2, <2>2 DEF Node
    <3> QED BY <2>1, <2>2, <3>1, <3>2 DEF Node
  <2>4. CASE i # from
    <3>1. ns2[i] = nd
      BY <1>2, <1>3, <2>1, <2>4
    <3> QED BY <2>1, <2>2, <3>1
  <2> QED BY <2>3, <2>4
<1>6. ns2 = [i \in 1..n |-> ns2[i]]
  BY <1>2, <1>3
<1>7. ns2 \in Seq(Node) /\ Len(ns2) = n
  BY <1>2, <1>5, <1>6
<1> QED BY <1>2, <1>4, <1>5, <1>7 DEF OnlyEdges

\* What the placing of the next dependency leaves as it was, and what it says
\* of the dependency.
Placing(r) ==
    /\ phase = "place" /\ refs # << >> /\ r = Head(refs) /\ refs' = Tail(refs)
    /\ UNCHANGED <<world, frontier, depth, reply, phase>>

Placed(r) ==
    /\ Grown(nodes', nodes) /\ Settled(nodes', r.name)
    /\ \A i \in DOMAIN nodes' : Founded(nodes'[i])
    /\ DOMAIN byName \subseteq DOMAIN byName'
    /\ \A n \in DOMAIN byName' : byName'[n] \in DOMAIN nodes' /\ Right(nodes'[byName'[n]], n)
    /\ next' \in Seq(DOMAIN nodes') /\ Range(next) \subseteq Range(next')
    /\ \A i \in DOMAIN nodes' : i \in DOMAIN nodes \/ nodes'[i].kind # "aur" \/ i \in Range(next')

LEMMA HeadIs ==
    ASSUME WalkTyped, NEW r, Placing(r)
    PROVE  r \in Refs /\ r = refs[1] /\ 1 \in DOMAIN refs
  BY DEF Placing, WalkTyped

\* The next one is done and the others are to come.
LEMMA RestIs ==
    ASSUME NEW S, NEW s \in Seq(S), s # << >>, NEW t, t = Tail(s)
    PROVE  /\ t \in Seq(S) /\ \A k \in DOMAIN t : k + 1 \in DOMAIN s /\ t[k] = s[k + 1]
           /\ \A k \in DOMAIN s : k = 1 \/ (k - 1 \in DOMAIN t /\ t[k - 1] = s[k])
<1>1. PICK n : n = Len(s)
  OBVIOUS
<1>2. n \in Nat /\ n # 0 /\ DOMAIN s = 1..n
  BY <1>1
<1>3. t \in Seq(S) /\ DOMAIN t = 1..(n - 1) /\ \A k \in 1..(n - 1) : t[k] = s[k + 1]
  BY <1>1, <1>2
<1>4. \A k \in 1..n : k = 1 \/ (k - 1 \in 1..(n - 1) /\ (k - 1) + 1 = k)
  BY <1>2
<1>5. \A k \in 1..(n - 1) : k + 1 \in 1..n
  BY <1>2
<1> QED BY <1>2, <1>3, <1>4, <1>5

LEMMA PlacedKeeps ==
    ASSUME Whole, NEW r, Placing(r), Placed(r)
    PROVE  Whole'
<1>0. WalkTyped /\ NodesInv /\ NamesInv /\ DepsInv /\ AskedInv
  BY DEF Whole
<1>1. phase = "place" /\ UNCHANGED <<world, frontier, depth, remote, failed, phase>>
  BY DEF Placing, reply
<1>2. /\ refs' \in Seq(Refs)
      /\ \A k \in DOMAIN refs' : k + 1 \in DOMAIN refs /\ refs'[k] = refs[k + 1]
      /\ \A k \in DOMAIN refs : refs[k] = r \/ \E j \in DOMAIN refs' : refs'[j] = refs[k]
  <2>1. refs \in Seq(Refs) /\ refs # << >>
    BY <1>0 DEF WalkTyped, Placing
  <2>2. PICK t : t = Tail(refs)
    OBVIOUS
  <2>3. /\ t \in Seq(Refs) /\ \A k \in DOMAIN t : k + 1 \in DOMAIN refs /\ t[k] = refs[k + 1]
        /\ \A k \in DOMAIN refs : k = 1 \/ (k - 1 \in DOMAIN t /\ t[k - 1] = refs[k])
    BY <2>1, <2>2, RestIs
  <2>4. refs' = t /\ r = refs[1]
    BY <1>0, <2>2, HeadIs DEF Placing
  <2> QED BY <2>3, <2>4
<1>3. WalkTyped'
  <2>1. DOMAIN nodes \subseteq DOMAIN nodes' /\ nodes' \in Seq(Node) /\ next' \in Seq(DOMAIN nodes')
    BY DEF Placed, Grown
  <2>2. frontier \in Seq(DOMAIN nodes')
    BY <1>0, <2>1 DEF WalkTyped
  <2> QED BY <1>0, <1>1, <1>2, <2>1, <2>2 DEF WalkTyped
<1>4. NodesInv'
  BY <1>1 DEF NodesInv, Placed, Founded
<1>5. NamesInv'
  BY DEF NamesInv, Placed, Right
<1>6. ASSUME NEW n, Settled(nodes, n) PROVE Settled(nodes', n)
  BY <1>6 DEF Placed, Grown, Same, Settled, Right
<1>7. ASSUME NEW i \in DOMAIN nodes', nodes'[i].kind = "aur", NEW n \in Range(world.declares[nodes'[i].key])
      PROVE  \/ Settled(nodes', n) \/ i \in Range(next') 
             \/ \E k \in DOMAIN refs' : refs'[k].name = n
  <2>1. CASE i \notin DOMAIN nodes
    BY <1>7, <2>1 DEF Placed
  <2>2. CASE i \in DOMAIN nodes
    <3>1. nodes[i].kind = "aur" /\ nodes[i].key = nodes'[i].key
      BY <1>7, <2>2 DEF Placed, Grown, Same
    <3>2. Settled(nodes, n) \/ Pending(i, n)
      BY <1>0, <1>7, <2>2, <3>1 DEF DepsInv
    <3>3. CASE Settled(nodes, n)
      BY <1>6, <3>3
    <3>4. CASE i \in Range(next)
      BY <3>4 DEF Placed
    <3>5. ASSUME NEW k \in DOMAIN refs, refs[k].name = n
          PROVE  Settled(nodes', n) \/ \E j \in DOMAIN refs' : refs'[j].name = n
      BY <1>2, <3>5 DEF Placed
    <3> QED BY <1>1, <3>2, <3>3, <3>4, <3>5 DEF Pending
  <2> QED BY <2>1, <2>2
<1>8. DepsInv'
  <2>1. ASSUME NEW i \in DOMAIN nodes', nodes'[i].kind = "aur", NEW n \in Range(world'.declares[nodes'[i].key])
        PROVE  Settled(nodes', n) \/ Pending(i, n)'
    BY <1>1, <1>7, <2>1 DEF Pending
  <2>2. \A n : Settled(nodes, n)' <=> Settled(nodes', n)
    BY DEF Settled, Right
  <2> QED BY <2>1, <2>2 DEF DepsInv
<1>9. \A n : Local(n) => Local(n)'
  BY <1>1 DEF Local, Placed
<1>10. AskedInv'
  BY <1>0, <1>1, <1>2, <1>9 DEF AskedInv
<1> QED BY <1>3, <1>4, <1>5, <1>8, <1>10 DEF Whole

LEMMA FollowKeeps ==
    ASSUME WalkTyped, NEW i \in DOMAIN nodes', Follow(i), DOMAIN nodes \subseteq DOMAIN nodes'
    PROVE  /\ next' \in Seq(DOMAIN nodes') /\ Range(next) \subseteq Range(next')
           /\ nodes'[i].kind = "aur" /\ nodes'[i].depth = depth => i \in Range(next')
<1>1. PICK S, s, e : S = DOMAIN nodes' /\ s = next /\ e = i
  OBVIOUS
<1>2. s \in Seq(S) /\ e \in S
  BY <1>1 DEF WalkTyped
<1>3. PICK t : t = Append(s, e)
  OBVIOUS
<1>4. t \in Seq(S) /\ Range(s) \subseteq Range(t) /\ e \in Range(t)
  <2>1. PICK n : n = Len(s)
    OBVIOUS
  <2>2. n \in Nat /\ DOMAIN s = 1..n /\ DOMAIN t = 1..(n + 1) /\ t \in Seq(S) /\ t[n + 1] = e
    BY <1>2, <1>3, <2>1
  <2>3. \A k \in 1..n : t[k] = s[k] /\ k \in 1..(n + 1)
    BY <1>2, <1>3, <2>1, <2>2
  <2>4. n + 1 \in 1..(n + 1)
    BY <2>2
  <2> QED BY <2>2, <2>3, <2>4 DEF Range
<1>5. next' = IF nodes'[i].kind = "aur" /\ nodes'[i].depth = depth THEN t ELSE s
  BY <1>1, <1>3 DEF Follow
<1> QED BY <1>1, <1>2, <1>4, <1>5

\* A name for a node that is there.
LEMMA JoinPlaces ==
    ASSUME Whole, NEW r, Placing(r), NEW i \in DOMAIN nodes, NEW mark \in Marks, Join(r, i, mark),
           Right(nodes[i], r.name)
    PROVE  Placed(r)
<1>0. WalkTyped /\ NodesInv /\ NamesInv /\ r \in Refs /\ nodes \in Seq(Node)
  BY HeadIs DEF Whole, WalkTyped
<1>1. PICK ns, ns1, n : ns = nodes /\ ns1 = [ns EXCEPT ![i].names = @ \cup {r.name}] /\ n = Len(ns)
  OBVIOUS
<1>2. n \in Nat /\ DOMAIN ns = 1..n /\ \A j \in 1..n : ns[j] \in Node
  BY <1>0, <1>1
<1>3. ASSUME NEW j \in 1..n
      PROVE  /\ ns1[j] \in Node /\ Same(ns1[j], ns[j])
             /\ j = i => r.name \in ns1[j].names
  <2>1. PICK nd : nd = ns[j]
    OBVIOUS
  <2>2. nd \in Node /\ r.name \in Keys
    BY <1>0, <1>2, <2>1 DEF Refs, Keys
  <2>3. CASE j = i
    <3>1. ns1[j] = [nd EXCEPT !.names = nd.names \cup {r.name}]
      BY <1>1, <1>2, <2>1, <2>3
    <3>2. ns1[j] \in Node /\ Same(ns1[j], nd) /\ r.name \in ns1[j].names
      BY <2>2, <3>1 DEF Node, Same
    <3> QED BY <2>1, <3>2
  <2>4. CASE j # i
    <3>1. ns1[j] = nd
      BY <1>1, <1>2, <2>1, <2>4
    <3> QED BY <2>1, <2>2, <2>4, <3>1 DEF Same
  <2> QED BY <2>3, <2>4
<1>4. ns1 \in Seq(Node) /\ DOMAIN ns1 = 1..n
  <2>1. ns1 = [j \in 1..n |-> ns1[j]]
    BY <1>1, <1>2
  <2> QED BY <1>2, <1>3, <2>1
<1>5. nodes' = AddEdge(ns1, r, nodes[i].key, mark) /\ byName' = Named({r.name}, i) /\ Follow(i)
  BY <1>1 DEF Join
<1>6. nodes[i].key \in Keys \cup {NoKey}
  <2>1. PICK nd : nd = nodes[i]
    OBVIOUS
  <2>2. nd \in Node
    BY <1>0, <2>1
  <2> QED BY <2>1, <2>2 DEF Node
<1>7. /\ nodes' \in Seq(Node) /\ DOMAIN nodes' = DOMAIN nodes
      /\ \A j \in DOMAIN nodes : /\ nodes'[j].key = ns1[j].key /\ nodes'[j].kind = ns1[j].kind
                                 /\ nodes'[j].reviewed = ns1[j].reviewed /\ nodes'[j].names = ns1[j].names
  <2>1. PICK to, ns2 : to = nodes[i].key /\ ns2 = AddEdge(ns1, r, to, mark)
    OBVIOUS
  <2>3. to \in Keys \cup {NoKey}
    BY <1>6, <2>1
  <2>2. OnlyEdges(ns2, ns1)
    BY <1>0, <1>4, <2>1, <2>3, AddEdgeKeeps
  <2> QED BY <1>1, <1>2, <1>4, <1>5, <2>1, <2>2 DEF OnlyEdges
<1>8. Grown(nodes', nodes) /\ r.name \in nodes'[i].names
  BY <1>1, <1>2, <1>3, <1>7 DEF Grown, Same
<1>9. Settled(nodes', r.name)
  BY <1>7, <1>8 DEF Settled, Right, Grown, Same
<1>10. \A j \in DOMAIN nodes' : Founded(nodes'[j])
  BY <1>0, <1>7, <1>8 DEF NodesInv, Founded, Grown, Same
<1>11. /\ DOMAIN byName \subseteq DOMAIN byName'
       /\ \A m \in DOMAIN byName' : byName'[m] \in DOMAIN nodes' /\ Right(nodes'[byName'[m]], m)
  <2>1. /\ DOMAIN byName' = {r.name} \cup DOMAIN byName
        /\ \A m \in DOMAIN byName' : byName'[m] = IF m \in {r.name} THEN i ELSE byName[m]
    BY <1>5 DEF Named
  <2>2. \A m \in DOMAIN byName' : byName'[m] \in DOMAIN nodes /\ Right(nodes[byName'[m]], m)
    BY <1>0, <2>1 DEF NamesInv
  <2>3. \A j \in DOMAIN nodes : \A m : Right(nodes[j], m) => Right(nodes'[j], m)
    BY <1>8 DEF Grown, Same, Right
  <2> QED BY <1>7, <2>1, <2>2, <2>3
<1>12. next' \in Seq(DOMAIN nodes') /\ Range(next) \subseteq Range(next')
  BY <1>0, <1>5, <1>7, FollowKeeps
<1> QED BY <1>7, <1>8, <1>9, <1>10, <1>11, <1>12 DEF Placed

\* One more at the end.
OneMore(t, s, x, e) ==
    /\ DOMAIN t = 1..e /\ e \in 1..e /\ t[e] = x
    /\ \A j \in DOMAIN s : j \in 1..e /\ t[j] = s[j]
    /\ \A j \in 1..e : j \in DOMAIN s \/ j = e

LEMMA AppendIs ==
    ASSUME NEW S, NEW s \in Seq(S), NEW x \in S, NEW t, t = Append(s, x), NEW e, e = Len(s) + 1
    PROVE  t \in Seq(S) /\ OneMore(t, s, x, e)
<1>1. PICK n : n = Len(s)
  OBVIOUS
<1>2. n \in Nat /\ DOMAIN s = 1..n /\ e = n + 1
  BY <1>1
<1>3. t \in Seq(S) /\ DOMAIN t = 1..e /\ t[e] = x
  BY <1>1, <1>2
<1>4. \A j \in 1..n : t[j] = s[j] /\ j \in 1..e
  BY <1>1, <1>2
<1>5. e \in 1..e /\ \A j \in 1..e : j \in 1..n \/ j = e
  BY <1>2
<1> QED BY <1>2, <1>3, <1>4, <1>5 DEF OneMore

\* A node of its own.
LEMMA NewPlaces ==
    ASSUME Whole, NEW r, Placing(r), NEW key \in Keys, NEW nd \in Node, Founded(nd), nd.key = key,
           nd.names = {r.name}, nd.depth = depth, Right(nd, r.name), Right(nd, key),
           nodes' = AddEdge(Append(nodes, nd), r, key, ""),
           byName' = Named({r.name, key}, Len(nodes) + 1), Follow(Len(nodes) + 1)
    PROVE  Placed(r)
<1>0. WalkTyped /\ NodesInv /\ NamesInv /\ r \in Refs /\ nodes \in Seq(Node)
  BY HeadIs DEF Whole, WalkTyped
<1>1. PICK ns1, e : ns1 = Append(nodes, nd) /\ e = Len(nodes) + 1
  OBVIOUS
<1>2. nodes' = AddEdge(ns1, r, key, "") /\ byName' = Named({r.name, key}, e) /\ Follow(e)
  BY <1>1
<1>3. ns1 \in Seq(Node) /\ OneMore(ns1, nodes, nd, e)
  BY <1>0, <1>1, AppendIs
<1>4. /\ DOMAIN ns1 = 1..e /\ e \in 1..e /\ ns1[e] = nd
      /\ \A j \in DOMAIN nodes : j \in 1..e /\ ns1[j] = nodes[j]
      /\ \A j \in 1..e : j \in DOMAIN nodes \/ j = e
  BY <1>3 DEF OneMore
<1>5. /\ nodes' \in Seq(Node) /\ DOMAIN nodes' = 1..e
      /\ \A j \in 1..e : /\ nodes'[j].key = ns1[j].key /\ nodes'[j].kind = ns1[j].kind /\ nodes'[j].depth = ns1[j].depth
                         /\ nodes'[j].reviewed = ns1[j].reviewed /\ nodes'[j].names = ns1[j].names
  <2>1. PICK ns2 : ns2 = AddEdge(ns1, r, key, "")
    OBVIOUS
  <2>2. "" \in Marks
    BY DEF Marks
  <2>3. OnlyEdges(ns2, ns1)
    BY <1>0, <1>3, <2>1, <2>2, AddEdgeKeeps
  <2> QED BY <1>2, <1>4, <2>1, <2>3, ZenonT(40) DEF OnlyEdges
<1>6. Grown(nodes', nodes)
  <2>1. ASSUME NEW j \in DOMAIN nodes PROVE j \in DOMAIN nodes' /\ Same(nodes'[j], nodes[j])
    <3>1. j \in 1..e /\ ns1[j] = nodes[j]
      BY <1>4
    <3>2. /\ nodes'[j].key = ns1[j].key /\ nodes'[j].kind = ns1[j].kind
          /\ nodes'[j].reviewed = ns1[j].reviewed /\ nodes'[j].names = ns1[j].names
      BY <1>5, <3>1
    <3> QED BY <1>5, <3>1, <3>2 DEF Same
  <2> QED BY <1>5, <2>1 DEF Grown
<1>7. /\ nodes'[e].key = key /\ nodes'[e].kind = nd.kind /\ nodes'[e].reviewed = nd.reviewed
      /\ nodes'[e].names = {r.name} /\ nodes'[e].depth = depth
  BY <1>4, <1>5
<1>8. Settled(nodes', r.name)
  <2>1. e \in DOMAIN nodes' /\ r.name \in nodes'[e].names
    BY <1>4, <1>5, <1>7
  <2>2. Right(nodes'[e], r.name)
    BY <1>7 DEF Right
  <2> QED BY <2>1, <2>2 DEF Settled
<1>9. \A j \in DOMAIN nodes' : Founded(nodes'[j])
  <2>1. Founded(nodes'[e])
    BY <1>7 DEF Founded
  <2>2. \A j \in DOMAIN nodes : Founded(nodes'[j])
    BY <1>0, <1>6 DEF NodesInv, Founded, Grown, Same
  <2> QED BY <1>4, <1>5, <2>1, <2>2
<1>10. /\ DOMAIN byName \subseteq DOMAIN byName'
       /\ \A m \in DOMAIN byName' : byName'[m] \in DOMAIN nodes' /\ Right(nodes'[byName'[m]], m)
  <2>1. /\ DOMAIN byName' = {r.name, key} \cup DOMAIN byName
        /\ \A m \in DOMAIN byName' : byName'[m] = IF m \in {r.name, key} THEN e ELSE byName[m]
    BY <1>2 DEF Named
  <2>2. \A j \in DOMAIN nodes : j \in DOMAIN nodes' /\ \A m : Right(nodes[j], m) => Right(nodes'[j], m)
    BY <1>6 DEF Grown, Same, Right
  <2>3. \A m \in DOMAIN byName : byName[m] \in DOMAIN nodes' /\ Right(nodes'[byName[m]], m)
    BY <1>0, <2>2 DEF NamesInv
  <2>4. e \in DOMAIN nodes' /\ Right(nodes'[e], r.name) /\ Right(nodes'[e], key)
    BY <1>4, <1>5, <1>7 DEF Right
  <2> QED BY <2>1, <2>3, <2>4
<1>11. /\ next' \in Seq(DOMAIN nodes') /\ Range(next) \subseteq Range(next')
       /\ nodes'[e].kind = "aur" => e \in Range(next')
  <2>1. Follow(e) /\ e \in DOMAIN nodes' /\ DOMAIN nodes \subseteq DOMAIN nodes'
    BY <1>2, <1>4, <1>5, <1>6 DEF Grown
  <2> QED BY <1>0, <1>7, <2>1, FollowKeeps
<1>12. \A i \in DOMAIN nodes' : i \in DOMAIN nodes \/ nodes'[i].kind # "aur" \/ i \in Range(next')
  BY <1>4, <1>5, <1>11
<1> QED BY <1>6, <1>8, <1>9, <1>10, <1>11, <1>12 DEF Placed

\* A node by its key.
LEMMA AttachPlaces ==
    ASSUME Whole, NEW r, Placing(r), gaps' = {}, NEW key \in Keys, NEW kind \in {"aur", "repo", "repo-provides"},
           NEW gap, Attach(r, key, kind, gap),
           kind = "repo" => key \in Repo,
           kind = "repo-provides" => key \in Provided \ DOMAIN BaseOf,
           kind = "aur" => key \in Bases,
           \A nd \in Node : Founded(nd) /\ nd.key = key /\ (nd.kind = kind \/ nd \in Range(nodes)) =>
                                Right(nd, r.name) /\ Right(nd, key)
    PROVE  Placed(r)
<1>0. WalkTyped /\ NodesInv /\ r \in Refs /\ nodes \in Seq(Node) /\ world \in Worlds
  BY HeadIs DEF Whole, WalkTyped
<1>1. CASE Keyed(key) # {}
  <2>1. PICK i : i = CHOOSE j \in Keyed(key) : TRUE
    OBVIOUS
  <2>2. i \in Keyed(key)
    BY <1>1, <2>1
  <2>3. i \in DOMAIN nodes /\ nodes[i].key = key
    BY <2>2 DEF Keyed
  <2>4. Join(r, i, "")
    BY <1>1, <2>1 DEF Attach
  <2>5. nodes[i] \in Node /\ nodes[i] \in Range(nodes) /\ Founded(nodes[i])
    BY <1>0, <2>3 DEF NodesInv, Range
  <2>6. Right(nodes[i], r.name)
    BY <2>3, <2>5
  <2>7. "" \in Marks
    BY DEF Marks
  <2> QED BY <2>3, <2>4, <2>6, <2>7, JoinPlaces
<1>2. CASE Keyed(key) = {} /\ Room
  <2>1. PICK nd : nd = NewNode(key, kind, r.name, r.from)
    OBVIOUS
  <2>2. /\ nodes' = AddEdge(Append(nodes, nd), r, key, "")
        /\ byName' = Named({r.name, key}, Len(nodes) + 1) /\ Follow(Len(nodes) + 1)
        /\ kind = "aur" => RecipeGap(key) = {}
    BY <1>2, <2>1 DEF Attach
  <2>3. kind = "aur" => world.recipe[key] = "whole"
    BY <2>2 DEF RecipeGap
  <2>4. /\ nd.key = key /\ nd.kind = kind /\ nd.names = {r.name}
        /\ nd.reviewed = (kind = "aur" /\ world.recipe[key] = "whole")
        /\ nd.parent = r.from /\ nd.deps = << >>
        /\ nd.depth = IF r.from = NoParent THEN 0 ELSE depth
        /\ nd = [key |-> key, kind |-> kind, names |-> {r.name}, parent |-> r.from,
                 depth |-> nd.depth, deps |-> << >>, reviewed |-> nd.reviewed]
    BY <2>1 DEF NewNode
  <2>5. r.from # NoParent
    BY <1>0 DEF NoParent, Refs
  <2>6. nd \in Node
    <3>1. nd.depth \in Nat /\ nd.reviewed \in BOOLEAN /\ << >> \in Seq(Edges) /\ r.from \in Nat /\ r.name \in Keys
      BY <1>0, <2>4 DEF WalkTyped, Refs, Keys
    <3> QED BY <2>4, <3>1 DEF Node
  <2>7. Founded(nd)
    BY <2>3, <2>4 DEF Founded
  <2>8. Right(nd, r.name) /\ Right(nd, key)
    BY <2>4, <2>6, <2>7
  <2> QED BY <2>2, <2>4, <2>5, <2>6, <2>7, <2>8, NewPlaces
<1>3. CASE Keyed(key) = {} /\ ~Room
  <2>1. gaps' = gaps \cup {<<"truncated", Root>>}
    BY <1>3 DEF Attach, NoRoom, Drop
  <2> QED BY <2>1
<1> QED BY <1>1, <1>2, <1>3

\* Where each name may go, as the keys are apart.
LEMMA PlaceKeeps ==
    ASSUME KeysApart, Whole, Place, gaps' = {}
    PROVE  Whole'
<1>1. PICK r : r = Head(refs)
  OBVIOUS
<1>2. Placing(r)
  BY <1>1 DEF Place, Placing
<1>3. /\ PlaceRefused(r) \/ PlaceKnown(r) \/ PlaceRepo(r) \/ PlaceAUR(r) \/ PlaceProvided(r) \/ PlaceUnresolved(r)
  BY <1>1 DEF Place
<1>4. /\ WalkTyped /\ NamesInv /\ AskedInv /\ r \in Refs /\ r = refs[1] /\ 1 \in DOMAIN refs /\ world \in Worlds
      /\ r.name \in Keys
  BY <1>2, HeadIs DEF Whole, WalkTyped, Refs, Keys
<1>5. world.loaded /\ world.local \subseteq {n \in DOMAIN BaseOf : BaseOf[n] \in Bases}
  BY <1>4, WorldHas DEF WalkTyped
<1>6. /\ failed = FALSE /\ DOMAIN remote \subseteq DOMAIN BaseOf
      /\ r.name \in DOMAIN BaseOf => Local(r.name) \/ r.name \in DOMAIN remote
      /\ world.resolver \/ Local(r.name)
  BY <1>2, <1>4 DEF AskedInv, Placing
<1>7. New(r) /\ ~InRepo(r.name) /\ ~InAUR(r.name) => r.name \notin DOMAIN BaseOf /\ world.resolver
  BY <1>5, <1>6 DEF New, InRepo, InAUR, Local
<1>8. CASE PlaceRefused(r)
  <2>1. gaps' # {}
    BY <1>8 DEF PlaceRefused, Drop
  <2> QED BY <2>1
<1>9. CASE PlaceKnown(r)
  <2>1. PICK i, mark : /\ i = byName[r.name] /\ r.name \in DOMAIN byName
                       /\ mark \in Marks /\ Join(r, i, mark)
    BY <1>9 DEF PlaceKnown, Marks
  <2>2. i \in DOMAIN nodes /\ Right(nodes[i], r.name)
    BY <1>4, <2>1 DEF NamesInv
  <2>3. Placed(r)
    BY <1>2, <2>1, <2>2, JoinPlaces
  <2> QED BY <1>2, <2>3, PlacedKeeps
<1>10. CASE PlaceRepo(r)
  <2>1. r.name \in Repo /\ Attach(r, r.name, "repo", {})
    BY <1>10 DEF PlaceRepo, InRepo
  <2>2. \A nd : Right(nd, r.name)
    BY <2>1 DEF Right, LivesInAUR
  <2>3. Placed(r)
    BY <1>2, <1>4, <2>1, <2>2, AttachPlaces
  <2> QED BY <1>2, <2>3, PlacedKeeps
<1>11. CASE PlaceAUR(r)
  <2>1. r.name \in DOMAIN BaseOf
    <3>1. DOMAIN remote \subseteq DOMAIN BaseOf
      BY <1>6
    <3> QED BY <1>5, <1>11, <3>1 DEF PlaceAUR, InAUR
  <2>2. CASE BaseOf[r.name] \in Refused
    <3>1. gaps' # {}
      BY <1>11, <2>2 DEF PlaceAUR, Drop
    <3> QED BY <3>1
  <2>3. CASE BaseOf[r.name] \notin Refused
    <3>1. PICK key : key = BaseOf[r.name]
      OBVIOUS
    <3>2. key \in Bases /\ key \in Keys
      BY <2>1, <2>3, <3>1, WorldAssumption DEF Keys
    <3>3. Attach(r, key, "aur", {})
      BY <1>11, <2>3, <3>1 DEF PlaceAUR
    <3>4. ASSUME NEW nd \in Node, Founded(nd), nd.key = key
          PROVE  Right(nd, r.name) /\ Right(nd, key)
      <4>1. nd.kind \in {"aur", "repo", "repo-provides"}
        BY DEF Node
      <4>2. nd.kind = "aur" /\ nd.reviewed
        BY <3>2, <3>4, <4>1 DEF Founded, KeysApart
      <4>3. key \in DOMAIN BaseOf => BaseOf[key] = key
        BY <3>2 DEF KeysApart
      <4> QED BY <3>1, <3>4, <4>2, <4>3 DEF Right, LivesInAUR
    <3>5. Placed(r)
      BY <1>2, <3>2, <3>3, <3>4, AttachPlaces
    <3> QED BY <1>2, <3>5, PlacedKeeps
  <2> QED BY <2>2, <2>3
<1>12. CASE PlaceProvided(r)
  <2>1. r.name \in Provided \ DOMAIN BaseOf /\ Attach(r, r.name, "repo-provides", {})
    BY <1>7, <1>12 DEF PlaceProvided
  <2>2. \A nd : Right(nd, r.name)
    BY <2>1 DEF Right, LivesInAUR
  <2>3. Placed(r)
    BY <1>2, <1>4, <2>1, <2>2, AttachPlaces
  <2> QED BY <1>2, <2>3, PlacedKeeps
<1>13. CASE PlaceUnresolved(r)
  <2>1. ~failed /\ world.resolver
    BY <1>6, <1>7, <1>13 DEF PlaceUnresolved
  <2>2. Attach(r, r.name, "unresolved", {<<"dep-unresolved", nodes[r.from].key>>})
    BY <1>13, <2>1 DEF PlaceUnresolved
  <2>3. gaps' # {}
    BY <2>2 DEF Attach, NoRoom, Drop
  <2> QED BY <2>3
<1> QED BY <1>3, <1>8, <1>9, <1>10, <1>11, <1>12, <1>13

\* A gap stays.
LEMMA GapsStay ==
    ASSUME [WalkNext]_walkVars, gaps' = {}
    PROVE  gaps = {}
<1>1. gaps \subseteq gaps'
  <2>1. CASE UNCHANGED walkVars
    BY <2>1 DEF walkVars
  <2>2. CASE Stop
    BY <2>2 DEF Stop
  <2>3. CASE Expand
    BY <2>3 DEF Expand
  <2>4. CASE AskAUR
    BY <2>4 DEF AskAUR
  <2>5. CASE EndLevel
    BY <2>5 DEF EndLevel
  <2>6. CASE Place
    <3>1. \A r, gap : Drop(r, gap) => gaps \subseteq gaps'
      BY DEF Drop
    <3>2. \A r, key, kind, gap : Attach(r, key, kind, gap) => gaps \subseteq gaps'
      BY <3>1 DEF Attach, NoRoom
    <3>3. PICK r : \/ PlaceRefused(r) \/ PlaceKnown(r) \/ PlaceRepo(r) \/ PlaceAUR(r)
                   \/ PlaceProvided(r) \/ PlaceUnresolved(r)
      BY <2>6 DEF Place
    <3>4. CASE PlaceRefused(r)
      BY <3>1, <3>4 DEF PlaceRefused
    <3>5. CASE PlaceKnown(r)
      BY <3>5 DEF PlaceKnown
    <3>6. CASE PlaceRepo(r)
      BY <3>2, <3>6 DEF PlaceRepo
    <3>7. CASE PlaceAUR(r)
      BY <3>1, <3>2, <3>7 DEF PlaceAUR
    <3>8. CASE PlaceProvided(r)
      BY <3>2, <3>8 DEF PlaceProvided
    <3>9. CASE PlaceUnresolved(r)
      BY <3>2, <3>9 DEF PlaceUnresolved
    <3> QED BY <3>3, <3>4, <3>5, <3>6, <3>7, <3>8, <3>9
  <2> QED BY <2>1, <2>2, <2>3, <2>4, <2>5, <2>6 DEF WalkNext
<1> QED BY <1>1

LEMMA WalkSteps ==
    ASSUME KeysApart, WalkInv, [WalkNext]_walkVars
    PROVE  WalkInv'
<1> SUFFICES ASSUME gaps' = {} PROVE Whole'
  BY DEF WalkInv
<1>1. Whole
  BY GapsStay DEF WalkInv
<1>2. CASE UNCHANGED walkVars
  <2>1. UNCHANGED <<world, nodes, byName, frontier, depth, refs, remote, failed, next, phase>>
    BY <1>2 DEF walkVars, reply
  <2>2. WalkTyped' /\ NodesInv' /\ NamesInv'
    BY <1>1, <2>1 DEF Whole, WalkTyped, NodesInv, NamesInv, Founded, Right
  <2>3. DepsInv'
    BY <1>1, <2>1 DEF Whole, DepsInv, Settled, Right, Pending
  <2>4. AskedInv'
    BY <1>1, <2>1 DEF Whole, AskedInv, Local
  <2> QED BY <2>2, <2>3, <2>4 DEF Whole
<1>3. CASE Stop
  BY <1>1, <1>3, StopKeeps
<1>4. CASE Expand
  BY <1>1, <1>4, ExpandKeeps
<1>5. CASE AskAUR
  BY <1>1, <1>5, AskKeeps
<1>6. CASE Place
  BY <1>1, <1>6, PlaceKeeps
<1>7. CASE EndLevel
  BY <1>1, <1>7, EndLevelKeeps
<1> QED BY <1>2, <1>3, <1>4, <1>5, <1>6, <1>7 DEF WalkNext

LEMMA WholeIsComplete ==
    WalkInv => NoGapMeansComplete
<1> SUFFICES ASSUME WalkInv, Done, gaps = {}, NEW i \in DOMAIN nodes, nodes[i].kind = "aur"
             PROVE  /\ nodes[i].reviewed
                    /\ \A n \in Range(world.declares[nodes[i].key]) :
                           \E j \in DOMAIN nodes :
                               /\ n \in nodes[j].names
                               /\ nodes[j].kind # "unresolved"
                               /\ LivesInAUR(n) => nodes[j].key = BaseOf[n] /\ nodes[j].reviewed
  BY DEF NoGapMeansComplete
<1>1. WalkTyped /\ NodesInv /\ DepsInv /\ phase = "done"
  BY DEF WalkInv, Whole, Done
<1>2. nodes[i].reviewed
  BY <1>1 DEF NodesInv, Founded
<1>3. ASSUME NEW n \in Range(world.declares[nodes[i].key])
      PROVE  \E j \in DOMAIN nodes :
                 /\ n \in nodes[j].names
                 /\ nodes[j].kind # "unresolved"
                 /\ LivesInAUR(n) => nodes[j].key = BaseOf[n] /\ nodes[j].reviewed
  <2>1. Settled(nodes, n)
    <3>1. i \notin Range(next)
      BY <1>1 DEF WalkTyped, Range
    <3> QED BY <1>1, <1>3, <3>1 DEF DepsInv, Pending
  <2>2. PICK j \in DOMAIN nodes : n \in nodes[j].names /\ Right(nodes[j], n)
    BY <2>1 DEF Settled
  <2>3. nodes[j].kind # "unresolved"
    <3>1. nodes[j] \in Node
      BY <1>1 DEF WalkTyped
    <3> QED BY <3>1 DEF Node
  <2> QED BY <2>2, <2>3 DEF Right
<1> QED BY <1>2, <1>3

\* A closure without a gap is whole (ReviewClosure in closure.go): for any recipes,
\* repositories, bounds and answers of the AUR, where the names that share the
\* walk's one key space are apart.
THEOREM ClosureIsComplete ==
    ASSUME KeysApart
    PROVE  WalkSpec => []NoGapMeansComplete
<1>1. WalkInit => WalkInv
  BY WalkBegins DEF WalkInv
<1>2. WalkInv /\ [WalkNext]_walkVars => WalkInv'
  BY WalkSteps
<1> QED BY <1>1, <1>2, WholeIsComplete, PTL DEF WalkSpec
=============================================================================
