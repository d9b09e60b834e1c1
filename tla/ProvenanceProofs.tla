-------------------------- MODULE ProvenanceProofs --------------------------
(***************************************************************************)
(* Proofs about Provenance, for any history without cycles, any number of  *)
(* captures and reviews, any repositories and any bounds: what a review    *)
(* says of the recorded commit is so, `snapshot` exits 0 only for a whole  *)
(* record, and the newest record is what a capture found that no capture   *)
(* stored since has replaced.                                              *)
(*                                                                         *)
(* The walk is a loop in a review and a recursive function in a capture:   *)
(* both keep WalkInv, which says what the frontier, the visited commits    *)
(* and the list have to do with the history they are taken from.  The      *)
(* recursive functions are reached by the lemmas of Induction.             *)
(***************************************************************************)
EXTENDS Provenance, Induction, TLAPS

-----------------------------------------------------------------------------
(* The inductive invariant.                                                *)

\* What a walk that began at `from` and stops at `stop` has seen so far.
WalkInv(w, from, stop) ==
    /\ DOMAIN w = DOMAIN NoWalk
    /\ w.out \in Seq(Commits)
    /\ w.frontier \subseteq w.visited /\ Range(w.out) \subseteq w.visited
    /\ from \in w.visited /\ w.visited \subseteq Ancestors(from)
    /\ stop \notin w.visited
    /\ w.failed \in BOOLEAN /\ w.reached \in BOOLEAN
    /\ w.failed \/ w.visited = w.frontier \cup Range(w.out)
    /\ \A c \in Range(w.out) : Parents[c] \subseteq w.visited \cup {stop}
    /\ w.reached <=> \E c \in Range(w.out) : stop \in Parents[c]

Capturing == {"files", "git", "upstream", "captured", "write"}
Reviewing == {"open", "start", "walk", "judge"}

RunTyped(c, job) ==
    /\ DOMAIN c = DOMAIN Idle /\ DOMAIN c.rec = DOMAIN Nothing
    /\ c.pc \in {"idle", "done"} \cup Capturing \cup Reviewing
    /\ c.pc \in Capturing => job = "capture"
    /\ c.stored \in BOOLEAN

Typed ==
    /\ DOMAIN session = {"jobs", "clone", "source", "stored", "heads", "changes", "key", "vcs", "remote"}
    /\ session.heads \subseteq Commits
    /\ clone \in Clones /\ source \in Repositories
    /\ clock \in Nat
    /\ DOMAIN run = Runs
    /\ \A r \in Runs : RunTyped(run[r], Job(r))

\* What a record without a gap has, by how far its capture is.
Filed(rec) ==
    /\ rec.recipe # None /\ rec.srcinfo = "ok" /\ rec.built \in {"ok", "archive"}
    /\ rec.sources
Rooted(rec) ==
    /\ rec.head # None /\ rec.remote # None
    /\ Len(rec.log) = MaxLog \/ \E c \in Range(rec.log) : Parents[c] = {}
Single(rec) == Cardinality(Range(rec.upstream)) = 1

CaptureInv(c) ==
    /\ c.pc \in {"git", "upstream", "captured", "write"} /\ c.rec.gaps = {} => Filed(c.rec)
    /\ c.pc \in {"upstream", "captured", "write"} /\ c.rec.gaps = {} => Rooted(c.rec)
    /\ c.pc \in {"captured", "write"} /\ c.rec.gaps = {} => Single(c.rec)
    /\ c.exit = 0 => c.pc = "done" /\ Filed(c.rec) /\ Rooted(c.rec) /\ Single(c.rec)

\* What a review is at, and what it has to say.
DeltaOf(c) ==
    LET listed == Range(c.walk.out) IN
    /\ listed # {} => listed \subseteq Ancestors(c.walked)
    /\ CASE c.status = "up-to-date" -> c.anchor \in {c.head, c.walked}
         [] c.status = "new-commits" ->
                /\ c.anchor \in Ancestors(c.walked)
                /\ "truncated" \notin c.gaps => Ancestors(c.walked) \ Ancestors(c.anchor) \subseteq listed
         [] c.status = "anchor-absent" -> c.anchor \notin Ancestors(c.walked)
         [] OTHER -> c.gaps # {}

ReviewInv(c) ==
    /\ c.pc \in {"idle", "open", "start"} => c.walk = NoWalk
    /\ c.pc = "walk" => c.walked \in Commits /\ WalkInv(c.walk, c.walked, c.anchor)
    /\ c.pc = "judge" =>
          \/ c.walked = c.anchor /\ c.walk = [NoWalk EXCEPT !.reached = TRUE]
          \/ /\ c.walked \in Commits /\ WalkInv(c.walk, c.walked, c.anchor)
             /\ WalkEnds(c.walk, MaxReview)

RunInv(c, job) ==
    /\ CaptureInv(c) /\ ReviewInv(c)
    /\ c.pc = "done" /\ job = "review" => DeltaOf(c)

\* The captures that stored their record, and the last of them.
Storing == {r \in Runs : run[r].stored}
LastStored == {r \in Storing : \A q \in Storing : r \notin run[q].after}

StampsInv ==
    /\ \A s \in snapshots : Shaped(s) /\ s.stamp < clock
    /\ \A s, t \in snapshots : s.stamp = t.stamp => s = t
    /\ \A r \in Runs : run[r].pc = "write" =>
          /\ run[r].stamp \in Nat /\ run[r].stamp < clock
          /\ \A s \in snapshots : s.stamp # run[r].stamp
    /\ \A r, q \in Runs :
          run[r].pc = "write" /\ run[q].pc = "write" /\ run[r].stamp = run[q].stamp => r = q
    /\ \A r \in Storing : run[r].pc = "done" /\ Job(r) = "capture"
    /\ \A r \in Runs : run[r].after \subseteq Storing
    /\ clock >= 2 /\ \A r \in Runs : run[r].pc = "write" => run[r].stamp >= 2
    /\ Storing # {} \/ \A s \in snapshots : s.stamp < 2

\* The newest record is that of a last capture, and of one that a capture
\* about to write an older record did not find stored when it began.
NewestInv ==
    Storing # {} /\ Whole = snapshots =>
        \A s \in Latest : \E q \in LastStored :
            /\ s.rec = run[q].rec
            /\ \A p \in Runs : run[p].pc = "write" /\ run[p].stamp < s.stamp => q \notin run[p].after

IInv ==
    /\ Typed /\ StampsInv /\ NewestInv
    /\ \A r \in Runs : RunInv(run[r], Job(r))

-----------------------------------------------------------------------------
(* What GitHistory's operators return.                                     *)

LEMMA ResolveType ==
    ASSUME NEW repo \in Repositories
    PROVE  Resolve(repo) \in Commits \cup {None}
<1> DEFINE n == MaxRefDepth + 1
           T == [Contents -> Commits \cup {None}]
           base == [content \in Contents |-> None]
           Step == [g \in T |->
                      [content \in Contents |->
                        IF content \notin Commits \cup Refs THEN None
                        ELSE IF content \in Commits THEN content
                        ELSE IF repo.refs[content] \notin {None, Refused} THEN g[repo.refs[content]]
                        ELSE IF repo.packed[content] = Refused THEN None
                        ELSE repo.packed[content]]]
           Next0(R) == [left \in 0..n |->
                      [content \in Contents |->
                        IF left = 0 \/ content \notin Commits \cup Refs THEN None
                        ELSE IF content \in Commits THEN content
                        ELSE IF repo.refs[content] \notin {None, Refused} THEN R[left - 1][repo.refs[content]]
                        ELSE IF repo.packed[content] = Refused THEN None
                        ELSE repo.packed[content]]]
           R1 == CHOOSE R : R = Next0(R)
<1>1. n \in Nat
  BY CommitsAssumption
<1>2. /\ repo.refs \in [Refs -> Contents] /\ repo.packed \in [Refs -> Commits \cup {None, Refused}]
      /\ repo.head \in Contents /\ None \in Contents
  BY DEF Repositories, Contents
<1>3. base \in T /\ Step \in [T -> T]
  BY <1>2
<1> DEFINE Steps == [i \in 1..n |-> Step]
<1>4. PICK f \in [0..n -> T] : Iterates(f, n, base, Steps)
  <2>1. Steps \in [1..n -> [T -> T]]
    BY <1>3
  <2> HIDE DEF Steps
  <2> QED BY <1>1, <1>3, <2>1, IterateExists
<1>5. f = Next0(f)
  <2>1. \A left \in 0..n : f[left] = Next0(f)[left]
    <3> TAKE left \in 0..n
    <3>1. f[left] = IF left = 0 THEN base ELSE Step[f[left - 1]]
      <4>1. left # 0 => Steps[left] = Step
        BY <1>1
      <4> HIDE DEF Steps, Step
      <4> QED BY <1>4, <4>1 DEF Iterates
    <3>2. left # 0 => f[left - 1] \in T
      BY <1>1
    <3> QED BY <3>1, <3>2
  <2> QED BY <2>1
<1>6. R1 = Next0(R1)
  BY <1>5
<1>7. Resolve(repo) = IF Supported(repo) THEN R1[n][repo.head] ELSE None
  BY DEF Resolve
<1> HIDE DEF R1
<1>8. \A i \in 0..n : R1[i] \in T
  <2> DEFINE P == {i \in 0..n : R1[i] \in T}
  <2>0. ASSUME NEW i \in 0..n, i = 0 \/ R1[i - 1] \in T
        PROVE  R1[i] \in T
    <3> DEFINE At(content) ==
                 IF i = 0 \/ content \notin Commits \cup Refs THEN None
                 ELSE IF content \in Commits THEN content
                 ELSE IF repo.refs[content] \notin {None, Refused} THEN R1[i - 1][repo.refs[content]]
                 ELSE IF repo.packed[content] = Refused THEN None
                 ELSE repo.packed[content]
    <3>1. Next0(R1)[i] = [content \in Contents |-> At(content)]
      OBVIOUS
    <3>2. \A content \in Contents : At(content) \in Commits \cup {None}
      BY <2>0, <1>2
    <3>3. R1[i] = [content \in Contents |-> At(content)]
      BY <1>6, <3>1
    <3> QED BY <3>2, <3>3
  <2>1. 0 \in P
    BY <2>0, <1>1
  <2>2. \A i \in Nat : i < n /\ i \in P => i + 1 \in P
    <3> TAKE i \in Nat
    <3> HAVE i < n /\ i \in P
    <3>1. i + 1 \in 0..n /\ (i + 1) - 1 = i /\ R1[i] \in T
      BY <1>1
    <3> QED BY <3>1, <2>0
  <2> HIDE DEF P
  <2>3. \A i \in 0..n : i \in P
    BY <1>1, <2>1, <2>2, Along
  <2> QED BY <2>3 DEF P
<1>9. R1[n] \in T
  BY <1>8, <1>1
<1> QED BY <1>7, <1>9, <1>2

LEMMA ReadCommitType ==
    ASSUME NEW loose, NEW packs, NEW c
    PROVE  ReadCommit(loose, packs, c) \in {c, None}
BY DEF ReadCommit

LEMMA NewestIn ==
    ASSUME NEW S \in SUBSET Commits, S # {}
    PROVE  Newest(S) \in S
<1> DEFINE Orders == {Order[c] : c \in S}
<1>1. Orders \subseteq Nat /\ Orders # {}
  BY CommitsAssumption
<1>2. PICK m \in Orders : \A k \in Orders : m <= k
  BY <1>1, Least
<1>3. \E c \in S : \A d \in S : Order[c] <= Order[d]
  BY <1>2
<1> QED BY <1>3 DEF Newest

-----------------------------------------------------------------------------
(* Ancestors are the least set that is closed under parents.               *)

LEMMA AncestorsFacts ==
    ASSUME NEW c \in Commits
    PROVE  /\ Ancestors(c) \in SUBSET Commits /\ c \in Ancestors(c)
           /\ \A d \in Ancestors(c) : Parents[d] \subseteq Ancestors(c)
           /\ \A S \in SUBSET Commits :
                 c \in S /\ (\A d \in S : Parents[d] \subseteq S) => Ancestors(c) \subseteq S
<1>1. \A d \in Ancestors(c) : Parents[d] \subseteq Ancestors(c)
  <2>1. SUFFICES ASSUME NEW d \in Ancestors(c), NEW e \in Parents[d]
                 PROVE  e \in Ancestors(c)
    OBVIOUS
  <2>2. d \in Commits /\ e \in Commits
    BY CommitsAssumption DEF Ancestors
  <2>3. ASSUME NEW S \in Histories, c \in S
        PROVE  e \in S
    BY <2>2, <2>3 DEF Ancestors, Histories
  <2> QED BY <2>2, <2>3 DEF Ancestors
<1>2. ASSUME NEW S \in SUBSET Commits, c \in S, \A d \in S : Parents[d] \subseteq S
      PROVE  Ancestors(c) \subseteq S
  BY <1>2 DEF Ancestors, Histories
<1> QED BY <1>1, <1>2 DEF Ancestors

-----------------------------------------------------------------------------
(* The walk.                                                               *)

LEMMA RangeAppend ==
    ASSUME NEW S, NEW s \in Seq(S), NEW e \in S
    PROVE  /\ Append(s, e) \in Seq(S) /\ Range(Append(s, e)) = Range(s) \cup {e}
           /\ Len(Append(s, e)) = Len(s) + 1
<1>1. /\ Append(s, e) \in Seq(S) /\ Len(Append(s, e)) = Len(s) + 1
      /\ \A i \in 1..Len(s) : Append(s, e)[i] = s[i]
      /\ Append(s, e)[Len(s) + 1] = e
  OBVIOUS
<1>2. DOMAIN Append(s, e) = 1..(Len(s) + 1) /\ DOMAIN s = 1..Len(s) /\ Len(s) \in Nat
  BY <1>1
<1>3. \A x : x \in Range(Append(s, e)) <=> x \in Range(s) \cup {e}
  BY <1>1, <1>2 DEF Range
<1> QED BY <1>1, <1>3

LEMMA WalkFromInv ==
    ASSUME NEW from \in Commits, NEW stop, stop # from
    PROVE  WalkInv(WalkFrom(from), from, stop)
<1>1. /\ DOMAIN WalkFrom(from) = DOMAIN NoWalk
      /\ WalkFrom(from).out = <<>> /\ WalkFrom(from).frontier = {from}
      /\ WalkFrom(from).visited = {from}
      /\ WalkFrom(from).failed = FALSE /\ WalkFrom(from).reached = FALSE
  BY DEF WalkFrom, NoWalk
<1>2. Range(<<>>) = {} /\ <<>> \in Seq(Commits)
  BY DEF Range
<1> QED BY <1>1, <1>2, AncestorsFacts DEF WalkInv

LEMMA WalkStepInv ==
    ASSUME NEW w, NEW from \in Commits, NEW stop, WalkInv(w, from, stop),
           w.frontier # {}, NEW loose, NEW packs
    PROVE  /\ WalkInv(WalkStep(w, stop, loose, packs), from, stop)
           /\ Len(WalkStep(w, stop, loose, packs).out) = Len(w.out) + 1
<1> DEFINE c == Newest(w.frontier)
           fresh == Parents[c] \ (w.visited \cup {stop})
           unread == {p \in fresh : ReadCommit(loose, packs, p) = None}
           v == WalkStep(w, stop, loose, packs)
<1>1. /\ DOMAIN v = DOMAIN NoWalk
      /\ v.frontier = (w.frontier \ {c}) \cup {ReadCommit(loose, packs, p) : p \in fresh \ unread}
      /\ v.visited = w.visited \cup fresh
      /\ v.out = Append(w.out, c)
      /\ v.reached = (w.reached \/ stop \in Parents[c])
      /\ v.failed = (w.failed \/ unread # {})
  BY DEF WalkStep, NoWalk
<1>2. /\ w.frontier \subseteq w.visited /\ Range(w.out) \subseteq w.visited
      /\ w.visited \subseteq Ancestors(from) /\ from \in w.visited /\ stop \notin w.visited
      /\ w.out \in Seq(Commits)
      /\ w.failed \in BOOLEAN /\ w.reached \in BOOLEAN
      /\ w.failed \/ w.visited = w.frontier \cup Range(w.out)
      /\ \A d \in Range(w.out) : Parents[d] \subseteq w.visited \cup {stop}
      /\ w.reached <=> \E d \in Range(w.out) : stop \in Parents[d]
  BY DEF WalkInv
<1>3. c \in w.frontier /\ c \in Commits
  BY <1>2, NewestIn, AncestorsFacts
<1>4. Parents[c] \subseteq Ancestors(from)
  BY <1>2, <1>3, AncestorsFacts
<1>5. {ReadCommit(loose, packs, p) : p \in fresh \ unread} = fresh \ unread
  BY ReadCommitType
<1>6. /\ v.out \in Seq(Commits) /\ Range(v.out) = Range(w.out) \cup {c}
      /\ Len(v.out) = Len(w.out) + 1
  BY <1>1, <1>2, <1>3, RangeAppend
<1> HIDE DEF v, c, unread
<1>7. /\ v.frontier \subseteq v.visited /\ Range(v.out) \subseteq v.visited
      /\ from \in v.visited /\ v.visited \subseteq Ancestors(from) /\ stop \notin v.visited
  BY <1>1, <1>2, <1>3, <1>4, <1>5, <1>6
<1>8. v.failed \in BOOLEAN /\ v.reached \in BOOLEAN
  BY <1>1
<1>9. v.failed \/ v.visited = v.frontier \cup Range(v.out)
  <2>1. SUFFICES ASSUME ~v.failed
                 PROVE  v.visited = v.frontier \cup Range(v.out)
    OBVIOUS
  <2>2. w.visited = w.frontier \cup Range(w.out) /\ unread = {}
    BY <1>1, <1>2, <2>1
  <2>3. v.frontier = (w.frontier \ {c}) \cup fresh
    BY <1>1, <1>5, <2>2
  <2> HIDE DEF fresh
  <2> QED BY <1>1, <1>3, <1>6, <2>2, <2>3
<1>10. \A d \in Range(v.out) : Parents[d] \subseteq v.visited \cup {stop}
  <2>1. Parents[c] \subseteq v.visited \cup {stop}
    BY <1>1
  <2> QED BY <1>1, <1>2, <1>6, <2>1
<1>11. v.reached <=> \E d \in Range(v.out) : stop \in Parents[d]
  BY <1>1, <1>2, <1>6
<1>12. WalkInv(v, from, stop)
  BY <1>1, <1>6, <1>7, <1>8, <1>9, <1>10, <1>11 DEF WalkInv
<1> QED BY <1>12, <1>6 DEF v

\* A walk that has nothing left, and missed nothing, has it all.
LEMMA WalkWhole ==
    ASSUME NEW w, NEW from \in Commits, NEW stop, WalkInv(w, from, stop),
           w.frontier = {}, ~w.failed
    PROVE  /\ w.visited = Range(w.out)
           /\ ~w.reached => stop \notin Ancestors(from)
           /\ w.reached => /\ stop \in Ancestors(from)
                           /\ Ancestors(from) \ Ancestors(stop) \subseteq Range(w.out)
<1>1. /\ w.visited = Range(w.out) /\ from \in w.visited
      /\ w.visited \subseteq Ancestors(from) /\ stop \notin w.visited
      /\ \A c \in w.visited : Parents[c] \subseteq w.visited \cup {stop}
      /\ w.reached <=> \E c \in w.visited : stop \in Parents[c]
  BY DEF WalkInv
<1>2. w.visited \in SUBSET Commits
  BY <1>1, AncestorsFacts
<1>3. ASSUME ~w.reached
      PROVE  stop \notin Ancestors(from)
  <2>1. \A c \in w.visited : Parents[c] \subseteq w.visited
    BY <1>1, <1>3
  <2> QED BY <1>1, <1>2, <2>1, AncestorsFacts
<1>4. ASSUME w.reached
      PROVE  /\ stop \in Ancestors(from)
             /\ Ancestors(from) \ Ancestors(stop) \subseteq w.visited
  <2>1. stop \in Ancestors(from) /\ stop \in Commits
    BY <1>1, <1>2, <1>4, AncestorsFacts, CommitsAssumption
  <2> DEFINE S == w.visited \cup Ancestors(stop)
  <2>2. S \in SUBSET Commits /\ from \in S /\ \A c \in S : Parents[c] \subseteq S
    BY <1>1, <1>2, <2>1, AncestorsFacts
  <2> HIDE DEF S
  <2>3. Ancestors(from) \subseteq S
    BY <2>2, AncestorsFacts
  <2> QED BY <2>1, <2>3 DEF S
<1> QED BY <1>1, <1>3, <1>4

\* The log of a capture is such a walk, which stops nowhere; one that is
\* shorter than was asked for, and missed nothing, ends at a first commit.
LEMMA LogFacts ==
    ASSUME NEW repo, NEW from \in Commits, NEW n \in Nat
    PROVE  /\ Log(repo, from, n).out \in Seq(Commits) /\ Len(Log(repo, from, n).out) <= n
           /\ \/ Incomplete(Log(repo, from, n), n)
              \/ Len(Log(repo, from, n).out) = n
              \/ \E c \in Range(Log(repo, from, n).out) : Parents[c] = {}
<1> DEFINE Records == [frontier : SUBSET Commits, visited : SUBSET Commits, out : Seq(Commits),
                       reached : BOOLEAN, failed : BOOLEAN]
           T == {w \in Records : WalkInv(w, from, None)}
           Onward(w) == IF WalkEnds(w, n) THEN w ELSE WalkStep(w, None, repo.loose, Packs(repo))
           Step == [w \in T |-> Onward(w)]
           Next0(W) == [i \in 0..n |-> IF i = 0 THEN WalkFrom(from)
                         ELSE IF WalkEnds(W[i - 1], n) THEN W[i - 1]
                         ELSE WalkStep(W[i - 1], None, repo.loose, Packs(repo))]
           W1 == CHOOSE W : W = Next0(W)
<1>1. None # from
  BY CommitsAssumption
<1>2. WalkFrom(from) \in T
  <2>1. WalkFrom(from) \in Records
    BY DEF WalkFrom
  <2> QED BY <1>1, <2>1, WalkFromInv
<1>3. ASSUME NEW w \in T
      PROVE  /\ Onward(w) \in T
             /\ \/ WalkEnds(w, n) /\ Onward(w) = w
                \/ ~WalkEnds(w, n) /\ Len(Onward(w).out) = Len(w.out) + 1
  <2>1. CASE WalkEnds(w, n)
    BY <2>1
  <2>2. CASE ~WalkEnds(w, n)
    <3> DEFINE v == WalkStep(w, None, repo.loose, Packs(repo))
    <3>1. w.frontier # {}
      BY <2>2 DEF WalkEnds
    <3>2. WalkInv(v, from, None) /\ Len(v.out) = Len(w.out) + 1
      BY <3>1, WalkStepInv
    <3>3. v = [frontier |-> v.frontier, visited |-> v.visited, out |-> v.out,
               reached |-> v.reached, failed |-> v.failed]
      BY DEF WalkStep
    <3> HIDE DEF v
    <3>4. /\ v.visited \in SUBSET Commits /\ v.frontier \in SUBSET Commits
          /\ v.out \in Seq(Commits) /\ v.reached \in BOOLEAN /\ v.failed \in BOOLEAN
      BY <3>2, AncestorsFacts DEF WalkInv
    <3>5. v \in Records
      BY <3>3, <3>4
    <3> QED BY <2>2, <3>2, <3>5 DEF v
  <2> QED BY <2>1, <2>2
<1>4. Step \in [T -> T]
  BY <1>3
<1> DEFINE Steps == [i \in 1..n |-> Step]
<1>5. PICK f \in [0..n -> T] : Iterates(f, n, WalkFrom(from), Steps)
  <2>1. Steps \in [1..n -> [T -> T]]
    BY <1>4
  <2> HIDE DEF Steps
  <2> QED BY <1>2, <2>1, IterateExists
<1>6. f = Next0(f)
  <2>1. \A i \in 0..n : f[i] = Next0(f)[i]
    <3> TAKE i \in 0..n
    <3>1. f[i] = IF i = 0 THEN WalkFrom(from) ELSE Step[f[i - 1]]
      <4>1. i # 0 => Steps[i] = Step
        OBVIOUS
      <4> HIDE DEF Steps, Step
      <4> QED BY <1>5, <4>1 DEF Iterates
    <3>2. i # 0 => f[i - 1] \in T
      OBVIOUS
    <3>3. i # 0 => Step[f[i - 1]] = Onward(f[i - 1])
      BY <3>2
    <3> HIDE DEF Step, T
    <3> QED BY <3>1, <3>3
  <2> QED BY <2>1
<1>7. W1 = Next0(W1)
  BY <1>6
<1>8. Log(repo, from, n) = W1[n]
  BY DEF Log
<1> HIDE DEF W1, T, Step
<1>9. /\ W1[0] = WalkFrom(from)
      /\ \A i \in Nat : i < n => W1[i + 1] = Onward(W1[i])
  <2>1. \A i \in 0..n : W1[i] = IF i = 0 THEN WalkFrom(from) ELSE Onward(W1[i - 1])
    BY <1>7
  <2> HIDE DEF Onward
  <2>2. ASSUME NEW i \in Nat, i < n
        PROVE  W1[i + 1] = Onward(W1[i])
    <3>1. i + 1 \in 0..n /\ (i + 1) - 1 = i /\ i + 1 # 0
      BY <2>2
    <3> QED BY <2>1, <3>1
  <2> QED BY <2>1, <2>2
<1> DEFINE P == {i \in 0..n : /\ W1[i] \in T /\ Len(W1[i].out) <= i
                              /\ WalkEnds(W1[i], n) \/ Len(W1[i].out) = i}
<1>10. 0 \in P
  <2>1. WalkFrom(from).out = <<>>
    BY DEF WalkFrom
  <2> QED BY <1>2, <1>9, <2>1
<1>11. ASSUME NEW i \in Nat, i < n, i \in P
       PROVE  i + 1 \in P
  <2>1. W1[i] \in T /\ Len(W1[i].out) <= i /\ (WalkEnds(W1[i], n) \/ Len(W1[i].out) = i)
    BY <1>11
  <2>2. Len(W1[i].out) \in Nat
    BY <2>1 DEF T
  <2> HIDE DEF Onward
  <2>3. W1[i + 1] = Onward(W1[i])
    BY <1>9, <1>11
  <2>4. W1[i + 1] \in T
    BY <1>3, <2>1, <2>3
  <2>5. CASE WalkEnds(W1[i], n)
    <3>1. W1[i + 1] = W1[i]
      BY <1>3, <2>1, <2>3, <2>5
    <3> QED BY <1>11, <2>1, <2>2, <2>4, <2>5, <3>1
  <2>6. CASE ~WalkEnds(W1[i], n)
    <3>1. Len(W1[i + 1].out) = Len(W1[i].out) + 1
      BY <1>3, <2>1, <2>3, <2>6
    <3> QED BY <1>11, <2>1, <2>2, <2>4, <2>6, <3>1
  <2> QED BY <2>5, <2>6
<1> HIDE DEF P
<1>12. n \in P
  BY <1>10, <1>11, Along, SMTT(30)
<1> DEFINE w == W1[n]
<1>13. /\ WalkInv(w, from, None) /\ Len(w.out) <= n
       /\ WalkEnds(w, n) \/ Len(w.out) = n
  BY <1>12 DEF P, T
<1> HIDE DEF w
<1>14. w.out \in Seq(Commits) /\ Len(w.out) \in Nat /\ w.failed \in BOOLEAN
  BY <1>13 DEF WalkInv
<1>15. ASSUME Len(w.out) # n, ~Incomplete(w, n)
       PROVE  \E c \in Range(w.out) : Parents[c] = {}
  <2>1. w.frontier = {} /\ ~w.failed
    BY <1>13, <1>14, <1>15 DEF WalkEnds, Incomplete
  <2>2. /\ w.visited = Range(w.out) /\ from \in w.visited
        /\ \A c \in Range(w.out) : Parents[c] \subseteq w.visited \cup {None}
        /\ w.visited \in SUBSET Commits
    BY <1>13, <2>1, WalkWhole, AncestorsFacts DEF WalkInv
  <2>3. \A c \in w.visited : Parents[c] \subseteq w.visited
    BY <2>2, CommitsAssumption
  <2>4. PICK c \in w.visited : Parents[c] \cap w.visited = {}
    BY <2>2, CommitsAssumption
  <2> QED BY <2>2, <2>3, <2>4
<1> QED BY <1>8, <1>13, <1>14, <1>15 DEF w

-----------------------------------------------------------------------------
(* What helpers and git do leaves repositories.                            *)

LEMMA Elements ==
    ASSUME NEW S, NEW s \in Seq(S)
    PROVE  \A i \in DOMAIN s : s[i] \in S
OBVIOUS

LEMMA FetchedType ==
    ASSUME NEW repo \in Repositories, NEW c \in Commits
    PROVE  Fetched(repo, c) \in Repositories
<1> DEFINE loose == [d \in Commits |-> IF d \in Ancestors(c) /\ ~Stored(repo, d) THEN Full(d)
                                       ELSE repo.loose[d]]
<1>1. loose \in [Commits -> Objects]
  BY DEF Repositories, Objects, Full, Object
<1>2. Fetched(repo, c) = [repo EXCEPT !.loose = loose, !.refs["main"] = c]
  BY DEF Fetched, Repositories
<1> HIDE DEF loose
<1>3. [repo.refs EXCEPT !["main"] = c] \in [Refs -> Contents]
  BY DEF Repositories, Contents
<1> QED BY <1>1, <1>2, <1>3 DEF Repositories

LEMMA RepackedType ==
    ASSUME NEW repo \in Repositories, Resolve(repo) # None
    PROVE  Repacked(repo) \in Repositories
<1> DEFINE kept == Ancestors(Resolve(repo))
           at(d) == IF repo.loose[d] # NoObject THEN repo.loose[d]
                    ELSE LET held == {i \in DOMAIN repo.packs : repo.packs[i].objects[d] # NoObject} IN
                         IF held = {} THEN NoObject ELSE repo.packs[CHOOSE i \in held : TRUE].objects[d]
           objects == [d \in Commits |-> IF d \in kept THEN at(d) ELSE NoObject]
           loose == [d \in Commits |-> NoObject]
           packs == <<[index |-> TRUE, objects |-> objects]>>
<1>1. NoObject \in Objects
  BY DEF NoObject, Full, Object, Objects
<1>2. \A d \in Commits : at(d) \in Objects
  <2> TAKE d \in Commits
  <2> DEFINE held == {i \in DOMAIN repo.packs : repo.packs[i].objects[d] # NoObject}
             i0 == CHOOSE i \in held : TRUE
  <2>1. repo.loose[d] \in Objects
    BY DEF Repositories
  <2>2. \A i \in DOMAIN repo.packs : repo.packs[i].objects[d] \in Objects
    <3>1. repo.packs \in Seq([index : BOOLEAN, objects : [Commits -> Objects]])
      BY DEF Repositories
    <3>2. \A i \in DOMAIN repo.packs : repo.packs[i] \in [index : BOOLEAN, objects : [Commits -> Objects]]
      BY <3>1, Elements
    <3> QED BY <3>2
  <2>3. held # {} => i0 \in DOMAIN repo.packs
    OBVIOUS
  <2>4. at(d) = IF repo.loose[d] # NoObject THEN repo.loose[d]
                ELSE IF held = {} THEN NoObject ELSE repo.packs[i0].objects[d]
    OBVIOUS
  <2> HIDE DEF at, held, i0
  <2> QED BY <1>1, <2>1, <2>2, <2>3, <2>4
<1> HIDE DEF at
<1>3. objects \in [Commits -> Objects] /\ loose \in [Commits -> Objects]
  BY <1>1, <1>2
<1>4. packs \in Seq([index : BOOLEAN, objects : [Commits -> Objects]])
  BY <1>3
<1>5. Repacked(repo) = [repo EXCEPT !.loose = loose, !.packs = packs,
                                    !.packed["main"] = Resolve(repo), !.refs["main"] = None]
  BY DEF Repacked, at
<1> HIDE DEF objects, loose, packs
<1>6. /\ [repo.refs EXCEPT !["main"] = None] \in [Refs -> Contents]
      /\ [repo.packed EXCEPT !["main"] = Resolve(repo)] \in [Refs -> Commits \cup {None, Refused}]
  BY ResolveType DEF Repositories, Contents
<1> QED BY <1>3, <1>4, <1>5, <1>6 DEF Repositories

LEMMA CleanedType ==
    ASSUME NEW repo \in Repositories
    PROVE  Cleaned(repo) \in Repositories
<1> DEFINE loose == [d \in Commits |-> NoObject]
<1>1. loose \in [Commits -> Objects]
  BY DEF NoObject, Full, Object, Objects
<1>2. Cleaned(repo) = [repo EXCEPT !.dir = "none", !.head = Refused, !.packs = <<>>, !.loose = loose]
  BY DEF Cleaned
<1> HIDE DEF loose
<1>3. <<>> \in Seq([index : BOOLEAN, objects : [Commits -> Objects]])
  OBVIOUS
<1> QED BY <1>1, <1>2, <1>3 DEF Repositories, Contents

-----------------------------------------------------------------------------
(* The steps of one run.                                                   *)

\* A run moves by its own steps only, and they leave the world alone.
Moves(r) ==
    /\ \A q \in Runs \ {r} : run'[q] = run[q]
    /\ DOMAIN run' = Runs

LEMMA SetMoves ==
    ASSUME Typed, NEW r \in Runs, NEW new, Set(r, new)
    PROVE  Moves(r) /\ run'[r] = new
BY DEF Typed, Set, Moves

\* What a step of a capture or a review has to leave of its own run.
Fine(c, job) == RunTyped(c, job) /\ RunInv(c, job)

\* A step that neither stores nor is about to.
Quiet(c, d) == d.pc # "write" /\ d.stored = c.stored /\ d.after \in {c.after, Storing}

LEMMA BeginCaptureFine ==
    ASSUME IInv, NEW r \in Runs, BeginCapture(r)
    PROVE  Moves(r) /\ Fine(run'[r], Job(r)) /\ Quiet(run[r], run'[r])
<1> DEFINE c == run[r]
           d == run'[r]
<1>1. /\ Typed /\ RunTyped(c, Job(r)) /\ CaptureInv(c) /\ ReviewInv(c)
      /\ c.pc = "idle" /\ Job(r) = "capture" /\ c.exit # 0
  BY DEF IInv, Typed, RunInv, CaptureInv, BeginCapture
<1>2. CASE session.key = "unsafe"
  <2>1. Set(r, [c EXCEPT !.pc = "done", !.exit = 2])
    BY <1>2 DEF BeginCapture
  <2>2. Moves(r) /\ d = [c EXCEPT !.pc = "done", !.exit = 2]
    BY <1>1, <2>1, SetMoves
  <2> HIDE DEF c, d
  <2>3. /\ d.pc = "done" /\ d.exit = 2 /\ d.rec = c.rec /\ d.stored = c.stored /\ d.after = c.after
        /\ DOMAIN d = DOMAIN c
    BY <1>1, <2>2 DEF RunTyped, Idle
  <2>4. RunTyped(d, Job(r)) /\ CaptureInv(d) /\ ReviewInv(d)
    BY <1>1, <2>3 DEF RunTyped, CaptureInv, ReviewInv
  <2> QED BY <1>1, <2>2, <2>3, <2>4 DEF Fine, RunInv, Quiet, c, d
<1>3. CASE session.key # "unsafe"
  <2> DEFINE gaps == {g \in {"no-clone", "vcs-state"} :
                        \/ g = "no-clone" /\ (Held = 0 \/ Held > MaxClones)
                        \/ g = "vcs-state" /\ Held > 0 /\ clone.state = "unreadable"}
             all == gaps \cup IF Held = 0 THEN SearchGaps ELSE {}
             up == IF Held = 0 THEN <<>> ELSE IF clone.state \in Commits THEN <<clone.state>> ELSE <<>>
             ended == {q \in Runs : run[q].stored}
             rec == [Nothing EXCEPT !.upstream = up, !.gaps = all]
             at == IF Held = 0 THEN "captured" ELSE "files"
  <2>1. Set(r, [c EXCEPT !.pc = at, !.search = SearchGaps, !.after = ended, !.rec = rec])
    BY <1>3 DEF BeginCapture
  <2>2. Moves(r) /\ d = [c EXCEPT !.pc = at, !.search = SearchGaps, !.after = ended, !.rec = rec]
    BY <1>1, <2>1, SetMoves
  <2>3. Held = 0 => "no-clone" \in all
    OBVIOUS
  <2>4. rec.gaps = all /\ DOMAIN rec = DOMAIN Nothing
    BY DEF Nothing
  <2> HIDE DEF c, d, all, rec, ended
  <2>5. /\ d.pc = at /\ d.exit = c.exit /\ d.rec = rec /\ d.stored = c.stored /\ d.after = ended
        /\ DOMAIN d = DOMAIN c
    BY <1>1, <2>2 DEF RunTyped, Idle
  <2>6. at = "captured" => d.rec.gaps # {}
    BY <2>3, <2>4, <2>5
  <2>7. RunTyped(d, Job(r))
    BY <1>1, <2>4, <2>5 DEF RunTyped, Capturing
  <2>8. CaptureInv(d) /\ ReviewInv(d)
    BY <1>1, <2>5, <2>6 DEF CaptureInv, ReviewInv
  <2> QED BY <1>1, <2>2, <2>5, <2>7, <2>8 DEF Fine, RunInv, Quiet, Storing, ended, c, d
<1> QED BY <1>2, <1>3

LEMMA CaptureFilesFine ==
    ASSUME IInv, NEW r \in Runs, CaptureFiles(r)
    PROVE  Moves(r) /\ Fine(run'[r], Job(r)) /\ Quiet(run[r], run'[r])
<1> DEFINE c == run[r]
           d == run'[r]
           recipe == IF clone.recipe.state \in {"absent", "refused", "large"} THEN None
                     ELSE clone.recipe.at
           sources == clone.recipe.state \in {"ok", "other"} \/ clone.srcinfo \in {"ok", "other"}
<1>1. /\ Typed /\ RunTyped(c, Job(r)) /\ CaptureInv(c) /\ ReviewInv(c)
      /\ c.pc = "files" /\ c.exit # 0 /\ Job(r) = "capture"
  BY DEF IInv, Typed, RunInv, CaptureInv, CaptureFiles, RunTyped, Capturing
<1>2. Set(r, [c EXCEPT !.pc = "git", !.rec.recipe = recipe, !.rec.srcinfo = clone.srcinfo,
                       !.rec.built = clone.built, !.rec.sources = sources, !.rec.gaps = @ \cup FileGaps])
  BY DEF CaptureFiles
<1> HIDE DEF recipe, sources
<1>3. Moves(r) /\ d = [c EXCEPT !.pc = "git", !.rec.recipe = recipe, !.rec.srcinfo = clone.srcinfo,
                       !.rec.built = clone.built, !.rec.sources = sources, !.rec.gaps = @ \cup FileGaps]
  BY <1>1, <1>2, SetMoves
<1>4. FileGaps = {} => recipe # None /\ clone.srcinfo = "ok" /\ clone.built \in {"ok", "archive"} /\ sources
  <2>1. SUFFICES ASSUME FileGaps = {}
                 PROVE  recipe # None /\ clone.srcinfo = "ok" /\ clone.built \in {"ok", "archive"} /\ sources
    OBVIOUS
  <2>2. /\ "pkgbuild" \notin FileGaps /\ "srcinfo" \notin FileGaps /\ "not-retained" \notin FileGaps
        /\ "mismatch" \notin FileGaps /\ "buildinfo" \notin FileGaps
    BY <2>1
  <2>3. /\ clone.recipe.state \in {"ok", "other", "unretained"} /\ clone.recipe.state # "unretained"
        /\ clone.srcinfo \in {"ok", "other"} /\ clone.built \in {"ok", "other", "archive"}
        /\ "other" \notin {clone.recipe.state, clone.srcinfo, clone.built}
    BY <2>2 DEF FileGaps
  <2>4. clone.recipe.at \in Commits
    BY <1>1 DEF Typed, Clones
  <2> QED BY <2>3, <2>4, CommitsAssumption DEF recipe, sources
<1> HIDE DEF c, d
<1>5. /\ d.pc = "git" /\ d.exit = c.exit /\ d.stored = c.stored /\ d.after = c.after
      /\ DOMAIN d = DOMAIN c
      /\ DOMAIN d.rec = DOMAIN c.rec
      /\ d.rec.recipe = recipe /\ d.rec.srcinfo = clone.srcinfo /\ d.rec.built = clone.built
      /\ d.rec.sources = sources /\ d.rec.gaps = c.rec.gaps \cup FileGaps
  BY <1>1, <1>3 DEF RunTyped, Idle, Nothing
<1>6. d.rec.gaps = {} => Filed(d.rec)
  BY <1>4, <1>5 DEF Filed
<1>7. RunTyped(d, Job(r))
  BY <1>1, <1>5 DEF RunTyped, Capturing
<1>8. CaptureInv(d) /\ ReviewInv(d)
  BY <1>1, <1>5, <1>6 DEF CaptureInv, ReviewInv
<1> QED BY <1>1, <1>3, <1>5, <1>7, <1>8 DEF Fine, RunInv, Quiet, c, d

LEMMA CaptureGitFine ==
    ASSUME IInv, NEW r \in Runs, CaptureGit(r)
    PROVE  Moves(r) /\ Fine(run'[r], Job(r)) /\ Quiet(run[r], run'[r])
<1> DEFINE c == run[r]
           d == run'[r]
           head == IF Opens(clone.git) THEN Resolve(clone.git) ELSE None
           remote == IF Opens(clone.git) THEN Remote(clone.git) ELSE None
           readable == head # None /\ ReadCommit(clone.git.loose, Packs(clone.git), head) # None
           log == IF readable THEN Log(clone.git, head, MaxLog + 1) ELSE [NoWalk EXCEPT !.failed = TRUE]
           kept == SubSeq(log.out, 1, IF Len(log.out) > MaxLog THEN MaxLog ELSE Len(log.out))
<1>1. /\ Typed /\ RunTyped(c, Job(r)) /\ CaptureInv(c) /\ ReviewInv(c)
      /\ c.pc = "git" /\ c.exit # 0 /\ Job(r) = "capture"
  BY DEF IInv, Typed, RunInv, CaptureInv, CaptureGit, RunTyped, Capturing
<1>2. Set(r, [c EXCEPT !.pc = "upstream", !.rec.head = head, !.rec.remote = remote,
                       !.rec.log = kept, !.rec.gaps = @ \cup GitGaps(log)])
  BY DEF CaptureGit
<1>3. clone.git \in Repositories /\ Resolve(clone.git) \in Commits \cup {None} /\ MaxLog \in Nat
  BY <1>1, ResolveType, SessionsAssumption DEF Typed, Clones
<1>4. ASSUME GitGaps(log) = {}
      PROVE  /\ head # None /\ remote # None
             /\ Len(kept) = MaxLog \/ \E a \in Range(kept) : Parents[a] = {}
  <2>1. "git" \notin GitGaps(log)
    BY <1>4
  <2>2. /\ Opens(clone.git) /\ Resolve(clone.git) # None /\ Remote(clone.git) # None
        /\ ~Incomplete(log, MaxLog + 1)
    BY <2>1 DEF GitGaps
  <2>3. head \in Commits /\ head # None /\ remote # None
    BY <1>3, <2>2
  <2> HIDE DEF head, remote
  <2>4. readable
    <3>1. SUFFICES ASSUME ~readable
                   PROVE  FALSE
      OBVIOUS
    <3>2. log.failed /\ log.out = <<>>
      BY <3>1 DEF NoWalk
    <3> QED BY <1>3, <2>2, <3>2 DEF Incomplete
  <2>5. log = Log(clone.git, head, MaxLog + 1)
    BY <2>4
  <2> HIDE DEF log
  <2>6. /\ log.out \in Seq(Commits) /\ Len(log.out) <= MaxLog + 1
        /\ Len(log.out) = MaxLog + 1 \/ \E a \in Range(log.out) : Parents[a] = {}
    <3>1. MaxLog + 1 \in Nat
      BY <1>3
    <3> DEFINE n == MaxLog + 1
    <3> HIDE DEF n
    <3>2. /\ Log(clone.git, head, n).out \in Seq(Commits) /\ Len(Log(clone.git, head, n).out) <= n
          /\ \/ Incomplete(Log(clone.git, head, n), n)
             \/ Len(Log(clone.git, head, n).out) = n
             \/ \E a \in Range(Log(clone.git, head, n).out) : Parents[a] = {}
      BY <2>3, <3>1, LogFacts DEF n
    <3>3. log = Log(clone.git, head, n) /\ ~Incomplete(log, n)
      BY <2>2, <2>5 DEF n
    <3>4. /\ log.out \in Seq(Commits) /\ Len(log.out) <= n
          /\ Len(log.out) = n \/ \E a \in Range(log.out) : Parents[a] = {}
      BY <3>2, <3>3
    <3> QED BY <3>4 DEF n
  <2>7. CASE Len(log.out) = MaxLog + 1
    BY <1>3, <2>3, <2>6, <2>7
  <2>8. CASE Len(log.out) # MaxLog + 1
    <3>1. Len(log.out) \in Nat /\ Len(log.out) <= MaxLog
      BY <1>3, <2>6, <2>8
    <3>2. kept = SubSeq(log.out, 1, Len(log.out))
      BY <1>3, <3>1
    <3>3. SubSeq(log.out, 1, Len(log.out)) = log.out
      BY <2>6
    <3> QED BY <2>3, <2>6, <2>8, <3>2, <3>3
  <2> QED BY <2>3, <2>7, <2>8
<1> HIDE DEF head, remote, log, kept
<1>5. Moves(r) /\ d = [c EXCEPT !.pc = "upstream", !.rec.head = head, !.rec.remote = remote,
                       !.rec.log = kept, !.rec.gaps = @ \cup GitGaps(log)]
  BY <1>1, <1>2, SetMoves
<1> HIDE DEF c, d
<1>6. /\ d.pc = "upstream" /\ d.exit = c.exit /\ d.stored = c.stored /\ d.after = c.after
      /\ DOMAIN d = DOMAIN c
      /\ DOMAIN d.rec = DOMAIN c.rec
      /\ d.rec.head = head /\ d.rec.remote = remote /\ d.rec.log = kept
      /\ d.rec.gaps = c.rec.gaps \cup GitGaps(log)
      /\ d.rec.recipe = c.rec.recipe /\ d.rec.srcinfo = c.rec.srcinfo
      /\ d.rec.built = c.rec.built /\ d.rec.sources = c.rec.sources
  BY <1>1, <1>5 DEF RunTyped, Idle, Nothing
<1>7. d.rec.gaps = {} => Filed(d.rec) /\ Rooted(d.rec)
  <2>1. SUFFICES ASSUME d.rec.gaps = {}
                 PROVE  Filed(d.rec) /\ Rooted(d.rec)
    OBVIOUS
  <2>2. c.rec.gaps = {} /\ GitGaps(log) = {}
    BY <1>6, <2>1
  <2>3. Filed(c.rec)
    BY <1>1, <2>2 DEF CaptureInv
  <2> QED BY <1>4, <1>6, <2>2, <2>3 DEF Filed, Rooted
<1>8. RunTyped(d, Job(r))
  BY <1>1, <1>6 DEF RunTyped, Capturing
<1>9. CaptureInv(d) /\ ReviewInv(d)
  BY <1>1, <1>6, <1>7 DEF CaptureInv, ReviewInv
<1> QED BY <1>1, <1>5, <1>6, <1>8, <1>9 DEF Fine, RunInv, Quiet, c, d

LEMMA CaptureUpstreamFine ==
    ASSUME IInv, NEW r \in Runs, CaptureUpstream(r)
    PROVE  Moves(r) /\ Fine(run'[r], Job(r)) /\ Quiet(run[r], run'[r])
<1> DEFINE c == run[r]
           d == run'[r]
           head == IF Opens(source) THEN Resolve(source) ELSE None
           found == (IF head = None THEN <<>> ELSE <<head>>) \o c.rec.upstream
           up == IF c.rec.sources THEN found ELSE <<>>
<1>1. /\ Typed /\ RunTyped(c, Job(r)) /\ CaptureInv(c) /\ ReviewInv(c)
      /\ c.pc = "upstream" /\ c.exit # 0 /\ Job(r) = "capture"
  BY DEF IInv, Typed, RunInv, CaptureInv, CaptureUpstream, RunTyped, Capturing
<1>2. Set(r, [c EXCEPT !.pc = "captured", !.rec.upstream = up, !.rec.gaps = @ \cup UpstreamGaps(r, found)])
  BY DEF CaptureUpstream
<1>3. UpstreamGaps(r, found) = {} /\ c.rec.sources => Cardinality(Range(up)) = 1
  <2>1. SUFFICES ASSUME UpstreamGaps(r, found) = {}, c.rec.sources
                 PROVE  Cardinality(Range(up)) = 1
    OBVIOUS
  <2>2. "upstream" \notin UpstreamGaps(r, found)
    BY <2>1
  <2> QED BY <2>1, <2>2 DEF UpstreamGaps
<1> HIDE DEF head, found, up
<1>4. Moves(r) /\ d = [c EXCEPT !.pc = "captured", !.rec.upstream = up,
                                !.rec.gaps = @ \cup UpstreamGaps(r, found)]
  BY <1>1, <1>2, SetMoves
<1> HIDE DEF c, d
<1>5. /\ d.pc = "captured" /\ d.exit = c.exit /\ d.stored = c.stored /\ d.after = c.after
      /\ DOMAIN d = DOMAIN c
      /\ DOMAIN d.rec = DOMAIN c.rec
      /\ d.rec.head = c.rec.head /\ d.rec.remote = c.rec.remote /\ d.rec.log = c.rec.log
      /\ d.rec.gaps = c.rec.gaps \cup UpstreamGaps(r, found) /\ d.rec.upstream = up
      /\ d.rec.recipe = c.rec.recipe /\ d.rec.srcinfo = c.rec.srcinfo
      /\ d.rec.built = c.rec.built /\ d.rec.sources = c.rec.sources
  BY <1>1, <1>4 DEF RunTyped, Idle, Nothing
<1>6. d.rec.gaps = {} => Filed(d.rec) /\ Rooted(d.rec) /\ Single(d.rec)
  <2>1. SUFFICES ASSUME d.rec.gaps = {}
                 PROVE  Filed(d.rec) /\ Rooted(d.rec) /\ Single(d.rec)
    OBVIOUS
  <2>2. c.rec.gaps = {} /\ UpstreamGaps(r, found) = {}
    BY <1>5, <2>1
  <2>3. Filed(c.rec) /\ Rooted(c.rec)
    BY <1>1, <2>2 DEF CaptureInv
  <2> QED BY <1>3, <1>5, <2>2, <2>3 DEF Filed, Rooted, Single
<1>7. RunTyped(d, Job(r))
  BY <1>1, <1>5 DEF RunTyped, Capturing
<1>8. CaptureInv(d) /\ ReviewInv(d)
  BY <1>1, <1>5, <1>6 DEF CaptureInv, ReviewInv
<1> QED BY <1>1, <1>4, <1>5, <1>7, <1>8 DEF Fine, RunInv, Quiet, c, d

\* A capture that ends has the record it ends with, and a code for its gaps.
LEMMA FinishFine ==
    ASSUME IInv, NEW r \in Runs, NEW stored \in BOOLEAN, run[r].pc \in {"captured", "write"},
           Finish(r, stored)
    PROVE  /\ Moves(r) /\ Fine(run'[r], Job(r))
           /\ run'[r].pc = "done" /\ run'[r].stored = stored
           /\ run'[r].rec = run[r].rec /\ run'[r].after = run[r].after
<1> DEFINE c == run[r]
           d == run'[r]
           code == Exit(r)
<1>1. /\ Typed /\ RunTyped(c, Job(r)) /\ CaptureInv(c) /\ ReviewInv(c)
      /\ Job(r) = "capture"
  BY DEF IInv, Typed, RunInv, RunTyped, Capturing
<1>2. Set(r, [c EXCEPT !.pc = "done", !.exit = code, !.stored = stored])
  BY DEF Finish
<1>3. code = 0 => c.rec.gaps = {}
  BY DEF Exit
<1> HIDE DEF code
<1>4. Moves(r) /\ d = [c EXCEPT !.pc = "done", !.exit = code, !.stored = stored]
  BY <1>1, <1>2, SetMoves
<1>5. c.pc \in {"captured", "write"}
  OBVIOUS
<1> HIDE DEF c, d
<1>6. /\ d.pc = "done" /\ d.exit = code /\ d.stored = stored /\ DOMAIN d = DOMAIN c
      /\ d.rec = c.rec /\ d.after = c.after
  BY <1>1, <1>4 DEF RunTyped, Idle
<1>7. RunTyped(d, Job(r))
  BY <1>1, <1>6 DEF RunTyped, Capturing
<1>8. CaptureInv(d) /\ ReviewInv(d)
  BY <1>1, <1>3, <1>5, <1>6 DEF CaptureInv, ReviewInv
<1> QED BY <1>1, <1>4, <1>6, <1>7, <1>8 DEF Fine, RunInv, c, d

LEMMA CompareFine ==
    ASSUME IInv, NEW r \in Runs, Compare(r)
    PROVE  /\ Moves(r) /\ Fine(run'[r], Job(r))
           /\ run'[r].after = run[r].after /\ run'[r].rec = run[r].rec
           /\ \/ run'[r].pc = "done" /\ run'[r].stored = FALSE
              \/ Same(run[r].rec) /\ run'[r].pc = "done" /\ run'[r].stored = TRUE
              \/ run'[r].pc = "write" /\ run'[r].stored = run[r].stored /\ run'[r].stamp = clock
<1> DEFINE c == run[r]
           d == run'[r]
<1>1. /\ Typed /\ RunTyped(c, Job(r)) /\ CaptureInv(c) /\ ReviewInv(c)
      /\ c.pc = "captured" /\ c.exit # 0 /\ Job(r) = "capture"
  BY DEF IInv, Typed, RunInv, CaptureInv, Compare, RunTyped, Capturing
<1>2. \/ Finish(r, FALSE)
      \/ Same(c.rec) /\ Finish(r, TRUE)
      \/ Set(r, [c EXCEPT !.pc = "write", !.stamp = clock])
  BY DEF Compare
<1>3. CASE Finish(r, FALSE)
  BY <1>1, <1>3, FinishFine
<1>4. CASE Same(c.rec) /\ Finish(r, TRUE)
  BY <1>1, <1>4, FinishFine
<1>5. CASE Set(r, [c EXCEPT !.pc = "write", !.stamp = clock])
  <2>1. Moves(r) /\ d = [c EXCEPT !.pc = "write", !.stamp = clock]
    BY <1>1, <1>5, SetMoves
  <2> HIDE DEF c, d
  <2>2. /\ d.pc = "write" /\ d.exit = c.exit /\ d.stored = c.stored /\ DOMAIN d = DOMAIN c
        /\ d.rec = c.rec /\ d.after = c.after /\ d.stamp = clock
    BY <1>1, <2>1 DEF RunTyped, Idle
  <2>3. RunTyped(d, Job(r))
    BY <1>1, <2>2 DEF RunTyped, Capturing
  <2>4. CaptureInv(d) /\ ReviewInv(d)
    BY <1>1, <2>2 DEF CaptureInv, ReviewInv
  <2> QED BY <1>1, <2>1, <2>2, <2>3, <2>4 DEF Fine, RunInv, c, d
<1> QED BY <1>2, <1>3, <1>4, <1>5

LEMMA WriteFine ==
    ASSUME IInv, NEW r \in Runs, Write(r)
    PROVE  /\ Moves(r) /\ Fine(run'[r], Job(r))
           /\ run'[r].pc = "done"
           /\ run'[r].after = run[r].after /\ run'[r].rec = run[r].rec
<1>1. run[r].pc \in {"captured", "write"} /\ (Finish(r, TRUE) \/ Finish(r, FALSE))
  BY DEF Write
<1> QED BY <1>1, FinishFine

\* What every step of a review leaves of its run's other half.
Reads(c, d) ==
    /\ DOMAIN d = DOMAIN c
    /\ d.rec = c.rec /\ d.exit = c.exit /\ d.stored = c.stored /\ d.after = c.after

LEMMA ReadsFine ==
    ASSUME NEW c, NEW d, NEW job, RunTyped(c, job), CaptureInv(c), Reads(c, d),
           c.pc \in {"idle"} \cup Reviewing, d.pc \in {"done"} \cup Reviewing,
           ReviewInv(d), d.pc = "done" => DeltaOf(d)
    PROVE  Fine(d, job)
<1>1. RunTyped(d, job)
  BY DEF RunTyped, Reads, Capturing, Reviewing
<1>2. CaptureInv(d)
  BY DEF CaptureInv, Reads, Reviewing
<1> QED BY <1>1, <1>2 DEF Fine, RunInv

\* A review that ends before it has walked says so.
LEMMA SaysSo ==
    ASSUME NEW d, d.walk = NoWalk, d.gaps # {},
           d.status \notin {"up-to-date", "new-commits", "anchor-absent"}
    PROVE  DeltaOf(d)
<1>1. Range(d.walk.out) = {}
  BY DEF NoWalk, Range
<1> QED BY <1>1 DEF DeltaOf

LEMMA BeginReviewFine ==
    ASSUME IInv, NEW r \in Runs, BeginReview(r)
    PROVE  Moves(r) /\ Fine(run'[r], Job(r)) /\ Quiet(run[r], run'[r])
<1> DEFINE c == run[r]
           d == run'[r]
<1>1. /\ Typed /\ RunTyped(c, Job(r)) /\ CaptureInv(c) /\ ReviewInv(c)
      /\ c.pc = "idle" /\ c.walk = NoWalk
  BY DEF IInv, Typed, RunInv, ReviewInv, BeginReview
<1>2. CASE End(r, "unreadable", {"unreadable"})
  <2>1. Moves(r) /\ d = [c EXCEPT !.pc = "done", !.status = "unreadable", !.gaps = @ \cup {"unreadable"}]
    BY <1>1, <1>2, SetMoves DEF End
  <2> HIDE DEF c, d
  <2>2. /\ Reads(c, d) /\ d.pc = "done" /\ d.walk = NoWalk /\ d.status = "unreadable"
        /\ d.gaps = c.gaps \cup {"unreadable"}
    BY <1>1, <2>1 DEF RunTyped, Idle, Reads
  <2>3. DeltaOf(d) /\ ReviewInv(d)
    BY <2>2, SaysSo DEF ReviewInv
  <2> QED BY <1>1, <2>1, <2>2, <2>3, ReadsFine DEF Quiet, Reads, Reviewing, c, d
<1>3. CASE ~End(r, "unreadable", {"unreadable"})
  <2> DEFINE anchor == IF Anchor = {} THEN None ELSE CHOOSE a \in Anchor : TRUE
             remote == IF Anchor = {} THEN None ELSE session.remote
  <2>1. Set(r, [c EXCEPT !.pc = "open", !.anchor = anchor, !.remote = remote])
    BY <1>3 DEF BeginReview
  <2> HIDE DEF anchor, remote
  <2>2. Moves(r) /\ d = [c EXCEPT !.pc = "open", !.anchor = anchor, !.remote = remote]
    BY <1>1, <2>1, SetMoves
  <2> HIDE DEF c, d
  <2>3. Reads(c, d) /\ d.pc = "open" /\ d.walk = NoWalk
    BY <1>1, <2>2 DEF RunTyped, Idle, Reads
  <2>4. ReviewInv(d) /\ d.pc \in Reviewing
    BY <2>3 DEF ReviewInv, Reviewing
  <2> QED BY <1>1, <2>2, <2>3, <2>4, ReadsFine DEF Quiet, Reads, Reviewing, c, d
<1> QED BY <1>2, <1>3

LEMMA OpenCloneFine ==
    ASSUME IInv, NEW r \in Runs, OpenClone(r)
    PROVE  Moves(r) /\ Fine(run'[r], Job(r)) /\ Quiet(run[r], run'[r])
<1> DEFINE c == run[r]
           d == run'[r]
           remote == Remote(source)
           gaps == FormatGaps(source) \cup
                   IF remote = None /\ c.remote # None THEN {"no-remote"} ELSE {}
           head == Resolve(source)
           moved == remote # None /\ c.remote \notin {None, remote}
           seen == [c EXCEPT !.head = head, !.gaps = gaps, !.moved = moved]
<1>1. /\ Typed /\ RunTyped(c, Job(r)) /\ CaptureInv(c) /\ ReviewInv(c)
      /\ c.pc = "open" /\ c.walk = NoWalk /\ c.pc \in Reviewing
  BY DEF IInv, Typed, RunInv, ReviewInv, OpenClone, Reviewing
<1>2. \/ End(r, "unreadable", {"unreadable"} \cup gaps)
      \/ Set(r, [seen EXCEPT !.pc = "done", !.status = "no-anchor", !.gaps = gaps \cup {"no-anchor"}])
      \/ Set(r, [seen EXCEPT !.pc = "start"])
  BY DEF OpenClone
<1> HIDE DEF gaps, head, moved, remote
<1>3. CASE End(r, "unreadable", {"unreadable"} \cup gaps)
  <2>1. Moves(r) /\ d = [c EXCEPT !.pc = "done", !.status = "unreadable", !.gaps = @ \cup ({"unreadable"} \cup gaps)]
    BY <1>1, <1>3, SetMoves DEF End
  <2> HIDE DEF c, d
  <2>2. /\ Reads(c, d) /\ d.pc = "done" /\ d.walk = NoWalk /\ d.status = "unreadable"
        /\ "unreadable" \in d.gaps
    BY <1>1, <2>1 DEF RunTyped, Idle, Reads
  <2>3. DeltaOf(d) /\ ReviewInv(d)
    BY <2>2, SaysSo DEF ReviewInv
  <2> QED BY <1>1, <2>1, <2>2, <2>3, ReadsFine DEF Quiet, Reads, Reviewing, c, d
<1>4. CASE Set(r, [seen EXCEPT !.pc = "done", !.status = "no-anchor", !.gaps = gaps \cup {"no-anchor"}])
  <2>1. Moves(r) /\ d = [seen EXCEPT !.pc = "done", !.status = "no-anchor", !.gaps = gaps \cup {"no-anchor"}]
    BY <1>1, <1>4, SetMoves
  <2> HIDE DEF c, d
  <2>2. /\ Reads(c, d) /\ d.pc = "done" /\ d.walk = NoWalk /\ d.status = "no-anchor"
        /\ "no-anchor" \in d.gaps
    BY <1>1, <2>1 DEF RunTyped, Idle, Reads
  <2>3. DeltaOf(d) /\ ReviewInv(d)
    BY <2>2, SaysSo DEF ReviewInv
  <2> QED BY <1>1, <2>1, <2>2, <2>3, ReadsFine DEF Quiet, Reads, Reviewing, c, d
<1>5. CASE Set(r, [seen EXCEPT !.pc = "start"])
  <2>1. Moves(r) /\ d = [seen EXCEPT !.pc = "start"]
    BY <1>1, <1>5, SetMoves
  <2> HIDE DEF c, d
  <2>2. Reads(c, d) /\ d.pc = "start" /\ d.walk = NoWalk
    BY <1>1, <2>1 DEF RunTyped, Idle, Reads
  <2>3. ReviewInv(d) /\ d.pc \in Reviewing
    BY <2>2 DEF ReviewInv, Reviewing
  <2> QED BY <1>1, <2>1, <2>2, <2>3, ReadsFine DEF Quiet, Reads, Reviewing, c, d
<1> QED BY <1>2, <1>3, <1>4, <1>5

LEMMA StartWalkFine ==
    ASSUME IInv, NEW r \in Runs, StartWalk(r)
    PROVE  Moves(r) /\ Fine(run'[r], Job(r)) /\ Quiet(run[r], run'[r])
<1> DEFINE c == run[r]
           d == run'[r]
           head == Resolve(source)
           gaps == FormatGaps(source) \cup StoreGaps(source)
           packs == Packs(source)
           begun == [c EXCEPT !.walked = head, !.packs = packs, !.gaps = @ \cup gaps]
<1>1. /\ Typed /\ RunTyped(c, Job(r)) /\ CaptureInv(c) /\ ReviewInv(c)
      /\ c.pc = "start" /\ c.walk = NoWalk /\ c.pc \in Reviewing
  BY DEF IInv, Typed, RunInv, ReviewInv, StartWalk, Reviewing
<1>2. \/ head = c.anchor /\ Set(r, [begun EXCEPT !.pc = "judge", !.walk.reached = TRUE])
      \/ End(r, "unreadable", gaps \cup {"unreadable"})
      \/ /\ head # None /\ head # c.anchor
         /\ Set(r, [begun EXCEPT !.pc = "walk", !.walk = WalkFrom(head)])
  BY DEF StartWalk
<1>3. head \in Commits \cup {None}
  BY <1>1, ResolveType DEF Typed
<1> HIDE DEF gaps, head, packs
<1>4. CASE head = c.anchor /\ Set(r, [begun EXCEPT !.pc = "judge", !.walk.reached = TRUE])
  <2>1. Moves(r) /\ d = [begun EXCEPT !.pc = "judge", !.walk.reached = TRUE]
    BY <1>1, <1>4, SetMoves
  <2> HIDE DEF c, d
  <2>2. /\ Reads(c, d) /\ d.pc = "judge" /\ d.walked = head /\ d.anchor = c.anchor
        /\ d.walk = [NoWalk EXCEPT !.reached = TRUE]
    BY <1>1, <2>1 DEF RunTyped, Idle, Reads
  <2>3. ReviewInv(d) /\ d.pc \in Reviewing
    BY <1>4, <2>2 DEF ReviewInv, Reviewing
  <2> QED BY <1>1, <2>1, <2>2, <2>3, ReadsFine DEF Quiet, Reads, Reviewing, c, d
<1>5. CASE End(r, "unreadable", gaps \cup {"unreadable"})
  <2>1. Moves(r) /\ d = [c EXCEPT !.pc = "done", !.status = "unreadable", !.gaps = @ \cup (gaps \cup {"unreadable"})]
    BY <1>1, <1>5, SetMoves DEF End
  <2> HIDE DEF c, d
  <2>2. /\ Reads(c, d) /\ d.pc = "done" /\ d.walk = NoWalk /\ d.status = "unreadable"
        /\ "unreadable" \in d.gaps
    BY <1>1, <2>1 DEF RunTyped, Idle, Reads
  <2>3. DeltaOf(d) /\ ReviewInv(d)
    BY <2>2, SaysSo DEF ReviewInv
  <2> QED BY <1>1, <2>1, <2>2, <2>3, ReadsFine DEF Quiet, Reads, Reviewing, c, d
<1>6. CASE /\ head # None /\ head # c.anchor
           /\ Set(r, [begun EXCEPT !.pc = "walk", !.walk = WalkFrom(head)])
  <2>1. Moves(r) /\ d = [begun EXCEPT !.pc = "walk", !.walk = WalkFrom(head)]
    BY <1>1, <1>6, SetMoves
  <2>2. WalkInv(WalkFrom(head), head, c.anchor) /\ head \in Commits
    BY <1>3, <1>6, WalkFromInv
  <2> HIDE DEF c, d
  <2>3. /\ Reads(c, d) /\ d.pc = "walk" /\ d.walked = head /\ d.anchor = c.anchor
        /\ d.walk = WalkFrom(head)
    BY <1>1, <2>1 DEF RunTyped, Idle, Reads
  <2>4. ReviewInv(d) /\ d.pc \in Reviewing
    BY <2>2, <2>3 DEF ReviewInv, Reviewing
  <2> QED BY <1>1, <2>1, <2>3, <2>4, ReadsFine DEF Quiet, Reads, Reviewing, c, d
<1> QED BY <1>2, <1>4, <1>5, <1>6

LEMMA WalkFine ==
    ASSUME IInv, NEW r \in Runs, Walk(r)
    PROVE  Moves(r) /\ Fine(run'[r], Job(r)) /\ Quiet(run[r], run'[r])
<1> DEFINE c == run[r]
           d == run'[r]
<1>1. /\ Typed /\ RunTyped(c, Job(r)) /\ CaptureInv(c) /\ ReviewInv(c)
      /\ c.pc = "walk" /\ c.walked \in Commits /\ WalkInv(c.walk, c.walked, c.anchor)
      /\ c.pc \in Reviewing
  BY DEF IInv, Typed, RunInv, ReviewInv, Walk, Reviewing
<1>2. CASE WalkEnds(c.walk, MaxReview)
  <2>1. Moves(r) /\ d = [c EXCEPT !.pc = "judge"]
    BY <1>1, <1>2, SetMoves DEF Walk
  <2>2. WalkEnds(c.walk, MaxReview)
    BY <1>2
  <2> HIDE DEF c, d
  <2>3. Reads(c, d) /\ d.pc = "judge" /\ d.walk = c.walk /\ d.walked = c.walked /\ d.anchor = c.anchor
    BY <1>1, <2>1 DEF RunTyped, Idle, Reads
  <2>4. ReviewInv(d) /\ d.pc \in Reviewing
    BY <1>1, <2>2, <2>3 DEF ReviewInv, Reviewing
  <2> QED BY <1>1, <2>1, <2>3, <2>4, ReadsFine DEF Quiet, Reads, Reviewing, c, d
<1>3. CASE ~WalkEnds(c.walk, MaxReview)
  <2> DEFINE v == WalkStep(c.walk, c.anchor, source.loose, c.packs)
  <2>1. Moves(r) /\ d = [c EXCEPT !.walk = v]
    BY <1>1, <1>3, SetMoves DEF Walk
  <2>2. c.walk.frontier # {}
    BY <1>3 DEF WalkEnds
  <2>3. WalkInv(v, c.walked, c.anchor)
    BY <1>1, <2>2, WalkStepInv
  <2> HIDE DEF c, d, v
  <2>4. Reads(c, d) /\ d.pc = "walk" /\ d.walk = v /\ d.walked = c.walked /\ d.anchor = c.anchor
    BY <1>1, <2>1 DEF RunTyped, Idle, Reads
  <2>5. ReviewInv(d) /\ d.pc \in Reviewing
    BY <1>1, <2>3, <2>4 DEF ReviewInv, Reviewing
  <2> QED BY <1>1, <2>1, <2>4, <2>5, ReadsFine DEF Quiet, Reads, Reviewing, c, d
<1> QED BY <1>2, <1>3

LEMMA JudgeFine ==
    ASSUME IInv, NEW r \in Runs, Judge(r)
    PROVE  Moves(r) /\ Fine(run'[r], Job(r)) /\ Quiet(run[r], run'[r])
<1> DEFINE c == run[r]
           d == run'[r]
           w == c.walk
           truncated == Len(w.out) >= MaxReview
           status == IF c.anchor = c.head \/ (w.reached /\ w.out = <<>>) THEN "up-to-date"
                     ELSE IF w.reached THEN "new-commits"
                     ELSE IF truncated THEN "undetermined" ELSE "anchor-absent"
           more == IF truncated THEN {"truncated"} ELSE {}
           say == IF Incomplete(w, MaxReview) THEN "undetermined" ELSE status
           add == IF Incomplete(w, MaxReview) THEN {"incomplete"} ELSE more
<1>1. /\ Typed /\ RunTyped(c, Job(r)) /\ CaptureInv(c) /\ ReviewInv(c)
      /\ c.pc = "judge" /\ c.pc \in Reviewing /\ MaxReview \in Nat
      /\ \/ c.walked = c.anchor /\ w = [NoWalk EXCEPT !.reached = TRUE]
         \/ /\ c.walked \in Commits /\ WalkInv(w, c.walked, c.anchor)
            /\ WalkEnds(w, MaxReview)
  BY SessionsAssumption DEF IInv, Typed, RunInv, ReviewInv, Judge, Reviewing
<1>2. End(r, say, add)
  BY DEF Judge
<1>3. Moves(r) /\ d = [c EXCEPT !.pc = "done", !.status = say, !.gaps = @ \cup add]
  BY <1>1, <1>2, SetMoves DEF End
<1> HIDE DEF say, add, c, d
<1>4. /\ Reads(c, d) /\ d.pc = "done" /\ d.walk = w /\ d.walked = c.walked /\ d.anchor = c.anchor
      /\ d.head = c.head /\ d.status = say /\ d.gaps = c.gaps \cup add
  BY <1>1, <1>3 DEF RunTyped, Idle, Reads
<1> HIDE DEF w
<1>5. ASSUME c.walked = c.anchor, w = [NoWalk EXCEPT !.reached = TRUE]
      PROVE  DeltaOf(d)
  <2>1. w.reached /\ w.out = <<>> /\ ~w.failed
    BY <1>5 DEF NoWalk
  <2>2. Range(w.out) = {} /\ ~Incomplete(w, MaxReview)
    BY <2>1 DEF Range, Incomplete
  <2>3. say = "up-to-date"
    BY <2>1, <2>2 DEF say
  <2> QED BY <1>4, <1>5, <2>2, <2>3 DEF DeltaOf
<1>6. ASSUME c.walked \in Commits, WalkInv(w, c.walked, c.anchor), WalkEnds(w, MaxReview)
      PROVE  DeltaOf(d)
  <2>1. /\ w.out \in Seq(Commits) /\ Range(w.out) \subseteq Ancestors(c.walked)
        /\ w.reached \in BOOLEAN /\ w.failed \in BOOLEAN /\ Len(w.out) \in Nat
        /\ w.reached => \E a \in Range(w.out) : c.anchor \in Parents[a]
    BY <1>6 DEF WalkInv
  <2>2. w.reached => c.anchor \in Ancestors(c.walked)
    BY <1>6, <2>1, AncestorsFacts
  <2>3. w.reached => w.out # <<>>
    BY <2>1 DEF Range
  <2>4. CASE Incomplete(w, MaxReview)
    <3>1. say = "undetermined" /\ add # {}
      BY <2>4 DEF say, add
    <3>2. d.status = "undetermined" /\ d.gaps # {}
      BY <1>4, <3>1
    <3> QED BY <1>4, <2>1, <3>2 DEF DeltaOf
  <2>5. CASE ~Incomplete(w, MaxReview) /\ truncated
    <3>1. say = status /\ "truncated" \in d.gaps
      BY <1>4, <2>5 DEF say, add
    <3>2. \/ d.status = "up-to-date" /\ c.anchor = c.head
          \/ d.status = "new-commits" /\ w.reached
          \/ d.status = "undetermined"
      BY <1>4, <2>3, <2>5, <3>1
    <3> QED BY <1>4, <2>1, <2>2, <3>1, <3>2 DEF DeltaOf
  <2>6. CASE ~Incomplete(w, MaxReview) /\ ~truncated
    <3>1. w.frontier = {} /\ ~w.failed
      BY <1>1, <1>6, <2>1, <2>6 DEF WalkEnds, Incomplete
    <3>2. /\ ~w.reached => c.anchor \notin Ancestors(c.walked)
          /\ w.reached => Ancestors(c.walked) \ Ancestors(c.anchor) \subseteq Range(w.out)
      BY <1>6, <3>1, WalkWhole
    <3>3. \/ d.status = "up-to-date" /\ c.anchor = c.head
          \/ d.status = "new-commits" /\ w.reached
          \/ d.status = "anchor-absent" /\ ~w.reached
      BY <1>4, <2>1, <2>3, <2>6 DEF say
    <3> QED BY <1>4, <2>1, <2>2, <3>2, <3>3 DEF DeltaOf
  <2> QED BY <2>4, <2>5, <2>6
<1>7. DeltaOf(d) /\ ReviewInv(d)
  BY <1>1, <1>4, <1>5, <1>6 DEF ReviewInv
<1> QED BY <1>1, <1>3, <1>4, <1>7, ReadsFine DEF Quiet, Reads, Reviewing, c, d

-----------------------------------------------------------------------------
(* The store.                                                              *)

LEMMA QuietKeeps ==
    ASSUME IInv, NEW r \in Runs, Moves(r), Quiet(run[r], run'[r]),
           run[r].pc \notin {"done", "write"}, UNCHANGED <<session, snapshots, clock>>
    PROVE  StampsInv' /\ NewestInv'
<1>1. StampsInv /\ NewestInv /\ r \notin Storing
  BY DEF IInv, StampsInv
<1>2. Storing' = Storing
  BY DEF Storing, Moves, Quiet
<1>3. \A q \in Storing : run'[q] = run[q]
  BY <1>1 DEF Storing, Moves
<1>4. LastStored' = LastStored
  BY <1>2, <1>3 DEF LastStored
<1>5. \A q \in Runs : run'[q].pc = "write" => q # r /\ run'[q] = run[q]
  BY DEF Moves, Quiet
<1>6. \A q \in Runs : run'[q].after \subseteq Storing
  BY <1>1 DEF Moves, Quiet, StampsInv
<1>7. StampsInv'
  BY <1>1, <1>2, <1>3, <1>5, <1>6 DEF StampsInv, Job
<1>8. NewestInv'
  <2>1. Latest' = Latest /\ Whole' = Whole
    BY DEF Latest, Whole
  <2>2. ASSUME NEW s \in Latest, Storing # {}, Whole = snapshots
        PROVE  \E q \in LastStored :
                  /\ s.rec = run'[q].rec
                  /\ \A p \in Runs : run'[p].pc = "write" /\ run'[p].stamp < s.stamp => q \notin run'[p].after
    <3>1. PICK q \in LastStored :
                  /\ s.rec = run[q].rec
                  /\ \A p \in Runs : run[p].pc = "write" /\ run[p].stamp < s.stamp => q \notin run[p].after
      BY <1>1, <2>2 DEF NewestInv
    <3>2. q \in Storing
      BY DEF LastStored
    <3> QED BY <1>3, <1>5, <3>1, <3>2
  <2> QED BY <1>2, <1>4, <2>1, <2>2 DEF NewestInv
<1> QED BY <1>7, <1>8

\* A capture that ends without having stored its record.
LEMMA DropKeeps ==
    ASSUME IInv, NEW r \in Runs, Moves(r), run'[r].pc = "done", run'[r].stored = FALSE,
           run'[r].after = run[r].after, r \notin Storing,
           session'.jobs = session.jobs, snapshots' = snapshots,
           clock' \in Nat, clock <= clock'
    PROVE  StampsInv' /\ NewestInv'
<1>1. StampsInv /\ NewestInv /\ clock \in Nat
  BY DEF IInv, Typed
<1>2. Storing' = Storing
  BY DEF Storing, Moves
<1>3. \A q \in Storing : run'[q] = run[q]
  BY DEF Storing, Moves
<1>4. LastStored' = LastStored
  BY <1>2, <1>3 DEF LastStored
<1>5. \A q \in Runs : run'[q].pc = "write" => q # r /\ run'[q] = run[q]
  BY DEF Moves
<1>6. \A q \in Runs : run'[q].after \subseteq Storing
  BY <1>1 DEF Moves, StampsInv
<1>7. StampsInv'
  <2>1. \A s \in snapshots : Shaped(s) /\ s.stamp < clock'
    BY <1>1 DEF StampsInv, Shaped
  <2>2. \A q \in Runs : run'[q].pc = "write" =>
           /\ run'[q].stamp \in Nat /\ run'[q].stamp < clock' /\ run'[q].stamp >= 2
           /\ \A s \in snapshots : s.stamp # run'[q].stamp
    BY <1>1, <1>5 DEF StampsInv
  <2>3. \A p, q \in Runs :
           run'[p].pc = "write" /\ run'[q].pc = "write" /\ run'[p].stamp = run'[q].stamp => p = q
    BY <1>1, <1>5 DEF StampsInv
  <2>4. \A q \in Storing' : run'[q].pc = "done" /\ session'.jobs[q] = "capture"
    BY <1>1, <1>2, <1>3 DEF StampsInv, Job
  <2>5. clock' >= 2
    BY <1>1 DEF StampsInv
  <2>6. (Storing # {} \/ \A s \in snapshots : s.stamp < 2) /\ \A s, t \in snapshots : s.stamp = t.stamp => s = t
    BY <1>1 DEF StampsInv
  <2> QED BY <1>2, <1>6, <2>1, <2>2, <2>3, <2>4, <2>5, <2>6 DEF StampsInv, Job
<1>8. NewestInv'
  <2>1. Latest' = Latest /\ Whole' = Whole
    BY DEF Latest, Whole
  <2>2. ASSUME NEW s \in Latest, Storing # {}, Whole = snapshots
        PROVE  \E q \in LastStored :
                  /\ s.rec = run'[q].rec
                  /\ \A p \in Runs : run'[p].pc = "write" /\ run'[p].stamp < s.stamp => q \notin run'[p].after
    <3>1. PICK q \in LastStored :
                  /\ s.rec = run[q].rec
                  /\ \A p \in Runs : run[p].pc = "write" /\ run[p].stamp < s.stamp => q \notin run[p].after
      BY <1>1, <2>2 DEF NewestInv
    <3>2. q \in Storing
      BY DEF LastStored
    <3> QED BY <1>3, <1>5, <3>1, <3>2
  <2> QED BY <1>2, <1>4, <2>1, <2>2 DEF NewestInv
<1> QED BY <1>7, <1>8

\* A capture that takes its stamp and will write.
LEMMA StampKeeps ==
    ASSUME IInv, NEW r \in Runs, Moves(r), run[r].pc = "captured",
           run'[r].pc = "write", run'[r].stored = run[r].stored,
           run'[r].after = run[r].after, run'[r].stamp = clock,
           session' = session, snapshots' = snapshots, clock' = clock + 1
    PROVE  StampsInv' /\ NewestInv'
<1>1. StampsInv /\ NewestInv /\ clock \in Nat /\ r \notin Storing
  BY DEF IInv, Typed, StampsInv
<1>2. Storing' = Storing
  BY DEF Storing, Moves
<1>3. \A q \in Storing : run'[q] = run[q]
  BY <1>1 DEF Storing, Moves
<1>4. LastStored' = LastStored
  BY <1>2, <1>3 DEF LastStored
<1>5. \A q \in Runs : run'[q].pc = "write" => q = r \/ run'[q] = run[q]
  BY DEF Moves
<1>6. \A q \in Runs : run'[q].after \subseteq Storing
  BY <1>1 DEF Moves, StampsInv
<1>7. StampsInv'
  <2>1. \A s \in snapshots : Shaped(s) /\ s.stamp < clock + 1 /\ s.stamp # clock
    BY <1>1 DEF StampsInv, Shaped
  <2>2. \A q \in Runs : run'[q].pc = "write" =>
           /\ run'[q].stamp \in Nat /\ run'[q].stamp < clock + 1 /\ run'[q].stamp >= 2
           /\ \A s \in snapshots : s.stamp # run'[q].stamp
    BY <1>1, <1>5, <2>1 DEF StampsInv
  <2>3. \A p, q \in Runs :
           run'[p].pc = "write" /\ run'[q].pc = "write" /\ run'[p].stamp = run'[q].stamp => p = q
    <3> TAKE p, q \in Runs
    <3> HAVE run'[p].pc = "write" /\ run'[q].pc = "write" /\ run'[p].stamp = run'[q].stamp
    <3>1. \A o \in Runs \ {r} : run'[o].pc = "write" =>
              run[o].pc = "write" /\ run'[o].stamp = run[o].stamp /\ run[o].stamp \in Nat /\ run[o].stamp < clock
      BY <1>1 DEF StampsInv, Moves
    <3>2. CASE p # r /\ q # r
      BY <1>1, <3>1, <3>2 DEF StampsInv
    <3>3. CASE p = r /\ q # r
      BY <1>1, <3>1, <3>3
    <3>4. CASE p # r /\ q = r
      BY <1>1, <3>1, <3>4
    <3> QED BY <3>2, <3>3, <3>4
  <2>4. \A q \in Storing' : run'[q].pc = "done" /\ session'.jobs[q] = "capture"
    BY <1>1, <1>2, <1>3 DEF StampsInv, Job
  <2>5. clock' >= 2 /\ clock' = clock + 1
    BY <1>1 DEF StampsInv
  <2>6. (Storing # {} \/ \A s \in snapshots : s.stamp < 2) /\ \A s, t \in snapshots : s.stamp = t.stamp => s = t
    BY <1>1 DEF StampsInv
  <2> QED BY <1>2, <1>6, <2>1, <2>2, <2>3, <2>4, <2>5, <2>6 DEF StampsInv, Job
<1>8. NewestInv'
  <2>1. Latest' = Latest /\ Whole' = Whole
    BY DEF Latest, Whole
  <2>2. ASSUME NEW s \in Latest, Storing # {}, Whole = snapshots
        PROVE  \E q \in LastStored :
                  /\ s.rec = run'[q].rec
                  /\ \A p \in Runs : run'[p].pc = "write" /\ run'[p].stamp < s.stamp => q \notin run'[p].after
    <3>1. PICK q \in LastStored :
                  /\ s.rec = run[q].rec
                  /\ \A p \in Runs : run[p].pc = "write" /\ run[p].stamp < s.stamp => q \notin run[p].after
      BY <1>1, <2>2 DEF NewestInv
    <3>2. q \in Storing
      BY DEF LastStored
    <3>3. s.stamp \in Nat /\ s.stamp < clock
      BY <1>1 DEF Latest, Whole, StampsInv, Shaped
    <3>4. ~(run'[r].stamp < s.stamp)
      BY <1>1, <3>3
    <3> QED BY <1>3, <1>5, <3>1, <3>2, <3>4
  <2> QED BY <1>2, <1>4, <2>1, <2>2 DEF NewestInv
<1> QED BY <1>7, <1>8

\* A capture that has just stored its record is one of the last.
LEMMA StoresLast ==
    ASSUME StampsInv, NEW r \in Runs, Moves(r), run[r].pc # "done",
           run'[r].stored = TRUE, run'[r].after = run[r].after, run'[r].pc = "done"
    PROVE  /\ r \notin Storing /\ Storing' = Storing \cup {r} /\ r \in LastStored'
           /\ \A q \in LastStored : q \notin run[r].after => q \in LastStored'
           /\ \A q \in Storing : run'[q] = run[q]
           /\ \A q \in Runs : run'[q].after \subseteq Storing
           /\ \A q \in Runs : run'[q].pc = "write" => q # r /\ run'[q] = run[q]
<1>1. r \notin Storing
  BY DEF StampsInv
<1>2. Storing' = Storing \cup {r}
  BY DEF Storing, Moves
<1>3. \A q \in Storing : run'[q] = run[q]
  BY <1>1 DEF Storing, Moves
<1>4. \A q \in Runs : run'[q].after \subseteq Storing
  BY DEF Moves, StampsInv
<1>5. r \in LastStored'
  BY <1>1, <1>2, <1>4 DEF LastStored, Storing
<1>6. ASSUME NEW q \in LastStored, q \notin run[r].after
      PROVE  q \in LastStored'
  <2>1. q \in Storing /\ \A p \in Storing : q \notin run[p].after
    BY DEF LastStored
  <2>2. \A p \in Storing' : q \notin run'[p].after
    BY <1>2, <1>3, <1>6, <2>1
  <2> QED BY <1>2, <2>1, <2>2 DEF LastStored
<1>7. \A q \in Runs : run'[q].pc = "write" => q # r /\ run'[q] = run[q]
  BY DEF Moves
<1> QED BY <1>1, <1>2, <1>3, <1>4, <1>5, <1>6, <1>7

\* A capture that finds its record to be the newest.
LEMMA SameKeeps ==
    ASSUME IInv, NEW r \in Runs, Moves(r), run[r].pc = "captured", Same(run[r].rec),
           run'[r].pc = "done", run'[r].stored = TRUE,
           run'[r].after = run[r].after, run'[r].rec = run[r].rec, Job(r) = "capture",
           session' = session, snapshots' = snapshots, clock' = clock + 1
    PROVE  StampsInv' /\ NewestInv'
<1>1. StampsInv /\ NewestInv /\ clock \in Nat
  BY DEF IInv, Typed
<1>2. /\ r \notin Storing /\ Storing' = Storing \cup {r} /\ r \in LastStored'
      /\ \A q \in Storing : run'[q] = run[q]
      /\ \A q \in Runs : run'[q].after \subseteq Storing
      /\ \A q \in Runs : run'[q].pc = "write" => q # r /\ run'[q] = run[q]
  BY <1>1, StoresLast
<1>3. StampsInv'
  <2>1. \A s \in snapshots : Shaped(s) /\ s.stamp < clock + 1
    BY <1>1 DEF StampsInv, Shaped
  <2>2. \A q \in Runs : run'[q].pc = "write" =>
           /\ run'[q].stamp \in Nat /\ run'[q].stamp < clock + 1 /\ run'[q].stamp >= 2
           /\ \A s \in snapshots : s.stamp # run'[q].stamp
    BY <1>1, <1>2 DEF StampsInv
  <2>3. \A p, q \in Runs :
           run'[p].pc = "write" /\ run'[q].pc = "write" /\ run'[p].stamp = run'[q].stamp => p = q
    BY <1>1, <1>2 DEF StampsInv
  <2>4. \A q \in Storing' : run'[q].pc = "done" /\ session'.jobs[q] = "capture"
    BY <1>1, <1>2 DEF StampsInv, Job
  <2>5. clock' >= 2 /\ clock' = clock + 1
    BY <1>1 DEF StampsInv
  <2>6. Storing' # {} /\ \A s, t \in snapshots : s.stamp = t.stamp => s = t
    BY <1>1, <1>2 DEF StampsInv
  <2>7. \A q \in Runs : run'[q].after \subseteq Storing'
    BY <1>2
  <2> QED BY <2>1, <2>2, <2>3, <2>4, <2>5, <2>6, <2>7 DEF StampsInv, Job
<1>4. NewestInv'
  <2>1. Latest' = Latest /\ Whole' = Whole
    BY DEF Latest, Whole
  <2>2. ASSUME NEW s \in Latest
        PROVE  s.rec = run'[r].rec
    <3>1. PICK t \in Latest : t.rec = run[r].rec
      BY DEF Same
    <3>2. s \in snapshots /\ t \in snapshots /\ s.stamp <= t.stamp /\ t.stamp <= s.stamp
      BY DEF Latest, Whole
    <3>3. s.stamp = t.stamp
      BY <1>1, <3>2 DEF StampsInv, Shaped
    <3>4. s = t
      BY <1>1, <3>2, <3>3 DEF StampsInv
    <3> QED BY <3>1, <3>4
  <2>3. \A p \in Runs : r \notin run'[p].after
    BY <1>2
  <2> QED BY <1>2, <2>1, <2>2, <2>3 DEF NewestInv
<1> QED BY <1>3, <1>4

\* A capture that writes: its record is the newest, or an older one than one
\* that was written since it took its stamp.
LEMMA WriteKeeps ==
    ASSUME IInv, NEW r \in Runs, Moves(r), run[r].pc = "write",
           run'[r].pc = "done", run'[r].stored = TRUE,
           run'[r].after = run[r].after, run'[r].rec = run[r].rec, Job(r) = "capture",
           session' = session, clock' = clock,
           snapshots' = snapshots \cup {[stamp |-> run[r].stamp, rec |-> run[r].rec, whole |-> TRUE]}
    PROVE  StampsInv' /\ NewestInv'
<1> DEFINE new == [stamp |-> run[r].stamp, rec |-> run[r].rec, whole |-> TRUE]
<1>1. StampsInv /\ NewestInv /\ clock \in Nat
  BY DEF IInv, Typed
<1>2. /\ r \notin Storing /\ Storing' = Storing \cup {r} /\ r \in LastStored'
      /\ \A q \in LastStored : q \notin run[r].after => q \in LastStored'
      /\ \A q \in Storing : run'[q] = run[q]
      /\ \A q \in Runs : run'[q].after \subseteq Storing
      /\ \A q \in Runs : run'[q].pc = "write" => q # r /\ run'[q] = run[q]
  BY <1>1, StoresLast
<1>3. /\ new.stamp = run[r].stamp /\ new.rec = run[r].rec /\ new.whole = TRUE
      /\ DOMAIN new = {"stamp", "whole", "rec"}
  OBVIOUS
<1>4. snapshots' = snapshots \cup {new}
  OBVIOUS
<1> HIDE DEF new
<1>5. /\ new.stamp \in Nat /\ new.stamp < clock /\ new.stamp >= 2
      /\ \A s \in snapshots : s.stamp # new.stamp
  BY <1>1, <1>3 DEF StampsInv
<1>6. StampsInv'
  <2>1. \A s \in snapshots' : Shaped(s) /\ s.stamp < clock'
    BY <1>1, <1>3, <1>4, <1>5 DEF StampsInv, Shaped
  <2>2. \A q \in Runs : run'[q].pc = "write" =>
           /\ run'[q].stamp \in Nat /\ run'[q].stamp < clock' /\ run'[q].stamp >= 2
           /\ \A s \in snapshots' : s.stamp # run'[q].stamp
    <3> TAKE q \in Runs
    <3> HAVE run'[q].pc = "write"
    <3>1. q # r /\ run[q].pc = "write" /\ run'[q].stamp = run[q].stamp
      BY <1>2
    <3>2. run[q].stamp # new.stamp
      BY <1>1, <1>3, <3>1 DEF StampsInv
    <3>3. /\ run[q].stamp \in Nat /\ run[q].stamp < clock /\ run[q].stamp >= 2
          /\ \A s \in snapshots : s.stamp # run[q].stamp
      BY <1>1, <3>1 DEF StampsInv
    <3> QED BY <1>4, <3>1, <3>2, <3>3
  <2>3. \A p, q \in Runs :
           run'[p].pc = "write" /\ run'[q].pc = "write" /\ run'[p].stamp = run'[q].stamp => p = q
    BY <1>1, <1>2 DEF StampsInv
  <2>4. \A q \in Storing' : run'[q].pc = "done" /\ session'.jobs[q] = "capture"
    BY <1>1, <1>2 DEF StampsInv, Job
  <2>5. clock' >= 2
    BY <1>1 DEF StampsInv
  <2>6. \A s, t \in snapshots' : s.stamp = t.stamp => s = t
    BY <1>1, <1>4, <1>5 DEF StampsInv
  <2>7. Storing' # {} /\ \A q \in Runs : run'[q].after \subseteq Storing'
    BY <1>2
  <2> QED BY <2>1, <2>2, <2>3, <2>4, <2>5, <2>6, <2>7 DEF StampsInv, Job
<1>7. NewestInv'
  <2>1. SUFFICES ASSUME Whole' = snapshots', NEW s \in Latest'
                 PROVE  \E q \in LastStored' :
                           /\ s.rec = run'[q].rec
                           /\ \A p \in Runs : run'[p].pc = "write" /\ run'[p].stamp < s.stamp => q \notin run'[p].after
    BY DEF NewestInv
  <2>2. CASE s = new
    <3>1. s.rec = run'[r].rec
      BY <1>3, <2>2
    <3>2. \A p \in Runs : r \notin run'[p].after
      BY <1>2
    <3> QED BY <1>2, <3>1, <3>2
  <2>3. CASE s # new
    <3>1. Whole = snapshots /\ s \in snapshots
      BY <1>4, <2>1, <2>3 DEF Whole, Latest
    <3>2. \A t \in snapshots' : t.stamp <= s.stamp
      BY <2>1 DEF Latest
    <3>3. s \in Latest
      BY <1>4, <3>1, <3>2 DEF Latest
    <3>4. new.stamp <= s.stamp /\ s.stamp # new.stamp /\ s.stamp \in Nat
      BY <1>1, <1>4, <1>5, <3>1, <3>2 DEF StampsInv, Shaped
    <3>5. new.stamp < s.stamp /\ ~(s.stamp < 2)
      BY <1>5, <3>4
    <3>6. Storing # {}
      BY <1>1, <3>1, <3>5 DEF StampsInv
    <3>7. PICK q \in LastStored :
                  /\ s.rec = run[q].rec
                  /\ \A p \in Runs : run[p].pc = "write" /\ run[p].stamp < s.stamp => q \notin run[p].after
      BY <1>1, <3>1, <3>3, <3>6 DEF NewestInv
    <3>8. q \in Storing
      BY DEF LastStored
    <3>9. q \notin run[r].after
      BY <1>3, <3>5, <3>7
    <3>10. q \in LastStored' /\ run'[q] = run[q]
      BY <1>2, <3>8, <3>9
    <3> QED BY <1>2, <3>7, <3>10
  <2> QED BY <2>2, <2>3
<1> QED BY <1>6, <1>7

\* A record that can no longer be read.
LEMMA DamageKeeps ==
    ASSUME IInv, Damage
    PROVE  StampsInv' /\ NewestInv'
<1>1. StampsInv /\ NewestInv
  BY DEF IInv
<1>2. PICK s \in snapshots : snapshots' = (snapshots \ {s}) \cup {[s EXCEPT !.whole = FALSE]}
  BY DEF Damage
<1> DEFINE bad == [s EXCEPT !.whole = FALSE]
<1>3. Shaped(s) /\ bad.stamp = s.stamp /\ bad.whole = FALSE /\ Shaped(bad)
  BY <1>1 DEF StampsInv, Shaped
<1> HIDE DEF bad
<1>4. snapshots' = (snapshots \ {s}) \cup {bad}
  BY <1>2 DEF bad
<1>5. run' = run /\ clock' = clock /\ session'.jobs = session.jobs
  BY DEF Damage, MayChange, IInv, Typed
<1>6. StampsInv'
  <2>1. \A t \in snapshots' : Shaped(t) /\ \E u \in snapshots : u.stamp = t.stamp
    BY <1>1, <1>3, <1>4 DEF StampsInv
  <2>2. \A t, u \in snapshots' : t.stamp = u.stamp => t = u
    BY <1>1, <1>3, <1>4 DEF StampsInv
  <2>3. Storing' = Storing
    BY <1>5 DEF Storing
  <2> QED BY <1>1, <1>5, <2>1, <2>2, <2>3 DEF StampsInv, Job
<1>7. Whole' # snapshots'
  BY <1>3, <1>4 DEF Whole
<1> QED BY <1>6, <1>7 DEF NewestInv

-----------------------------------------------------------------------------
(* The invariant is inductive.                                             *)

LEMMA InitInv == Init => IInv
<1> SUFFICES ASSUME Init
             PROVE  IInv
  OBVIOUS
<1>1. /\ session \in Sessions /\ clone = session.clone /\ source = session.source
      /\ snapshots = session.stored /\ clock = 2 /\ run = [r \in Runs |-> Idle]
  BY DEF Init
<1>2. /\ Idle.pc = "idle" /\ Idle.rec = Nothing /\ Idle.stored = FALSE /\ Idle.after = {}
      /\ Idle.exit = 9 /\ Idle.walk = NoWalk
  BY DEF Idle
<1>3. \A r \in Runs : run[r] = Idle
  BY <1>1
<1>4. \A job : RunTyped(Idle, job) /\ RunInv(Idle, job)
  <2>1. \A job : RunTyped(Idle, job)
    BY <1>2 DEF RunTyped, Capturing
  <2>2. CaptureInv(Idle) /\ ReviewInv(Idle)
    BY <1>2 DEF CaptureInv, ReviewInv
  <2> QED BY <1>2, <2>1, <2>2 DEF RunInv
<1>5. Typed
  BY <1>1, <1>3, <1>4, SessionsAssumption DEF Typed
<1>6. Storing = {}
  BY <1>2, <1>3 DEF Storing
<1>7. StampsInv
  <2>1. /\ \A s \in snapshots : Shaped(s) /\ s.stamp < 2
        /\ \A s, t \in snapshots : s.stamp = t.stamp => s = t
    BY <1>1, SessionsAssumption
  <2>2. \A r \in Runs : run[r].pc # "write" /\ run[r].after = {}
    BY <1>2, <1>3
  <2> QED BY <1>1, <1>6, <2>1, <2>2 DEF StampsInv
<1>8. NewestInv
  BY <1>6 DEF NewestInv
<1> QED BY <1>3, <1>4, <1>5, <1>7, <1>8 DEF IInv

\* A step of one run that leaves it fine leaves all runs fine.
LEMMA FineKeeps ==
    ASSUME IInv, NEW r \in Runs, Moves(r), Fine(run'[r], Job(r)),
           session'.jobs = session.jobs, DOMAIN session' = DOMAIN session,
           session'.heads = session.heads, clone' = clone, source' = source, clock' \in Nat
    PROVE  /\ Typed' /\ \A q \in Runs : RunInv(run'[q], session'.jobs[q])
<1>1. \A q \in Runs : RunTyped(run'[q], session'.jobs[q]) /\ RunInv(run'[q], session'.jobs[q])
  BY DEF IInv, Typed, Moves, Fine, Job
<1> QED BY <1>1 DEF IInv, Typed, Moves, Job

LEMMA CaptureStep ==
    ASSUME IInv, NEW r \in Runs, Capture(r)
    PROVE  IInv'
<1>1. Typed /\ clock \in Nat /\ (run[r].pc \in Capturing => Job(r) = "capture")
      /\ run[r].stored \in BOOLEAN
  BY DEF IInv, Typed, RunTyped
<1>2. CASE BeginCapture(r) \/ CaptureFiles(r) \/ CaptureGit(r) \/ CaptureUpstream(r)
  <2>1. /\ run[r].pc \notin {"done", "write"}
        /\ UNCHANGED <<session, clone, source, snapshots, clock>>
    BY <1>2 DEF BeginCapture, CaptureFiles, CaptureGit, CaptureUpstream, World
  <2>2. Moves(r) /\ Fine(run'[r], Job(r)) /\ Quiet(run[r], run'[r])
    BY <1>2, BeginCaptureFine, CaptureFilesFine, CaptureGitFine, CaptureUpstreamFine
  <2>3. StampsInv' /\ NewestInv'
    BY <2>1, <2>2, QuietKeeps
  <2>4. Typed' /\ \A q \in Runs : RunInv(run'[q], session'.jobs[q])
    BY <1>1, <2>1, <2>2, FineKeeps
  <2> QED BY <2>3, <2>4 DEF IInv, Job
<1>3. CASE Compare(r)
  <2>1. /\ run[r].pc = "captured" /\ Job(r) = "capture"
        /\ UNCHANGED <<session, clone, source, snapshots>> /\ clock' = clock + 1
    BY <1>1, <1>3 DEF Compare, World, Capturing
  <2>2. /\ Moves(r) /\ Fine(run'[r], Job(r))
        /\ run'[r].after = run[r].after /\ run'[r].rec = run[r].rec
        /\ \/ run'[r].pc = "done" /\ run'[r].stored = FALSE
           \/ Same(run[r].rec) /\ run'[r].pc = "done" /\ run'[r].stored = TRUE
           \/ run'[r].pc = "write" /\ run'[r].stored = run[r].stored /\ run'[r].stamp = clock
    BY <1>3, CompareFine
  <2>3. r \notin Storing /\ clock' \in Nat /\ clock <= clock'
    BY <1>1, <2>1 DEF IInv, StampsInv
  <2>4. StampsInv' /\ NewestInv'
    <3>1. CASE run'[r].pc = "done" /\ run'[r].stored = FALSE
      BY <2>1, <2>2, <2>3, <3>1, DropKeeps
    <3>2. CASE Same(run[r].rec) /\ run'[r].pc = "done" /\ run'[r].stored = TRUE
      BY <2>1, <2>2, <3>2, SameKeeps
    <3>3. CASE run'[r].pc = "write" /\ run'[r].stored = run[r].stored /\ run'[r].stamp = clock
      BY <2>1, <2>2, <3>3, StampKeeps
    <3> QED BY <2>2, <3>1, <3>2, <3>3
  <2>5. Typed' /\ \A q \in Runs : RunInv(run'[q], session'.jobs[q])
    BY <2>1, <2>2, <2>3, FineKeeps
  <2> QED BY <2>4, <2>5 DEF IInv, Job
<1>4. CASE Write(r)
  <2>1. /\ run[r].pc = "write" /\ Job(r) = "capture" /\ clock' = clock
        /\ clone' = clone /\ source' = source
        /\ \/ /\ snapshots' = snapshots \cup {[stamp |-> run[r].stamp, rec |-> run[r].rec, whole |-> TRUE]}
              /\ Finish(r, TRUE) /\ session' = session
           \/ /\ session' = [session EXCEPT !.changes = @ - 1]
              /\ Finish(r, FALSE) /\ snapshots' = snapshots
    BY <1>1, <1>4 DEF Write, World, Capturing
  <2>2. Moves(r) /\ Fine(run'[r], Job(r))
    BY <1>4, WriteFine
  <2>3. /\ session'.jobs = session.jobs /\ session'.heads = session.heads
        /\ DOMAIN session' = DOMAIN session
    BY <1>1, <2>1 DEF Typed
  <2>4. r \notin Storing /\ clock' \in Nat /\ clock <= clock'
    BY <1>1, <2>1 DEF IInv, StampsInv
  <2>5. StampsInv' /\ NewestInv'
    <3>1. CASE Finish(r, TRUE)
      <4>1. /\ run'[r].pc = "done" /\ run'[r].stored = TRUE
            /\ run'[r].rec = run[r].rec /\ run'[r].after = run[r].after
        BY <2>1, <3>1, FinishFine
      <4>2. ~Finish(r, FALSE)
        <5>1. SUFFICES ASSUME Finish(r, FALSE)
                       PROVE  FALSE
          OBVIOUS
        <5>2. run'[r].stored = FALSE
          BY <2>1, <5>1, FinishFine
        <5> QED BY <4>1, <5>2
      <4> QED BY <2>1, <2>2, <4>1, <4>2, WriteKeeps
    <3>2. CASE ~Finish(r, TRUE)
      <4>1. Finish(r, FALSE) /\ snapshots' = snapshots
        BY <2>1, <3>2
      <4>2. /\ run'[r].pc = "done" /\ run'[r].stored = FALSE /\ run'[r].after = run[r].after
        BY <2>1, <4>1, FinishFine
      <4> QED BY <2>2, <2>3, <2>4, <4>1, <4>2, DropKeeps
    <3> QED BY <3>1, <3>2
  <2>6. Typed' /\ \A q \in Runs : RunInv(run'[q], session'.jobs[q])
    BY <2>1, <2>2, <2>3, <2>4, FineKeeps
  <2> QED BY <2>5, <2>6 DEF IInv, Job
<1> QED BY <1>2, <1>3, <1>4 DEF Capture

LEMMA ReviewStep ==
    ASSUME IInv, NEW r \in Runs, Review(r)
    PROVE  IInv'
<1>1. /\ run[r].pc \notin {"done", "write"}
      /\ UNCHANGED <<session, clone, source, snapshots, clock>>
  BY DEF Review, BeginReview, OpenClone, StartWalk, Walk, Judge, World
<1>2. Moves(r) /\ Fine(run'[r], Job(r)) /\ Quiet(run[r], run'[r])
  BY BeginReviewFine, OpenCloneFine, StartWalkFine, WalkFine, JudgeFine DEF Review
<1>3. StampsInv' /\ NewestInv'
  BY <1>1, <1>2, QuietKeeps
<1>4. Typed' /\ \A q \in Runs : RunInv(run'[q], session'.jobs[q])
  BY <1>1, <1>2, FineKeeps DEF IInv, Typed
<1> QED BY <1>3, <1>4 DEF IInv, Job

LEMMA ChangeStep ==
    ASSUME IInv, ChangeClones
    PROVE  IInv'
<1>1. /\ Typed /\ run' = run /\ snapshots' = snapshots /\ clock' = clock
      /\ session' = [session EXCEPT !.changes = @ - 1]
  BY DEF IInv, ChangeClones, MayChange
<1>2. /\ session'.jobs = session.jobs /\ session'.heads = session.heads
      /\ DOMAIN session' = DOMAIN session
  BY <1>1 DEF Typed
<1>3. /\ source \in Repositories /\ clone \in Clones /\ session.heads \subseteq Commits
      /\ clone.git \in Repositories
  BY <1>1 DEF Typed, Clones
<1>4. clone' \in Clones /\ source' \in Repositories
  <2>1. ASSUME NEW c \in session.heads
        PROVE  /\ Fetched(source, c) \in Repositories
               /\ [clone EXCEPT !.recipe.at = c, !.git = Fetched(@, c)] \in Clones
               /\ [clone EXCEPT !.state = c] \in Clones
    <3>1. c \in Commits
      BY <1>3
    <3>2. Fetched(source, c) \in Repositories /\ Fetched(clone.git, c) \in Repositories
      BY <1>3, <3>1, FetchedType
    <3> QED BY <1>3, <3>1, <3>2 DEF Clones
  <2>2. Resolve(source) # None => Repacked(source) \in Repositories
    BY <1>3, RepackedType
  <2>3. [source EXCEPT !.origin = "elsewhere"] \in Repositories
    BY <1>3 DEF Repositories
  <2>4. Cleaned(source) \in Repositories /\ Cleaned(clone.git) \in Repositories
    BY <1>3, CleanedType
  <2>5. [clone EXCEPT !.count = 0, !.git = Cleaned(@)] \in Clones
    BY <1>3, <2>4 DEF Clones
  <2> QED BY <1>3, <2>1, <2>2, <2>3, <2>4, <2>5 DEF ChangeClones
<1>5. Typed'
  BY <1>1, <1>2, <1>4 DEF Typed, Job
<1>6. StampsInv' /\ NewestInv'
  BY <1>1, <1>2 DEF IInv, StampsInv, NewestInv, Storing, LastStored, Latest, Whole, Job
<1>7. \A r \in Runs : RunInv(run'[r], session'.jobs[r])
  BY <1>1, <1>2 DEF IInv, Job
<1> QED BY <1>5, <1>6, <1>7 DEF IInv, Job

LEMMA NextInv == IInv /\ [Next]_vars => IInv'
<1> SUFFICES ASSUME IInv, [Next]_vars
             PROVE  IInv'
  OBVIOUS
<1>1. CASE \E r \in Runs : Capture(r) \/ Review(r)
  BY <1>1, CaptureStep, ReviewStep
<1>2. CASE ChangeClones
  BY <1>2, ChangeStep
<1>3. CASE Damage
  <2>1. /\ run' = run /\ clock' = clock /\ clone' = clone /\ source' = source
        /\ session'.jobs = session.jobs /\ session'.heads = session.heads
        /\ DOMAIN session' = DOMAIN session
    BY <1>3 DEF Damage, MayChange, IInv, Typed
  <2>2. StampsInv' /\ NewestInv'
    BY <1>3, DamageKeeps
  <2> QED BY <2>1, <2>2 DEF IInv, Typed, Job
<1>4. CASE UNCHANGED vars
  BY <1>4 DEF vars, IInv, Typed, StampsInv, NewestInv, Storing, LastStored, Latest, Whole, Job
<1> QED BY <1>1, <1>2, <1>3, <1>4 DEF Next

LEMMA Invariance == Spec => []IInv
BY InitInv, NextInv, PTL DEF Spec

-----------------------------------------------------------------------------
(* Whatever history, whatever is done to the repositories while a review   *)
(* walks them and whatever the bound: "up to date", "new commits" and      *)
(* "absent" are so, a list that does not say it was cut has every commit   *)
(* that is not behind the recorded one, and every other answer has a gap   *)
(* (ReviewDelta, LogSince).                                                *)
THEOREM DeltaAlwaysTrue == Spec => []DeltaIsTrue
<1>1. IInv => DeltaIsTrue
  BY DEF IInv, RunInv, DeltaOf, DeltaIsTrue, Reviewed
<1> QED BY <1>1, Invariance, PTL

(* A capture that exits 0 has a whole record, for any clone, any history   *)
(* and any limit: a history that is shorter than the limit goes back to a  *)
(* first commit (Capture, captureGit).                                     *)
THEOREM ZeroAlwaysWhole == Spec => []SnapshotIsWhole
<1>1. IInv => SnapshotIsWhole
  BY DEF IInv, RunInv, CaptureInv, Filed, Rooted, Single, SnapshotIsWhole
<1> QED BY <1>1, Invariance, PTL

(* However many captures overlap, the newest record is that of one that no *)
(* capture stored since has replaced (Save, Latest).                       *)
THEOREM NewestAlwaysRecent == Spec => []NewestIsRecent
<1>1. IInv => NewestIsRecent
  <2>1. SUFFICES ASSUME IInv
                 PROVE  NewestIsRecent
    OBVIOUS
  <2>2. {r \in Runs : Captured(r) /\ run[r].stored} = Storing
    BY <2>1 DEF IInv, StampsInv, Storing, Captured
  <2> QED BY <2>1, <2>2 DEF IInv, NewestInv, NewestIsRecent, LastStored
<1> QED BY <1>1, Invariance, PTL
=============================================================================
