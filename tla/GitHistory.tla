----------------------------- MODULE GitHistory -----------------------------
(* What internal/vcs reads out of a git repository without running git: its *)
(* HEAD, and commits from loose objects and packs, each checked against the *)
(* name it was asked for under.  The parsing of bytes is left out, what they*)
(* may turn out to be is not.                                               *)
EXTENDS Integers, Sequences, FiniteSets

CONSTANTS Commits,         \* the names of commits
          Parents, Order,  \* what a commit names; newest first, by date and then by name
          Refs,            \* the names of refs
          MaxRefDepth, MaxDeltaDepth, MaxPacks  \* Limits

None == "none"

(* A commit is named by a hash over its parents' names: no history has a    *)
(* cycle.                                                                   *)
ASSUME CommitsAssumption ==
    /\ Parents \in [Commits -> SUBSET Commits] /\ Order \in [Commits -> Nat]
    /\ \A S \in SUBSET Commits : S # {} => \E c \in S : Parents[c] \cap S = {}
    /\ None \notin Commits
    /\ MaxRefDepth \in Nat /\ MaxDeltaDepth \in Nat /\ MaxPacks \in Nat

(* A repository is a record [dir, format, config, origin, head, refs,       *)
(* packed, loose, packs, alternates].  A ref, like HEAD, holds a commit, the*)
(* name of a ref or Garbled text, or is Refused: a link, or unreadable.  A  *)
(* stored object is the content of commit `of`, as a delta when it has a    *)
(* base, `near` when the base is in the same pack.                          *)
Refused == "refused"
Garbled == "garbled"
Contents == Commits \cup Refs \cup {None, Refused, Garbled}
Objects == [of : Commits \cup {None, "absent", "link"}, base : Commits \cup {None}, near : BOOLEAN]
Repositories ==
    [dir : {"git", "file", "none"}, format : {"sha1", "sha256"}, config : {"ok", "large", "refused"},
     origin : {None, "here", "elsewhere"}, head : Contents, refs : [Refs -> Contents],
     packed : [Refs -> Commits \cup {None, Refused}], loose : [Commits -> Objects],
     packs : Seq([index : BOOLEAN, objects : [Commits -> Objects]]), alternates : BOOLEAN]

Object(c, base, near) == [of |-> c, base |-> base, near |-> near]
Full(c) == Object(c, None, FALSE)
NoObject == Full("absent")
LinkObject == Full("link")
Broken == Full(None)

Opens(repo) == repo.dir = "git"

(* checkFormat: where the configuration cannot be read sha1 is assumed, and *)
(* only one that is too large is a gap.                                     *)
Supported(repo) == repo.config # "ok" \/ repo.format = "sha1"
FormatGaps(repo) == IF repo.config = "large" THEN {"object-store"} ELSE {}

(* Head: a ref is read loose and, where there is none that can be read,     *)
(* packed; a chain over the limit is a loop.                                *)
Resolve(repo) ==
    LET R[left \in 0..MaxRefDepth + 1] ==
            [content \in Contents |->
                IF left = 0 \/ content \notin Commits \cup Refs THEN None
                ELSE IF content \in Commits THEN content
                ELSE IF repo.refs[content] \notin {None, Refused}
                     THEN R[left - 1][repo.refs[content]]
                ELSE IF repo.packed[content] = Refused THEN None
                ELSE repo.packed[content]] IN
    IF Supported(repo) THEN R[MaxRefDepth + 1][repo.head] ELSE None

Remote(repo) == IF repo.config # "ok" THEN None ELSE repo.origin

(* loadPacks: the packs whose index can be read, as far as the limit goes,  *)
(* and what was left out.  They are opened once and stay open.              *)
Usable(repo) == SelectSeq(repo.packs, LAMBDA p : p.index)
Packs(repo) == SubSeq(Usable(repo), 1, IF Len(Usable(repo)) > MaxPacks THEN MaxPacks
                                       ELSE Len(Usable(repo)))
StoreGaps(repo) ==
    IF repo.alternates \/ Usable(repo) # repo.packs \/ Len(repo.packs) > MaxPacks
    THEN {"object-store"} ELSE {}

(* rawObject, packObject: a loose object comes before a packed one, and one *)
(* that is broken is not looked for elsewhere; a delta is applied to what is*)
(* stored under the name of its base, and to nothing else.                  *)
Raw(loose, packs) ==
    LET Holding(sha) == {i \in DOMAIN packs : packs[i].objects[sha] # NoObject}
        First(sha) == CHOOSE i \in Holding(sha) : \A j \in Holding(sha) : i <= j
        \* in pack i, or, for 0, wherever the store has it
        R[left \in 0..MaxDeltaDepth + 1] ==
            [sha \in Commits, i \in 0..Len(packs) |->
                LET In(k) ==
                        LET o == packs[k].objects[sha] IN
                        IF o.base = None THEN o
                        ELSE IF R[left - 1][o.base, IF o.near THEN k ELSE 0].of = o.base THEN Full(o.of)
                        ELSE Broken IN
                IF left = 0 THEN Broken
                ELSE IF i > 0 THEN In(i)
                ELSE IF loose[sha] \notin {NoObject, LinkObject} THEN loose[sha]
                ELSE IF Holding(sha) = {} THEN Broken
                ELSE In(First(sha))] IN
    [sha \in Commits |-> R[MaxDeltaDepth + 1][sha, 0]]

(* A mutant: the name is not checked.                                       *)
ReadCommitUnchecked(loose, packs, sha) == Raw(loose, packs)[sha].of

(* object: content that does not hash to its name is corrupt.               *)
ReadCommit(loose, packs, sha) ==
    IF Raw(loose, packs)[sha].of = sha THEN sha ELSE None

(* The traversal: the frontier is taken newest first, its parents are added *)
(* unless they were visited or are where to stop.  A parent that cannot be  *)
(* read ends its branch.                                                    *)
WalkFrom(c) == [frontier |-> {c}, visited |-> {c}, out |-> <<>>, reached |-> FALSE, failed |-> FALSE]

Newest(commits) == CHOOSE c \in commits : \A d \in commits : Order[c] <= Order[d]

WalkStep(w, stop, loose, packs) ==
    LET c == Newest(w.frontier)
        fresh == Parents[c] \ (w.visited \cup {stop})
        unread == {p \in fresh : ReadCommit(loose, packs, p) = None} IN
    [frontier |-> (w.frontier \ {c}) \cup {ReadCommit(loose, packs, p) : p \in fresh \ unread},
     visited |-> w.visited \cup fresh, out |-> Append(w.out, c),
     reached |-> w.reached \/ stop \in Parents[c], failed |-> w.failed \/ unread # {}]

WalkEnds(w, n) == Len(w.out) >= n \/ w.frontier = {}

(* Log: the first n, of a store nobody touches meanwhile.                   *)
Log(repo, from, n) ==
    LET W[i \in 0..n] == IF i = 0 THEN WalkFrom(from)
                         ELSE IF WalkEnds(W[i - 1], n) THEN W[i - 1]
                         ELSE WalkStep(W[i - 1], None, repo.loose, Packs(repo)) IN W[n]

(* ErrIncomplete: fewer commits than asked for, for want of one.            *)
Incomplete(w, n) == w.failed /\ Len(w.out) < n
=============================================================================
