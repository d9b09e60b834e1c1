---------------------------- MODULE ClosureWalk -----------------------------
(***************************************************************************)
(* ReviewClosure: which recipes an install of one package would build, and *)
(* whether all of them were read.                                          *)
(*                                                                         *)
(* The walk goes level by level.  A level's declared dependencies are      *)
(* collected, the names nothing local can place are asked of the AUR in    *)
(* one request, and each dependency is then placed in turn: on a node that *)
(* is there already, or on a new one that is a repository package, an AUR  *)
(* recipe to review, a name a repository package provides, or a name that  *)
(* nothing placed.  Whatever was cut short or could not be read is a gap.  *)
(*                                                                         *)
(* What recipes declare and what the machine holds is chosen once, in      *)
(* `world`; the AUR may fail to answer any request, or answer in part.     *)
(***************************************************************************)
EXTENDS Integers, FiniteSets, Sequences, SequencesExt

CONSTANTS
    Root,           \* the pkgbase whose closure is asked for
    Bases,          \* the pkgbases of the AUR
    BaseOf,         \* AUR package names, each with the pkgbase that builds it
    Repo,           \* package names in the sync databases
    Provided,       \* virtual names some repository package provides
    Refused,        \* names that ValidPkgBase refuses
    Nowhere,        \* names that nobody knows
    Worlds,         \* the machines and recipes the walk may meet
    MaxDepth,       \* ClosureLimits
    MaxNodes,
    MaxDepsPerNode

Names == DOMAIN BaseOf \cup Repo \cup Provided \cup Refused \cup Nowhere

\* What a world holds: the dependencies each recipe declares, how much of it is
\* on this system (with "srcinfo" the PKGBUILD cannot be read), the names local
\* recipes are known to build, whether the sync databases were read, and whether
\* the AUR may be asked.
ASSUME WorldAssumption ==
    /\ Root \in Bases
    /\ \A n \in DOMAIN BaseOf : BaseOf[n] \in Bases \cup Refused
    /\ \A w \in Worlds :
           /\ w.declares \in [Bases -> Seq(Names)]
           /\ w.recipe \in [Bases -> {"absent", "srcinfo", "whole"}]
           /\ w.local \subseteq {n \in DOMAIN BaseOf : BaseOf[n] \in Bases}
           /\ w.loaded \in BOOLEAN
           /\ w.resolver \in BOOLEAN

ASSUME BoundsAssumption == {MaxDepth, MaxNodes, MaxDepsPerNode} \subseteq Nat \ {0}

VARIABLES
    world,      \* the world of this walk
    nodes,      \* Closure.Nodes
    byName,     \* walker.byName: every name placed, and its node
    gaps,       \* rules that raised a gap, and about what
    frontier,   \* the AUR nodes whose dependencies come next
    depth,      \* the level those dependencies are on
    refs,       \* the dependencies of the level that are not yet placed
    remote,     \* the names the AUR placed for this level
    failed,     \* whether its answer for this level failed
    next,       \* the next level's frontier so far
    phase

reply == <<remote, failed>>
walkVars == <<world, nodes, byName, gaps, frontier, depth, refs, reply, next, phase>>

Kinds == {"aur", "repo", "repo-provides", "unresolved"}

\* The parent of the root, and the key of an edge that leads nowhere.
NoParent == 0
NoKey == ""

-----------------------------------------------------------------------------
(* Mistakes a change of this code could make.  No definition uses them:    *)
(* they stand in for the definition they resemble when the checks are      *)
(* checked.                                                                *)

\* A truncated closure that says nothing.
NoRoomUnsaid(r) ==
    /\ UNCHANGED <<byName, gaps, next>>
    /\ nodes' = [nodes EXCEPT ![r.from].deps =
                    Append(@, [name |-> r.name, to |-> NoKey, mark |-> ""])]

-----------------------------------------------------------------------------
(* Nodes and what they declare.                                            *)

OnSystem(base) == world.recipe[base] # "absent"

NewNode(key, kind, name, parent) ==
    [key |-> key, kind |-> kind, names |-> {name}, parent |-> parent,
     depth |-> IF parent = NoParent THEN 0 ELSE depth, deps |-> << >>,
     reviewed |-> kind = "aur" /\ world.recipe[key] = "whole"]

\* The gaps of review and of addAUR: a recipe that is missing or unreadable.
RecipeGap(base) ==
    IF world.recipe[base] = "whole" THEN {} ELSE {<<"recipe-unreadable", base>>}

Distinct(names) ==
    LET kept[k \in 0..Len(names)] ==
            IF k = 0 THEN << >>
            ELSE IF Contains(kept[k - 1], names[k]) THEN kept[k - 1]
            ELSE Append(kept[k - 1], names[k])
    IN  kept[Len(names)]

\* Node.raw, without its repetitions.
Declared(i) ==
    IF nodes[i].kind = "aur" /\ OnSystem(nodes[i].key)
    THEN Distinct(world.declares[nodes[i].key])
    ELSE << >>

\* Closure.index, as a set of at most one node.
Keyed(key) == {i \in DOMAIN nodes : nodes[i].key = key}

\* Whether a is b, or on the discovery path to b.
Ancestor(a, b) ==
    LET up[i \in 0..MaxNodes] == i # NoParent /\ (i = a \/ up[nodes[i].parent])
    IN  up[b]

InRepo(name) == world.loaded /\ name \in Repo

-----------------------------------------------------------------------------
(* ReviewClosure.                                                          *)

WalkInit ==
    /\ world \in Worlds
    /\ depth = 1
    /\ nodes = << NewNode(Root, "aur", Root, NoParent) >>
    /\ byName = [n \in {Root} |-> 1]
    /\ gaps = RecipeGap(Root) \cup
              (IF world.loaded THEN {} ELSE {<<"repo-index-unavailable", Root>>})
    /\ frontier = <<1>>
    /\ refs = << >>
    /\ remote = << >>
    /\ failed = FALSE
    /\ next = << >>
    /\ phase = "expand"

\* Nothing is left, or the depth bound is reached: a gap if the nodes of the
\* frontier had dependencies.
Stop ==
    /\ phase = "expand"
    /\ frontier = << >> \/ depth > MaxDepth
    /\ phase' = "done"
    /\ gaps' = gaps \cup
           {<<"depth-bound", Root>> : i \in {i \in Range(frontier) : Declared(i) # << >>}}
    /\ UNCHANGED <<world, nodes, byName, frontier, depth, refs, reply, next>>

\* The first half of expand: the dependencies of the level, a recipe's own
\* repetitions left out and its list cut at the bound.
Expand ==
    LET upToBound(i) == SubSeq(Declared(i), 1, Min({Len(Declared(i)), MaxDepsPerNode}))
        cut(i) == Len(Declared(i)) > MaxDepsPerNode
        edges(i) == [k \in DOMAIN upToBound(i) |-> [from |-> i, name |-> upToBound(i)[k]]]
    IN  /\ phase = "expand"
        /\ frontier # << >> /\ depth <= MaxDepth
        /\ phase' = "ask"
        /\ refs' = FlattenSeq([k \in DOMAIN frontier |-> edges(frontier[k])])
        /\ gaps' = gaps \cup {<<"fan-out", nodes[i].key>> : i \in {i \in Range(frontier) : cut(i)}}
        /\ UNCHANGED <<world, nodes, byName, frontier, depth, reply, next>>

\* The names of the level that nothing local can place.
Asked == {r.name : r \in Range(refs)} \ (Refused \cup DOMAIN byName \cup world.local
                                         \cup {n \in Repo : InRepo(n)})

Known(names) == [n \in names \cap DOMAIN BaseOf |-> BaseOf[n]]

\* A mistake like those above: no answer to having nobody to ask.
AskSomebody ==
    /\ phase = "ask"
    /\ phase' = "place"
    /\ Asked = {} \/ world.resolver
    /\ remote' = Known(Asked)
    /\ failed' = FALSE
    /\ UNCHANGED <<world, nodes, byName, gaps, frontier, depth, refs, next>>

\* The second half: one request for the level, which may fail, having answered
\* for some of the names.
AskAUR ==
    /\ phase = "ask"
    /\ phase' = "place"
    /\ \/ /\ Asked = {} \/ world.resolver
          /\ remote' = Known(Asked)
          /\ failed' = FALSE
          /\ UNCHANGED gaps
       \/ /\ Asked # {} /\ ~world.resolver
          /\ remote' = Known({})
          /\ failed' = FALSE
          /\ gaps' = gaps \cup {<<"no-resolver", Root>>}
       \/ /\ Asked # {} /\ world.resolver
          /\ \E some \in SUBSET Asked : remote' = Known(some)
          /\ failed' = TRUE
          /\ gaps' = gaps \cup {<<"lookup-failed", Root>>}
    /\ UNCHANGED <<world, nodes, byName, frontier, depth, refs, next>>

-----------------------------------------------------------------------------
(* place.                                                                  *)

\* The edge, however the dependency was placed.
AddEdge(ns, r, to, mark) ==
    [ns EXCEPT ![r.from].deps = Append(@, [name |-> r.name, to |-> to, mark |-> mark])]

\* An AUR node of this level goes on the next frontier, once for each
\* dependency that led to it.
Follow(i) == next' = IF nodes'[i].kind = "aur" /\ nodes'[i].depth = depth
                     THEN Append(next, i) ELSE next

\* walker.byName once names lead to node i.
Named(names, i) == [n \in names \cup DOMAIN byName |-> IF n \in names THEN i ELSE byName[n]]

\* addName: another name for a node that is there.
Join(r, i, mark) ==
    /\ nodes' = AddEdge([nodes EXCEPT ![i].names = @ \cup {r.name}], r, nodes[i].key, mark)
    /\ byName' = Named({r.name}, i)
    /\ Follow(i)

\* Nobody else's node: what was refused, or what there is no room for.
Drop(r, gap) ==
    /\ nodes' = AddEdge(nodes, r, NoKey, "")
    /\ gaps' = gaps \cup {gap}
    /\ UNCHANGED <<byName, next>>

NoRoom(r) == Drop(r, <<"truncated", Root>>)

Room == Len(nodes) < MaxNodes

\* addPlain and addAUR: join the node that has this key, or make one.
Attach(r, key, kind, gap) ==
    IF Keyed(key) # {} THEN
        /\ Join(r, CHOOSE i \in Keyed(key) : TRUE, "")
        /\ gaps' = gaps \cup gap
    ELSE IF Room THEN
        /\ nodes' = AddEdge(Append(nodes, NewNode(key, kind, r.name, r.from)), r, key, "")
        /\ byName' = Named({r.name, key}, Len(nodes) + 1)
        /\ gaps' = gaps \cup gap \cup (IF kind = "aur" THEN RecipeGap(key) ELSE {})
        /\ Follow(Len(nodes) + 1)
    ELSE NoRoom(r)

PlaceRefused(r) ==
    /\ r.name \in Refused
    /\ Drop(r, <<"pkgbase-refused", nodes[r.from].key>>)

\* Placed before.  Only an edge to a strict ancestor cuts something off.
PlaceKnown(r) ==
    LET i == byName[r.name]
        mark == IF i = r.from THEN "self" ELSE IF Ancestor(i, r.from) THEN "cycle" ELSE "repeat"
    IN  /\ r.name \in DOMAIN byName
        /\ Join(r, i, mark)
        /\ gaps' = gaps \cup (IF mark = "cycle" THEN {<<"cycle", nodes[r.from].key>>} ELSE {})

New(r) == r.name \notin Refused \cup DOMAIN byName

PlaceRepo(r) ==
    /\ New(r) /\ InRepo(r.name)
    /\ Attach(r, r.name, "repo", {})

InAUR(name) == name \in world.local \cup DOMAIN remote

PlaceAUR(r) ==
    /\ New(r) /\ ~InRepo(r.name) /\ InAUR(r.name)
    /\ IF BaseOf[r.name] \in Refused
       THEN Drop(r, <<"pkgbase-refused", r.name>>)
       ELSE Attach(r, BaseOf[r.name], "aur", {})

\* A virtual name, which must not stand in for a recipe of the AUR.
PlaceProvided(r) ==
    /\ New(r) /\ ~InRepo(r.name) /\ ~InAUR(r.name)
    /\ world.loaded /\ r.name \in Provided
    /\ Attach(r, r.name, "repo-provides", {})

PlaceUnresolved(r) ==
    /\ New(r) /\ ~InRepo(r.name) /\ ~InAUR(r.name)
    /\ ~(world.loaded /\ r.name \in Provided)
    /\ Attach(r, r.name, "unresolved",
              IF ~failed /\ world.resolver
              THEN {<<"dep-unresolved", nodes[r.from].key>>} ELSE {})

Place ==
    /\ phase = "place"
    /\ refs # << >>
    /\ refs' = Tail(refs)
    /\ LET r == Head(refs)
       IN  PlaceRefused(r) \/ PlaceKnown(r) \/ PlaceRepo(r) \/ PlaceAUR(r)
           \/ PlaceProvided(r) \/ PlaceUnresolved(r)
    /\ UNCHANGED <<world, frontier, depth, reply, phase>>

EndLevel ==
    /\ phase = "place"
    /\ refs = << >>
    /\ frontier' = next
    /\ next' = << >>
    /\ depth' = depth + 1
    /\ phase' = "expand"
    /\ UNCHANGED <<world, nodes, byName, gaps, refs, reply>>

WalkNext == Stop \/ Expand \/ AskAUR \/ Place \/ EndLevel

\* One goroutine runs the walk, and a request to the AUR has a deadline.
WalkSpec == WalkInit /\ [][WalkNext]_walkVars /\ WF_walkVars(WalkNext)

-----------------------------------------------------------------------------
(* Properties.                                                             *)

Done == phase = "done"

LivesInAUR(name) == name \in DOMAIN BaseOf \ Repo

\* What the one key space of the walk takes for granted: no pkgbase is a package
\* of the repositories or, unless it builds it, a name that they provide, and a
\* package that has the name of a pkgbase is built by it.
KeysApart ==
    /\ Bases \cap Repo = {}
    /\ Bases \cap Provided \subseteq DOMAIN BaseOf
    /\ \A b \in Bases \cap DOMAIN BaseOf : BaseOf[b] = b

\* A closure without a gap is whole: every recipe in it was read, every
\* dependency it declares has a node, and one that is built from the AUR was
\* itself read (the silently truncated closure of closure.go:64).
NoGapMeansComplete ==
    Done /\ gaps = {} =>
        \A i \in DOMAIN nodes : nodes[i].kind = "aur" =>
            /\ nodes[i].reviewed
            /\ \A n \in Range(world.declares[nodes[i].key]) :
                   \E j \in DOMAIN nodes :
                       /\ n \in nodes[j].names
                       /\ nodes[j].kind # "unresolved"
                       /\ LivesInAUR(n) => nodes[j].key = BaseOf[n] /\ nodes[j].reviewed

\* Whatever graph the recipes make, cycles and all, the walk ends.
Terminates == <>Done

\* closure.go:30-32 says that to under-review an AUR package because something
\* claimed to be a repository package is a silent skip of the node an attacker
\* would choose: a dependency built from the AUR is on an AUR node, or there is
\* a gap.
\* TLC refutes it (README, section 6).
NoSilentSkip ==
    Done /\ gaps = {} =>
        \A i \in DOMAIN nodes : \A n \in nodes[i].names :
            LivesInAUR(n) => nodes[i].kind = "aur"
=============================================================================
