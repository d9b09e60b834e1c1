--------------------------- MODULE MCClosureWalk ----------------------------
\* ClosureWalk for TLC: a subject r, a recipe a, and a recipe b that builds the
\* packages b and x.  The name p is a repository package, v a name that a
\* repository package provides and that b builds as well, u is nowhere, and the
\* AUR claims a pkgbase for y that is refused.
EXTENDS ClosureWalk, TLC

MCBases == {"r", "a", "b"}
MCRefused == {"!"}
MCRepo == {"p"}
\* A repository that also carries the package b, but not the x of its recipe.
MCRepoWithB == {"p", "b"}
MCProvided == {"v"}
MCNowhere == {"u"}
MCBaseOf == [n \in {"r", "a", "b", "x", "v", "y"} |->
                CASE n = "r" -> "r" [] n = "a" -> "a" [] n = "y" -> "!" [] OTHER -> "b"]

UpTo(n, names) == UNION {[1..k -> names] : k \in 0..n}

Graphs == {[r |-> dr, a |-> da, b |-> db] :
              dr \in {<<"a", "v">>, <<"a", "p", "x">>, <<"x", "a", "u">>, <<"y", "a">>, <<"a", "b">>, <<"v">>},
              da \in UpTo(2, {"x", "v", "p"}) \cup {<<"r">>, <<"!">>, <<"a", "b">>},
              db \in UpTo(1, {"x", "a", "u", "p"}) \cup {<<"a", "r">>, <<"p", "v">>}}

Recipes == {[b \in MCBases |-> "whole"], [r |-> "whole", a |-> "srcinfo", b |-> "whole"],
            [r |-> "whole", a |-> "whole", b |-> "absent"]}

\* The names of this instance are apart, as the proof about the walk assumes.
ASSUME NamesAreApart == KeysApart

MCWorlds == [declares : Graphs, recipe : Recipes, local : {{}, {"b", "x"}},
             loaded : BOOLEAN, resolver : BOOLEAN]
=============================================================================
