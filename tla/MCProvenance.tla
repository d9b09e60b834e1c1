---------------------------- MODULE MCProvenance ----------------------------
EXTENDS Provenance

(* A line of three commits, a side line merged into its end, and a rewritten*)
(* history; the merged side line is older than what it was merged into.     *)
MCCommits == {"c1", "c2", "c3", "s1", "m", "f"}
MCParents == [c \in MCCommits |-> CASE c = "c1" -> {} [] c = "c2" -> {"c1"} [] c = "c3" -> {"c2"}
                                    [] c = "s1" -> {"c1"} [] c = "m" -> {"c3", "s1"} [] c = "f" -> {"c1"}]
MCOrder == [c \in MCCommits |-> CASE c = "m" -> 1 [] c = "f" -> 2 [] c = "c3" -> 3 [] c = "c2" -> 4
                                  [] c = "s1" -> 5 [] c = "c1" -> 6]

Empty == [c \in MCCommits |-> NoObject]
Repo(head, has) ==
    [dir |-> "git", format |-> "sha1", config |-> "ok", origin |-> "here", head |-> "main",
     refs |-> [q \in Refs |-> IF q = "main" THEN head ELSE None], packed |-> [q \in Refs |-> None],
     loose |-> [c \in MCCommits |-> IF c \in has THEN Full(c) ELSE NoObject], packs |-> <<>>,
     alternates |-> FALSE]
Line == {"c1", "c2", "c3"}
Pack(objects) == [index |-> TRUE, objects |-> objects]

S1 == Repo("c3", Line)
All == Repo("m", MCCommits)
Clone == [cache |-> "present", count |-> 1, recipe |-> [state |-> "ok", at |-> "c2"],
          srcinfo |-> "ok", built |-> "ok", git |-> Repo("c2", Line), state |-> "none"]

Snapshot(stamp, c) ==
    [stamp |-> stamp, whole |-> TRUE,
     rec |-> [Nothing EXCEPT !.upstream = IF c = None THEN <<>> ELSE <<c>>, !.sources = TRUE]]

\* what a capture of Clone and S1 finds
Known ==
    [stamp |-> 0, whole |-> TRUE,
     rec |-> [recipe |-> "c2", srcinfo |-> "ok", built |-> "ok", head |-> "c2", remote |-> "here",
              log |-> <<"c2">>, upstream |-> <<"c3">>, sources |-> TRUE, gaps |-> {}]]

Sess(a, b, c, cl, so, stored, heads, changes) ==
    [jobs |-> [r \in Runs |-> CASE r = "r1" -> a [] r = "r2" -> b [] r = "r3" -> c],
     clone |-> cl, source |-> so, stored |-> stored, heads |-> heads, changes |-> changes,
     key |-> "ok", vcs |-> "git", remote |-> "here"]

(* A review of one repository, and one capture of one clone.                *)
One(so, anchor, heads, changes) ==
    Sess("review", "none", "none", Clone, so, {Snapshot(1, anchor)}, heads, changes)
Capt(cl, so) == Sess("capture", "none", "none", cl, so, {}, {}, 0)

Stores ==
    { [All EXCEPT !.loose["c3"] = Broken], [All EXCEPT !.loose["c3"] = Full("f")],
      [All EXCEPT !.loose["s1"] = NoObject], [All EXCEPT !.loose["m"] = LinkObject],
      [All EXCEPT !.config = "large"], [All EXCEPT !.config = "refused", !.format = "sha256"], [All EXCEPT !.format = "sha256"], [All EXCEPT !.dir = "file"],
      [All EXCEPT !.head = Refused], [All EXCEPT !.refs["main"] = Garbled, !.packed["main"] = "c2"],
      [All EXCEPT !.refs["main"] = None, !.packed["main"] = Refused], [All EXCEPT !.head = "c2"], [All EXCEPT !.alternates = TRUE],
      [All EXCEPT !.head = "other", !.refs["other"] = "main"],
      [All EXCEPT !.head = "other", !.refs["other"] = "other"],
      [All EXCEPT !.origin = None], [All EXCEPT !.origin = "elsewhere"],
      \* packs: a chain of deltas, a base elsewhere, a wrong base, an index that cannot be read
      [Repo("c3", {}) EXCEPT !.packs = <<Pack([Empty EXCEPT !["c3"] = Full("c3"), !["c2"] = Object("c2", "c3", TRUE),
                                                           !["c1"] = Object("c1", "c2", FALSE)])>>],
      [Repo("c3", {"c3"}) EXCEPT !.packs = <<Pack([Empty EXCEPT !["c2"] = Object("c2", "c3", FALSE)]),
                                            Pack([Empty EXCEPT !["c1"] = Full("c1")])>>],
      [Repo("c3", {"c3"}) EXCEPT !.loose["c2"] = LinkObject,
           !.packs = <<Pack([Empty EXCEPT !["c2"] = Object("c2", "c1", TRUE), !["c1"] = Full("f")])>>],
      [Repo("c3", {"c3", "c1"}) EXCEPT !.packs = <<[index |-> FALSE, objects |-> Empty],
                                                  Pack([Empty EXCEPT !["c2"] = Full("c2")])>>],
      [Repo("c3", {"c3", "c1"}) EXCEPT !.packs = <<Pack(Empty), Pack(Empty), Pack([Empty EXCEPT !["c2"] = Full("c2")])>>],
      [S1 EXCEPT !.refs["main"] = None, !.packed["main"] = "c3"] }

Cs ==
    { Clone, [Clone EXCEPT !.cache = "absent"], [Clone EXCEPT !.cache = "unreadable"], [Clone EXCEPT !.count = 0],
      [Clone EXCEPT !.count = 2], [Clone EXCEPT !.state = "unreadable"], [Clone EXCEPT !.state = "c2"],
      [Clone EXCEPT !.state = "c3"] }
    \cup {[Clone EXCEPT !.recipe.state = s] :
             s \in {"absent", "refused", "large", "unretained", "unresolved", "other"}}
    \cup {[Clone EXCEPT !.srcinfo = s] : s \in {"absent", "refused", "unparsed", "other"}}
    \cup {[Clone EXCEPT !.built = s] : s \in {"none", "zst", "archive", "other"}}
    \cup {[Clone EXCEPT !.git = g] : g \in
             {[Clone.git EXCEPT !.dir = "none"], [Clone.git EXCEPT !.origin = None], [Clone.git EXCEPT !.loose["c1"] = NoObject],
              [Clone.git EXCEPT !.loose["c2"] = NoObject], [Clone.git EXCEPT !.head = Refused]}}

MCSessions ==
    {One(so, a, {}, 0) : so \in Stores \cup {All, S1}, a \in {"c1", "c2", "c3", "f", None}}
    \cup {One(All, a, {"c2", "f"}, 2) : a \in {"c2", "s1", "f"}}
    \cup {One(S1, "c3", {"m", "f"}, 2), One(Repo("f", {"f", "c1"}), "f", {"c3"}, 2)}
    \cup {[One(S1, "c2", {}, 0) EXCEPT !.vcs = "hg"], [Capt(Clone, S1) EXCEPT !.key = "unsafe"],
          [Capt(Clone, S1) EXCEPT !.key = "refused"]}
    \cup {Capt(cl, so) : cl \in Cs, so \in {S1, [S1 EXCEPT !.dir = "none"]}}
    \cup {Sess("capture", "capture", "review", Clone, S1, {}, {"m"}, 1),
          Sess("capture", "capture", "review", Clone, S1, {Snapshot(1, "c2")}, {"c2", "f"}, 1),
          Sess("capture", "capture", "none", Clone, S1, {Known, Snapshot(1, "c2")}, {"c2", "c3"}, 2)}
=============================================================================
