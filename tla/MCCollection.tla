---------------------------- MODULE MCCollection ----------------------------
EXTENDS Verification

(* bin and etc have the packages' files; bin/sub is there for the depth.    *)
MCPaths == {"bin", "bin/a", "bin/sub", "bin/sub/b", "etc", "etc/c"}
MCOrder == <<"bin", "bin/a", "bin/sub", "bin/sub/b", "etc", "etc/c">>
MCParent == [p \in MCPaths |-> CASE p \in {"bin", "etc"} -> "."
                                 [] p \in {"bin/a", "bin/sub"} -> "bin"
                                 [] p = "bin/sub/b" -> "bin/sub"
                                 [] p = "etc/c" -> "etc"]
MCTexts == {"out", "t1", "t2"}
MCSize == [t \in MCTexts |-> IF t = "out" THEN 3 ELSE 1]

Dir == [kind |-> "dir", text |-> "t1", exec |-> TRUE, suid |-> FALSE, gen |-> 0]
FileOf(t, x) == [kind |-> "file", text |-> t, exec |-> x, suid |-> FALSE, gen |-> 0]
Suid == [FileOf("t1", TRUE) EXCEPT !.suid = TRUE]
LinkTo(t) == [FileOf(t, FALSE) EXCEPT !.kind = "link"]
Fifo == [FileOf("t1", FALSE) EXCEPT !.kind = "other"]

(* The inodes of the tree, and where the six paths start. *)
Start(a, b, c) == <<Dir, a, Dir, b, Dir, c>>
All == [p \in MCPaths |-> CHOOSE i \in 1..6 : MCOrder[i] = p]
Without(p) == [All EXCEPT ![p] = 0]

Entry1(p, t, type, x) == [path |-> p, text |-> t, type |-> type, exec |-> x]
Sizes(m) == [f \in {"desc", "files", "mtree"} |-> IF f = "mtree" THEN m ELSE 1]
Pkg(recorded, entries) ==
    [recorded |-> recorded, entries |-> entries, mtree |-> "parsed", sizes |-> Sizes(1), unsafe |-> FALSE]

Base == [disk |-> Start(FileOf("t1", TRUE), Suid, LinkTo("t2")), at |-> All,
         walk |-> <<>>, tier |-> "full", skip |-> {}, exempt |-> {}, stray |-> FALSE,
         pkgs |-> <<Pkg(<<"bin/a", "etc/c">>,
                        {Entry1("bin/a", "t1", "file", TRUE), Entry1("etc/c", "t2", "link", FALSE)})>>,
         maxBuffer |-> 9, maxDBFile |-> 2, bufferPaths |-> <<>>, maxFiles |-> 9, maxDepth |-> 2,
         changes |-> 1, faults |-> 0, timeout |-> TRUE]

MCSweep == <<"bin", "etc">>

MCSessions ==
    { Base, [Base EXCEPT !.changes = 0, !.faults = 1, !.walk = <<".">>],
      [Base EXCEPT !.tier = "paranoid"],
      [Base EXCEPT !.tier = "triage", !.changes = 0, !.faults = 1, !.exempt = {"bin/a"}],
      [Base EXCEPT !.tier = "meta", !.timeout = FALSE],
      \* a walked root, a limit of the walk, skipped and too deep directories
      [Base EXCEPT !.walk = <<".">>, !.maxFiles = 3, !.skip = {"etc"}],
      [Base EXCEPT !.walk = <<".">>, !.maxDepth = 0, !.changes = 0, !.faults = 1],
      \* packages that record what is not there, or is something else
      [Base EXCEPT !.disk = Start(FileOf("t2", TRUE), Fifo, FileOf("t2", FALSE)),
                   !.at = Without("etc/c"), !.walk = <<"bin">>, !.changes = 0,
                   !.pkgs = <<Pkg(<<"bin/a", "bin/sub/b", "etc/c">>,
                                  {Entry1("bin/a", "t1", "file", TRUE),
                                   Entry1("bin/sub/b", "t1", "file", FALSE),
                                   Entry1("etc/c", "t1", "file", FALSE)}),
                              [Pkg(<<"bin/a">>, {}) EXCEPT !.mtree = "unparseable",
                                                           !.unsafe = TRUE]>>],
      \* the ceilings of the buffer
      [Base EXCEPT !.maxBuffer = 3, !.bufferPaths = <<"bin/a", "etc/c", "bin/sub/b">>,
                   !.changes = 0, !.faults = 1, !.stray = TRUE, !.exempt = {"bin/a"},
                   !.disk = Start(FileOf("t2", TRUE), FileOf("t2", TRUE), FileOf("t2", FALSE))],
      [Base EXCEPT !.pkgs = <<[@[1] EXCEPT !.sizes = Sizes(3)]>>, !.changes = 0] }

(* A package whose mtree is a file without a byte. *)
EmptySessions == { [Base EXCEPT !.pkgs = <<[@[1] EXCEPT !.mtree = "empty"]>>] }
=============================================================================
