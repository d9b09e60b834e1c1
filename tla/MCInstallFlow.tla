---------------------------- MODULE MCInstallFlow ----------------------------
(* An install of two recipes, an install and a review of one while its      *)
(* directory is written, two installs and an install and a review of one.   *)
(* The plain text names the install file and has a VCS source; the bad one  *)
(* is what a rule fires on.                                                 *)
EXTENDS InstallFlow, TLC

CONSTANTS r1, r2, app, lib, install, plain, bad

Install(recipes) == [command |-> "install", closure |-> recipes]
Review == [command |-> "review", closure |-> <<app>>]
Nobody == [command |-> "none", closure |-> <<>>]
Session(first, second, w, u) ==
    [runs |-> (r1 :> first) @@ (r2 :> second), writes |-> w, upsets |-> u]

MCSessions ==
    {Session(Install(<<app, lib>>), Nobody, 1, 0),
     Session(Install(<<app>>), Nobody, 2, 1),
     Session(Install(<<app>>), Install(<<app>>), 0, 1),
     Session(Install(<<app>>), Review, 0, 1),
     Session(Review, Nobody, 2, 1)}

File(bytes) == [ino |-> 0, bytes |-> bytes]
MCStaged ==
    {(Pkgbuild :> File(text)) @@ (install :> aux) :
        text \in Contents, aux \in {File(plain), Absent}}

MCNamesOf == [c \in Contents |-> IF c = plain THEN {install} ELSE {}]
=============================================================================
