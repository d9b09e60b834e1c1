----------------------------- MODULE PacmanLog ------------------------------
(* What internal/pacmanlog makes of pacman.log and its rotated siblings: the*)
(* transactions of one root, the earliest instant they cover, and a gap for *)
(* everything that was there and could not be read.                         *)
EXTENDS Integers, Sequences, FiniteSets, FiniteSetsExt, SequencesExt

CONSTANTS
    MaxFiles,   \* Limits.MaxFiles
    MaxLines    \* Limits.MaxLines

ASSUME LimitsAssumption == MaxFiles \in Nat \ {0} /\ MaxLines \in Nat \ {0}   \* withDefaults

Here == "here"     \* the scanned root
None == 0          \* no instant, no version, no digest

(* A line names the root of what follows ("run"), is a transaction ("tx"),  *)
(* anything else with a stamp, known ("other") or not ("unknown"), not      *)
(* understood at all ("unparsed") or longer than the bound ("overlong").    *)
LineKinds == {"run", "tx", "other", "unknown", "unparsed", "overlong"}
Line(kind, root, op, pkg, version, time) ==
    [kind |-> kind, root |-> root, op |-> op, pkg |-> pkg, version |-> version, time |-> time]

(* The log is [files, listed]: the files oldest first, the live one last,   *)
(* and whether their directory can be listed.  A file is [kind, lines]:     *)
(* plain or gzip, "torn" when reading it fails after its lines, "shut" when *)
(* it cannot be opened, "unsupported" or "odd" when it is not one to read;  *)
(* the live file may also be "absent".                                      *)
FileKinds == {"plain", "torn", "shut", "unsupported", "odd", "absent"}

Siblings(log) ==
    {i \in 1..(Len(log.files) - 1) : log.listed /\ log.files[i].kind \notin {"unsupported", "odd"}}

Discovered(log) == Siblings(log) \cup {i \in {Len(log.files)} : log.files[i].kind \notin {"absent", "odd"}}

(* The newest ones, when there are more than the bound.                     *)
Kept(log) == {i \in Discovered(log) : Cardinality({j \in Discovered(log) : j > i}) < MaxFiles}

DiscoveryGaps(log) ==
    {g \in {"sibling", "bound", "absent"} :
        \/ g = "sibling" /\ \/ ~log.listed
                            \/ \E i \in 1..(Len(log.files) - 1) : log.files[i].kind \in {"unsupported", "odd"}
        \/ g = "bound" /\ Cardinality(Discovered(log)) > MaxFiles
        \/ g = "absent" /\ (log.files[Len(log.files)].kind = "odd" \/ Discovered(log) = {})}

-----------------------------------------------------------------------------
(* One file.  What can be read of it, in order.                             *)
Readable(f) == IF f.kind = "shut" THEN <<>> ELSE SubSeq(f.lines, 1, Min({Len(f.lines), MaxLines}))

Stamped(line) == line.kind \in {"run", "tx", "other", "unknown"}

(* The root the last invocation before line k named; the scanned one where  *)
(* the file names none.                                                     *)
RootAt(lines, k) ==
    LET runs == {i \in 1..k : lines[i].kind = "run"} IN IF runs = {} THEN Here ELSE lines[Max(runs)].root

Entries(f) ==
    LET lines == Readable(f) IN
    {[op |-> lines[k].op, pkg |-> lines[k].pkg, version |-> lines[k].version, time |-> lines[k].time,
      root |-> RootAt(lines, k)] : k \in {i \in DOMAIN lines : lines[i].kind = "tx"}}

Overlong(f) == \E line \in Range(Readable(f)) : line.kind = "overlong"
IsBounded(f) == f.kind # "shut" /\ (Len(f.lines) > MaxLines \/ Overlong(f))

FileGaps(f) ==
    {g \in {"sibling", "bound", "unparsed"} :
        \/ g = "sibling" /\ f.kind \in {"shut", "torn"}
        \/ g = "bound" /\ IsBounded(f)
        \/ g = "unparsed" /\ \E line \in Range(Readable(f)) : line.kind \in {"unparsed", "unknown"}}

(* Read: the files together.  Transactions of another root are left out, and*)
(* that is a gap; a stamp counts for the window whatever its line says.     *)
Read(log) ==
    LET files == {log.files[i] : i \in Kept(log)}
        all == UNION {Entries(f) : f \in files}
        stamps == UNION {{line.time : line \in {x \in Range(Readable(f)) : Stamped(x)}} : f \in files} IN
    [entries |-> {e \in all : e.root = Here},
     earliest |-> IF stamps = {} THEN None ELSE Min(stamps),
     bounded |-> \E f \in files : IsBounded(f),
     gaps |-> DiscoveryGaps(log) \cup (UNION {FileGaps(f) : f \in files})
              \cup {g \in {"foreign-root"} : \E e \in all : e.root # Here}]
=============================================================================
