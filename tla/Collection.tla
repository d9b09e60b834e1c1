----------------------------- MODULE Collection -----------------------------
(***************************************************************************)
(* Phase 1 of a scan (internal/collect), through the confined opens of     *)
(* internal/fsx and the containment of internal/safe: the local database   *)
(* is buffered, the configured subtrees are walked, the recorded paths are *)
(* added, and a pool of workers opens each leaf once.  A subject that      *)
(* overruns its deadline is abandoned, not stopped: it runs on beside the  *)
(* pool, and after it.  Another process may change the tree at any time.   *)
(*                                                                         *)
(* One step is one open, listing, read or re-fstat, or what one goroutine  *)
(* does under the collector's lock.  Links in the place of a directory     *)
(* lead out of the root, which os.Root refuses, or nowhere; what is "other" *)
(* is a fifo or a device, which opens.                                     *)
(***************************************************************************)
EXTENDS Naturals, FiniteSets, SequencesExt

CONSTANTS
    Paths,        \* what can be named beneath the root
    Parent,       \* path -> the directory it is in, "." for the root
    Order,        \* the paths as a sorted listing gives them
    Texts,        \* contents of files, targets of links
    Size,         \* contents -> bytes
    Sessions,     \* the trees, databases and configurations of a scan
    SweepTrees,   \* main.go's sweepTrees
    Watched,      \* the paths triage reads whatever their mode
    Workers,
    MaxChanges,   \* bounds of what else may happen: changes of the tree,
    MaxFaults     \* calls of the kernel that fail, and panics

Top == "."
Escape == "out"
NoText == ""
Kinds == {"dir", "file", "link", "other"}
Nodes == [kind : Kinds, text : Texts, exec : BOOLEAN, suid : BOOLEAN, gen : Nat]

(* A directory's name begins the names of what it holds, and sorts before. *)
ASSUME TreeAssumption ==
    /\ Order \in Seq(Paths) /\ Range(Order) = Paths /\ IsInjective(Order)
    /\ Parent \in [Paths -> Paths \union {Top}]
    /\ \A i, j \in DOMAIN Order : Parent[Order[j]] = Order[i] => i < j
    /\ Top \notin Paths /\ Escape \in Texts /\ NoText \notin Texts
    /\ Size \in [Texts -> Nat]
ASSUME BoundsAssumption ==
    /\ Workers \in Nat \ {0} /\ MaxChanges \in Nat /\ MaxFaults \in Nat
    /\ \A s \in Sessions : s.changes <= MaxChanges /\ s.faults <= MaxFaults

VARIABLES
    session,      \* one of Sessions
    disk,         \* inode -> what it is; gen counts writes (size and mtime)
    at,           \* path -> the inode it names, 0 for none
    named,        \* what each path has named since the scan began
    changes, faults,
    pc,           \* the phase Collect is in
    job,          \* the position within that phase
    frames,       \* the directories the walk has open, the deepest first
    leaves,       \* the paths to open
    subjects,     \* leaf -> how far its examination is
    workers,      \* worker -> the leaf it waits for, 0 when it has returned
    next,         \* the next leaf a worker takes
    dbListed, packages, buffered, buffers,    \* the evidence: Raw
    files, gaps, skipped

treeVars == <<disk, at, named, changes>>
dbVars == <<dbListed, packages, buffered, buffers>>
poolVars == <<subjects, workers, next>>
vars == <<session, treeVars, faults, pc, job, frames, leaves, poolVars,
          dbVars, files, gaps, skipped>>

-----------------------------------------------------------------------------
(* The tree. *)

Node(p) == disk[at[p]]
IsThere(p) == at[p] # 0
Is(p, kind) == IsThere(p) /\ Node(p).kind = kind

Above[p \in Paths] ==
    IF Parent[p] = Top THEN {} ELSE {Parent[p]} \union Above[Parent[p]]
Below(p) == {q \in Paths : p \in Above[q]}
Inside(d) == IF d = Top THEN Paths ELSE Below(d)

(* What stops the resolution of the directories of a path: the first, from *)
(* the root, that is not a directory.                                      *)
Blocks(p, q) == /\ q \in Above[p] /\ ~Is(q, "dir")
                /\ \A r \in Above[q] : Is(r, "dir")
Enoent(p) == \/ \E q \in Above[p] : /\ Blocks(p, q)
                                    /\ \/ ~IsThere(q)
                                       \/ Is(q, "link") /\ Node(q).text # Escape
             \/ (\A q \in Above[p] : Is(q, "dir")) /\ ~IsThere(p)
Reaches(p) == IsThere(p) /\ \A q \in Above[p] : Is(q, "dir")

(* OpenConfined: directories through os.Root, the leaf with O_NOFOLLOW.    *)
OpenConfined(p) ==
    CASE Enoent(p) -> "ErrNotExist"
      [] Reaches(p) /\ Node(p).kind = "file" -> "file"
      [] Reaches(p) /\ Node(p).kind = "link" -> "ErrSymlink"
      [] Reaches(p) /\ Node(p).kind \in {"dir", "other"} -> "ErrNotRegular"
      [] OTHER -> "refused"

Fault == faults < session.faults /\ faults' = faults + 1
NoFault == UNCHANGED faults

Names(a, d) == {<<p, d[a[p]]>> : p \in {q \in Paths : a[q] # 0}}
Alter(a, d) == /\ at' = a /\ disk' = d
               /\ named' = named \union Names(a, d)
               /\ changes' = changes + 1

Written(n, t) == [n EXCEPT !.text = t, !.gen = @ + 1]

(* The other process: it writes a file in place, puts something new at a   *)
(* path, or removes what is there, a directory with what is beneath it.    *)
ChangeTree ==
    /\ changes < session.changes /\ pc # "closed"
    /\ \E p \in Paths, t \in Texts, x \in BOOLEAN :
        \/ /\ Is(p, "file") /\ Node(p).text # t
           /\ Alter(at, [disk EXCEPT ![at[p]] = Written(@, t)])
        \/ /\ \A q \in Above[p] : Is(q, "dir")
           /\ \E k \in {"file", "link", "other"} :
                Alter([q \in Paths |-> CASE q = p -> Len(disk) + 1
                                         [] q \in Below(p) -> 0
                                         [] OTHER -> at[q]],
                      Append(disk, [kind |-> k, text |-> t, exec |-> x, suid |-> x, gen |-> 0]))
        \/ /\ IsThere(p)
           /\ Alter([q \in Paths |-> IF q = p \/ q \in Below(p) THEN 0 ELSE at[q]], disk)
    /\ UNCHANGED <<session, faults, pc, job, frames, leaves, poolVars, dbVars,
                   files, gaps, skipped>>

-----------------------------------------------------------------------------
(* The evidence.  c.gap and c.addFile drop what comes after it was closed. *)

done == pc = "closed"
GapOf(rule, package, subject) == [rule |-> rule, package |-> package, subject |-> subject]
Gap(rule, subject) == GapOf(rule, 0, subject)

(* Mutant: nothing is dropped. *)
AddFileAlways(f) == files' = files \union {f}

AddFile(f) == files' = IF done THEN files ELSE files \union {f}
AddGap(g) == gaps' = gaps \union {g}

FileFromStat(p, kind, n) ==
    [path |-> p, kind |-> kind, text |-> NoText, size |-> Size[n.text],
     exec |-> n.exec, suid |-> n.suid]
FileWithout(p, kind) ==
    [path |-> p, kind |-> kind, text |-> NoText, size |-> 0, exec |-> FALSE, suid |-> FALSE]

Phase(from, to) == pc = from /\ pc' = to /\ job' = 1

-----------------------------------------------------------------------------
(* The database.  A file is a gap when it cannot be read, is over the      *)
(* ceiling of one file or does not fit what is left of the buffer.         *)

DbFiles == <<"desc", "files", "mtree">>
Records == [path : Paths, text : Texts \union {NoText}, type : {"file", "link"}, exec : BOOLEAN]
Packages == [recorded : Seq(Paths), entries : SUBSET Records, unsafe : BOOLEAN,
             mtree : {"empty", "unparseable", "parsed"}, sizes : [Range(DbFiles) -> Nat]]

CollectDB ==
    /\ \/ NoFault /\ Phase("db", "packages") /\ dbListed' = TRUE
          /\ gaps' = IF session.stray THEN gaps \union {Gap("collect-db", "stray")} ELSE gaps
       \/ Fault /\ Phase("db", "buffers") /\ AddGap(Gap("collect-db", "db"))
          /\ UNCHANGED dbListed
    /\ UNCHANGED <<session, treeVars, frames, leaves, poolVars, packages,
                   buffered, buffers, files, skipped>>

PackageAt == ((job - 1) \div 3) + 1
DbFileAt == DbFiles[((job - 1) % 3) + 1]
DbSize == session.pkgs[PackageAt].sizes[DbFileAt]
Fits(size) == size <= session.maxDBFile /\ buffered + size <= session.maxBuffer

BufferDBFile ==
    /\ pc = "packages" /\ PackageAt <= Len(session.pkgs)
    /\ \/ /\ Fits(DbSize) /\ NoFault
          /\ packages' = packages \union {<<PackageAt, DbFileAt>>}
          /\ buffered' = buffered + DbSize /\ UNCHANGED gaps
       \/ /\ IF Fits(DbSize) THEN Fault ELSE NoFault
          /\ AddGap(GapOf("collect-db", PackageAt, DbFileAt))
          /\ UNCHANGED <<packages, buffered>>
    /\ job' = job + 1
    /\ UNCHANGED <<session, treeVars, pc, frames, leaves, poolVars, dbListed,
                   buffers, files, skipped>>

PackagesDone ==
    /\ PackageAt > Len(session.pkgs) /\ Phase("packages", "buffers")
    /\ UNCHANGED <<session, treeVars, faults, frames, leaves, poolVars, dbVars,
                   files, gaps, skipped>>

(* collectBufferPaths, a path at a time. *)
BufferPath ==
    /\ pc = "buffers" /\ job <= Len(session.bufferPaths)
    /\ LET p == session.bufferPaths[job] IN
       \/ /\ OpenConfined(p) = "file" /\ Fits(Size[Node(p).text]) /\ NoFault
          /\ buffers' = buffers \union {<<p, Node(p).text>>}
          /\ buffered' = buffered + Size[Node(p).text] /\ UNCHANGED gaps
       \/ /\ IF OpenConfined(p) = "file" /\ Fits(Size[Node(p).text]) THEN Fault ELSE NoFault
          /\ AddGap(Gap("collect-buffer", p)) /\ UNCHANGED <<buffers, buffered>>
    /\ job' = job + 1
    /\ UNCHANGED <<session, treeVars, pc, frames, leaves, poolVars, dbListed,
                   packages, files, skipped>>

BuffersDone ==
    /\ job > Len(session.bufferPaths) /\ Phase("buffers", "walk")
    /\ UNCHANGED <<session, treeVars, faults, frames, leaves, poolVars, dbVars,
                   files, gaps, skipped>>

-----------------------------------------------------------------------------
(* The walk.  A frame is a directory that was listed: the entries that are *)
(* left and the kind each had then.  The kind is not asked again, but a    *)
(* directory is opened from its parent's descriptor without following.     *)

HashNever == 0
HashIfSecurity == 1
HashAlways == 2

SubtreesOf(s) == s.walk \o (IF s.tier = "paranoid" THEN SweepTrees ELSE <<>>)
Subtrees == SubtreesOf(session)
IsSweep(i) == i > Len(session.walk)

(* What a scan may find and be asked.  The database that is walked is not  *)
(* in a tree that is swept: config's is var/lib/pacman.                    *)
ASSUME SessionsAssumption == \A s \in Sessions :
    /\ s.disk \in Seq(Nodes) /\ s.at \in [Paths -> 0..Len(s.disk)]
    /\ SubtreesOf(s) \in Seq(Paths \union {Top})
    /\ \A i, j \in DOMAIN SubtreesOf(s) :
          i # j => Inside(SubtreesOf(s)[i]) \intersect Inside(SubtreesOf(s)[j]) = {}
    /\ s.pkgs \in Seq(Packages)

Listing(d) == {[path |-> p, kind |-> Node(p).kind] : p \in {q \in Paths : Parent[q] = d /\ IsThere(q)}}
Frame(d, policy) == [dir |-> d, policy |-> policy, entries |-> Listing(d)]
CanOpenDir(d) == IF d = Top THEN TRUE ELSE Reaches(d) /\ Node(d).kind = "dir"

(* A subtree of the sweep that is not there is an answer.                  *)
EnterSubtree ==
    /\ pc = "walk" /\ frames = <<>> /\ job <= Len(Subtrees)
    /\ LET d == Subtrees[job] IN
       \/ /\ CanOpenDir(d) /\ NoFault
          /\ frames' = <<Frame(d, IF IsSweep(job) THEN HashNever ELSE HashAlways)>>
          /\ UNCHANGED gaps
       \/ /\ IF CanOpenDir(d) THEN Fault ELSE NoFault
          /\ IF IsSweep(job) /\ d # Top /\ Enoent(d)
               THEN UNCHANGED gaps ELSE AddGap(Gap("collect-walk", d))
          /\ UNCHANGED frames
    /\ job' = job + 1
    /\ UNCHANGED <<session, treeVars, pc, leaves, poolVars, dbVars, files, skipped>>

Here == Head(frames)
Position(p) == CHOOSE i \in DOMAIN Order : Order[i] = p
Entry == CHOOSE e \in Here.entries :
             \A other \in Here.entries : Position(e.path) <= Position(other.path)
Passed == [Here EXCEPT !.entries = @ \ {Entry}]
Cut == Cardinality(files) + Len(leaves) >= session.maxFiles
Walking == pc = "walk" /\ frames # <<>> /\ Here.entries # {}
Counted == Walking /\ Entry.path \notin session.skip /\ ~Cut

SkipEntry ==
    /\ Walking /\ Entry.path \in session.skip
    /\ skipped' = skipped \union {Entry.path}
    /\ frames' = <<Passed>> \o Tail(frames)
    /\ UNCHANGED <<session, treeVars, faults, pc, job, leaves, poolVars, dbVars, files, gaps>>

(* The bound: the rest of the directory is given up, and said to be.       *)
StopWalk ==
    /\ Walking /\ Entry.path \notin session.skip /\ Cut
    /\ AddGap(Gap("collect-walk", Here.dir))
    /\ frames' = Tail(frames)
    /\ UNCHANGED <<session, treeVars, faults, pc, job, leaves, poolVars, dbVars, files, skipped>>

WalkChildDir ==
    /\ Counted /\ Entry.kind = "dir"
    /\ LET d == Entry.path
           isDir == Is(d, "dir")
           tooDeep == Len(frames) > session.maxDepth
       IN
       \/ /\ isDir /\ NoFault /\ ~tooDeep
          /\ AddFile(FileFromStat(d, "dir", Node(d)))
          /\ frames' = <<Frame(d, Here.policy), Passed>> \o Tail(frames)
          /\ UNCHANGED gaps
       \/ /\ isDir /\ IF tooDeep THEN NoFault ELSE Fault
          /\ AddFile(FileFromStat(d, "dir", Node(d)))
          /\ AddGap(Gap("collect-walk", d))
          /\ frames' = <<Passed>> \o Tail(frames)
       \/ /\ IF isDir THEN Fault ELSE NoFault
          /\ AddGap(Gap("collect-walk", d))
          /\ frames' = <<Passed>> \o Tail(frames)
          /\ UNCHANGED files
    /\ UNCHANGED <<session, treeVars, pc, job, leaves, poolVars, dbVars, skipped>>

QueueFile ==
    /\ Counted /\ Entry.kind = "file"
    /\ leaves' = Append(leaves, [path |-> Entry.path, policy |-> Here.policy, recorded |-> FALSE])
    /\ frames' = <<Passed>> \o Tail(frames)
    /\ UNCHANGED <<session, treeVars, faults, pc, job, poolVars, dbVars, files, gaps, skipped>>

(* recordSymlink and recordNonContent: an fstatat, and for a link a        *)
(* readlinkat that fails on what is no link any more.                      *)
RecordEntry ==
    /\ Counted /\ Entry.kind \in {"link", "other"}
    /\ LET p == Entry.path
           works == IF Entry.kind = "link" THEN Is(p, "link") ELSE IsThere(p)
           record == FileFromStat(p, Entry.kind, Node(p))
       IN
       \/ /\ works /\ NoFault
          /\ AddFile(IF Entry.kind = "link" THEN [record EXCEPT !.text = Node(p).text]
                                            ELSE record)
          /\ UNCHANGED gaps
       \/ /\ IF works THEN Fault ELSE NoFault
          /\ AddGap(Gap("collect-walk", p)) /\ UNCHANGED files
    /\ frames' = <<Passed>> \o Tail(frames)
    /\ UNCHANGED <<session, treeVars, pc, job, leaves, poolVars, dbVars, skipped>>

LeaveDir ==
    /\ pc = "walk" /\ frames # <<>> /\ Here.entries = {}
    /\ frames' = Tail(frames)
    /\ UNCHANGED <<session, treeVars, faults, pc, job, leaves, poolVars, dbVars,
                   files, gaps, skipped>>

-----------------------------------------------------------------------------
(* The recorded paths, added to what the walk queued.  A path the walk has *)
(* spoken for is not opened a second time; one it queued may be read for   *)
(* more.                                                                   *)

CollectPolicy(tier) == CASE tier = "meta" -> HashNever
                         [] tier = "triage" -> HashIfSecurity
                         [] OTHER -> HashAlways

Described(p) == \E f \in files : f.path = p
LeafOf(ls, p) == CHOOSE i \in DOMAIN ls : ls[i].path = p
IsQueued(ls, p) == \E i \in DOMAIN ls : ls[i].path = p
Raise(l, policy) == IF l.policy < policy THEN [l EXCEPT !.policy = policy, !.recorded = TRUE] ELSE l

AddRecorded(ls, p) ==
    LET policy == CollectPolicy(session.tier) IN
    IF IsQueued(ls, p) THEN [ls EXCEPT ![LeafOf(ls, p)] = Raise(@, policy)]
    ELSE IF Described(p) THEN ls
    ELSE Append(ls, [path |-> p, policy |-> policy, recorded |-> TRUE])

HasFileList(k) == <<k, "files">> \in packages
RecordedPaths == FlattenSeq([k \in DOMAIN session.pkgs |->
                                IF HasFileList(k) THEN session.pkgs[k].recorded ELSE <<>>])

WithRecorded == LET added[n \in 0..Len(RecordedPaths)] ==
                        IF n = 0 THEN leaves ELSE AddRecorded(added[n - 1], RecordedPaths[n])
                IN  added[Len(RecordedPaths)]

Unstarted(l) == [step |-> "open", ino |-> 0, gen |-> 0, text |-> NoText, gap |-> FALSE,
                 stat |-> FileWithout(l.path, "file")]

(* The end of the walk: the paths are added and the pool is started.       *)
AppendRecorded ==
    /\ pc = "walk" /\ frames = <<>> /\ job > Len(Subtrees)
    /\ leaves' = WithRecorded
    /\ gaps' = gaps \union {GapOf("collect-recorded", k, "files") :
                   k \in {k \in DOMAIN session.pkgs : HasFileList(k) /\ session.pkgs[k].unsafe}}
    /\ pc' = "hash" /\ job' = 1
    /\ subjects' = [i \in DOMAIN leaves' |-> Unstarted(leaves'[i])]
    /\ workers' = [w \in 1..Workers |-> IF w <= Len(leaves') THEN w ELSE 0]
    /\ next' = Workers + 1
    /\ UNCHANGED <<session, treeVars, faults, frames, dbVars, files, skipped>>

-----------------------------------------------------------------------------
(* The examination of a leaf: the open, the read when its policy or the    *)
(* mode of the descriptor asks for one, and the re-fstat of that           *)
(* descriptor.  answered is RunTimeout's channel: gap is set for an error. *)

Path(i) == leaves[i].path
At(i, step) == pc \in {"hash", "closed"} /\ i \in DOMAIN leaves /\ subjects[i].step = step
Started(i) == i < next
Step(i, s) == subjects' = [subjects EXCEPT ![i] = s]
Answer(i, isGap) == Step(i, [subjects[i] EXCEPT !.step = "answered", !.gap = isGap])

(* Mutant: an unread path is taken for an answer. *)
UnreadIsNoError(i) ==
    /\ IF leaves[i].recorded THEN AddFile(FileWithout(Path(i), "unread")) ELSE UNCHANGED files
    /\ Answer(i, FALSE)

Unread(i) ==
    /\ IF leaves[i].recorded THEN AddFile(FileWithout(Path(i), "unread")) ELSE UNCHANGED files
    /\ Answer(i, TRUE)

HashWanted(i) ==
    \/ leaves[i].policy = HashAlways
    \/ leaves[i].policy = HashIfSecurity /\ (Node(Path(i)).exec \/ Node(Path(i)).suid \/ Path(i) \in Watched)

OpenLeaf(i) ==
    /\ At(i, "open") /\ Started(i)
    /\ LET found == OpenConfined(Path(i)) IN
       \/ /\ found = "file" /\ NoFault /\ UNCHANGED files
          /\ Step(i, [subjects[i] EXCEPT !.step = IF HashWanted(i) THEN "read" ELSE "check",
                                         !.ino = at[Path(i)], !.gen = Node(Path(i)).gen,
                                         !.stat = FileFromStat(Path(i), "file", Node(Path(i)))])
       \/ /\ found = "ErrNotRegular" /\ NoFault
          /\ AddFile(FileFromStat(Path(i), "other", Node(Path(i)))) /\ Answer(i, FALSE)
       \/ /\ found = "ErrNotExist" /\ leaves[i].recorded /\ NoFault
          /\ AddFile(FileWithout(Path(i), "absent")) /\ Answer(i, FALSE)
       \/ /\ found = "ErrSymlink" /\ leaves[i].recorded /\ NoFault
          /\ Step(i, [subjects[i] EXCEPT !.step = "readlink"]) /\ UNCHANGED files
       \/ /\ IF \/ found = "refused"
                \/ found \in {"ErrNotExist", "ErrSymlink"} /\ ~leaves[i].recorded
               THEN NoFault ELSE Fault
          /\ Unread(i)
    /\ UNCHANGED <<session, treeVars, pc, job, frames, leaves, workers, next,
                   dbVars, gaps, skipped>>

(* ReadLinkConfined resolves the name once more. *)
ReadLink(i) ==
    /\ At(i, "readlink")
    /\ \/ /\ Reaches(Path(i)) /\ Is(Path(i), "link") /\ NoFault
          /\ AddFile([FileWithout(Path(i), "link") EXCEPT !.text = Node(Path(i)).text])
          /\ Answer(i, FALSE)
       \/ /\ IF Reaches(Path(i)) /\ Is(Path(i), "link") THEN Fault ELSE NoFault
          /\ Unread(i)
    /\ UNCHANGED <<session, treeVars, pc, job, frames, leaves, workers, next,
                   dbVars, gaps, skipped>>

ReadLeaf(i) ==
    /\ At(i, "read")
    /\ \/ /\ Step(i, [subjects[i] EXCEPT !.step = "check", !.text = disk[subjects[i].ino].text])
          /\ NoFault /\ UNCHANGED files
       \/ Fault /\ Unread(i)
    /\ UNCHANGED <<session, treeVars, pc, job, frames, leaves, workers, next,
                   dbVars, gaps, skipped>>

(* Mutant: the descriptor is not asked again. *)
UnchangedAssumed(i) == TRUE

Unchanged(i) == disk[subjects[i].ino].gen = subjects[i].gen

CheckLeaf(i) ==
    /\ At(i, "check") /\ NoFault
    /\ IF Unchanged(i)
         THEN AddFile([subjects[i].stat EXCEPT !.text = subjects[i].text]) /\ Answer(i, FALSE)
         ELSE Unread(i)
    /\ UNCHANGED <<session, treeVars, pc, job, frames, leaves, workers, next,
                   dbVars, gaps, skipped>>

(* A panic, which safe.Run turns into an error. *)
Panic(i) ==
    /\ \E step \in {"read", "check", "readlink"} : At(i, step)
    /\ Fault /\ Answer(i, TRUE)
    /\ UNCHANGED <<session, treeVars, pc, job, frames, leaves, workers, next,
                   dbVars, files, gaps, skipped>>

-----------------------------------------------------------------------------
(* The pool.  A worker has its subject's answer, or has waited for it as   *)
(* long as it may; then it takes the next leaf.                            *)

TakeNext(w) ==
    IF next <= Len(leaves)
      THEN workers' = [workers EXCEPT ![w] = next] /\ next' = next + 1
      ELSE workers' = [workers EXCEPT ![w] = 0] /\ UNCHANGED next

Deliver(w) ==
    /\ pc = "hash" /\ workers[w] # 0 /\ subjects[workers[w]].step = "answered"
    /\ IF subjects[workers[w]].gap THEN AddGap(Gap("collect-file", Path(workers[w])))
                                   ELSE UNCHANGED gaps
    /\ TakeNext(w)
    /\ UNCHANGED <<session, treeVars, faults, pc, job, frames, leaves, subjects,
                   dbVars, files, skipped>>

TimeOut(w) ==
    /\ pc = "hash" /\ workers[w] # 0 /\ session.timeout
    /\ subjects[workers[w]].step # "answered"
    /\ AddGap(Gap("collect-file", Path(workers[w])))
    /\ TakeNext(w)
    /\ UNCHANGED <<session, treeVars, faults, pc, job, frames, leaves, subjects,
                   dbVars, files, skipped>>

(* Mutant: the subjects that were abandoned are waited for. *)
CloseAfterAll ==
    /\ Phase("hash", "closed")
    /\ \A w \in DOMAIN workers : workers[w] = 0
    /\ \A i \in DOMAIN leaves : subjects[i].step = "answered"
    /\ UNCHANGED <<session, treeVars, faults, frames, leaves, poolVars, dbVars,
                   files, gaps, skipped>>

(* The workers have returned; the evidence is sorted, closed and handed    *)
(* out.                                                                    *)
Close ==
    /\ Phase("hash", "closed")
    /\ \A w \in DOMAIN workers : workers[w] = 0
    /\ UNCHANGED <<session, treeVars, faults, frames, leaves, poolVars, dbVars,
                   files, gaps, skipped>>

Pool == \/ \E w \in 1..Workers : Deliver(w) \/ TimeOut(w)
        \/ Close
Walk == \/ EnterSubtree \/ SkipEntry \/ StopWalk \/ WalkChildDir \/ QueueFile
        \/ RecordEntry \/ LeaveDir \/ AppendRecorded
Buffer == \/ CollectDB \/ BufferDBFile \/ PackagesDone \/ BufferPath \/ BuffersDone
Subject(i) == OpenLeaf(i) \/ ReadLink(i) \/ ReadLeaf(i) \/ CheckLeaf(i) \/ Panic(i)

Init ==
    /\ session \in Sessions
    /\ disk = session.disk /\ at = session.at
    /\ named = Names(session.at, session.disk)
    /\ changes = 0 /\ faults = 0
    /\ pc = "db" /\ job = 1 /\ frames = <<>> /\ leaves = <<>>
    /\ subjects = <<>> /\ workers = [w \in 1..Workers |-> 0] /\ next = 1
    /\ dbListed = FALSE /\ packages = {} /\ buffered = 0 /\ buffers = {}
    /\ files = {} /\ gaps = {} /\ skipped = {}

Next == \/ Buffer \/ Walk \/ Pool \/ ChangeTree
        \/ \E i \in DOMAIN leaves : Subject(i)

(* The collector's own goroutines run, and its timers fire.  A subject may *)
(* hang in a system call for ever: nothing is assumed of it.               *)
Spec == Init /\ [][Next]_vars /\ WF_vars(Buffer) /\ WF_vars(Walk)
        /\ WF_vars(Pool)
=============================================================================
