-------------------------- MODULE CollectionProofs --------------------------
(***************************************************************************)
(* Proofs about Collection, for any tree, database, configuration, number  *)
(* of workers and budget of changes and faults: what was handed out stays  *)
(* as it is, every path has one record, what a record says was so at some  *)
(* instant of the scan, and nothing that differs is passed over.           *)
(*                                                                         *)
(* The invariant says which paths are spoken for, which the walk has still *)
(* before it, and that no path is both: the subtrees do not overlap, and   *)
(* two entries that are left have nothing beneath them in common.  Of an   *)
(* open descriptor it says that as long as its inode has the generation of *)
(* the first fstat, what was read is what the path named then.             *)
(***************************************************************************)
EXTENDS Verification, Induction, FiniteSetTheorems, SequenceTheorems, TLAPS

-----------------------------------------------------------------------------
(* The inductive invariant.                                                *)

Entries == [path : Paths, kind : Kinds]
Frames == [dir : Paths \union {Top}, policy : Nat, entries : SUBSET Entries]
Leaves == [path : Paths, policy : Nat, recorded : BOOLEAN]
FileKinds == Kinds \union {"absent", "unread"}
FileRecords == [path : Paths, kind : FileKinds,
                text : Texts \union {NoText}, size : Nat, exec : BOOLEAN, suid : BOOLEAN]
Steps == {"open", "readlink", "read", "check", "answered"}
Subjects == [step : Steps, ino : Nat, gen : Nat, text : Texts \union {NoText}, gap : BOOLEAN,
             stat : FileRecords]

Early == {"db", "packages", "buffers"}
Late == {"hash", "closed"}

TreeInv ==
    /\ session \in Sessions
    /\ disk \in Seq(Nodes) /\ at \in [Paths -> 0..Len(disk)]
    /\ Names(at, disk) \subseteq named

TypeInv ==
    /\ pc \in Early \union {"walk"} \union Late
    /\ job \in Nat \ {0}
    /\ frames \in Seq(Frames) /\ leaves \in Seq(Leaves)
    /\ pc \in Late => subjects \in [DOMAIN leaves -> Subjects]

\* The paths that have a record or wait for one, what an entry that is left
\* may still speak for, and what the subtrees do that were not entered.
Spoken(fs, ls) == {f.path : f \in fs} \union {l.path : l \in Range(ls)}
Span(e) == {e.path} \union Below(e.path)
Ahead(j) == UNION {Inside(Subtrees[i]) : i \in j..Len(Subtrees)}

Clear(stack, spoken, ahead) ==
    /\ spoken \intersect ahead = {}
    /\ \A k \in DOMAIN stack : \A e \in stack[k].entries :
          Span(e) \intersect (spoken \union ahead) = {}
    /\ \A k, l \in DOMAIN stack : \A e \in stack[k].entries, f \in stack[l].entries :
          <<k, e>> # <<l, f>> => Span(e) \intersect Span(f) = {}

WalkInv ==
    /\ pc \in Early => files = {} /\ leaves = <<>> /\ frames = <<>>
    /\ pc = "walk" => Clear(frames, Spoken(files, leaves), Ahead(job))

\* What a record says was so at some instant of the scan.
Found(f, n) ==
    /\ f.kind \in FileKinds
    /\ f.kind = "link" => \E x \in n : x[1] = f.path /\ x[2].kind = "link" /\ x[2].text = f.text
    /\ f.kind = "file" /\ f.text # NoText =>
          \E x \in n : /\ x[1] = f.path /\ x[2].kind = "file" /\ x[2].text = f.text
                        /\ Size[x[2].text] = f.size
                        /\ x[2].exec = f.exec /\ x[2].suid = f.suid
FilesInv ==
    /\ \A f, g \in files : f.path = g.path => f = g
    /\ \A f \in files : Found(f, named)

Undescribed(p) == \A f \in files : f.path # p
LeavesInv ==
    /\ \A i, j \in DOMAIN leaves : leaves[i].path = leaves[j].path => i = j
    /\ \A i \in DOMAIN leaves :
          pc \notin Late \/ subjects[i].step # "answered" => Undescribed(leaves[i].path)

Descriptor(s, p, d, n) ==
    /\ s.ino \in DOMAIN d /\ s.gen <= d[s.ino].gen
    /\ s.gen = d[s.ino].gen =>
          /\ <<p, d[s.ino]>> \in n /\ d[s.ino].kind = "file"
          /\ s.stat = FileFromStat(p, "file", d[s.ino])
          /\ s.text \in {NoText, d[s.ino].text}
DescriptorsInv ==
    pc \in Late => \A i \in DOMAIN leaves :
        /\ subjects[i].step = "open" => subjects[i].text = NoText
        /\ subjects[i].step \in {"read", "check"} => Descriptor(subjects[i], leaves[i].path, disk, named)

IInv == TreeInv /\ TypeInv /\ WalkInv /\ FilesInv /\ LeavesInv /\ DescriptorsInv

-----------------------------------------------------------------------------
(* What it says besides of the paths nothing happened to.                  *)

\* What a record says of its path is so: nothing changed it.
Agrees(f) ==
    /\ f.kind \in {"dir", "link"} => Is(f.path, f.kind)
    /\ f.kind = "other" => Is(f.path, "other") \/ Is(f.path, "dir")
    /\ f.kind = "file" => Is(f.path, "file") /\ Node(f.path).suid = f.suid
    /\ f.kind = "absent" => f = FileWithout(f.path, "absent") /\ ~Reaches(f.path)
AgreeInv == \A f \in files : f.path \in Paths /\ (Untouched(f.path) => Agrees(f))

\* The entries of a frame are of its directory, and of the kind they had.
ListedInv == \A k \in DOMAIN frames : \A e \in frames[k].entries :
    Parent[e.path] = frames[k].dir /\ (Untouched(e.path) => Is(e.path, e.kind))

\* A path beneath a subtree that was entered: the report says why it is not
\* looked at, or it is spoken for, or an entry that is left leads to it.
Pending(p) == \E k \in DOMAIN frames : \E e \in frames[k].entries : p \in Span(e)
Entered(p) == \E i \in Subtree(p) : pc \in Late \/ i < job
Met(p) == \/ Excused(p) \/ Gap("collect-walk", Top) \in gaps
          \/ p \in Spoken(files, leaves)
          \/ pc = "walk" /\ Pending(p)
WalkedInv == pc \notin Early => \A p \in Paths :
    Untouched(p) /\ Reaches(p) /\ Entered(p) => Met(p)

\* The pool: a leaf that was taken has a worker that waits for it, or a gap,
\* or an answer that is none.
Gapped(i) == Gap("collect-file", Path(i)) \in gaps
Answered(i, isGap) == subjects[i].step = "answered" /\ subjects[i].gap = isGap
PoolInv == pc \in Late =>
    /\ workers \in [1..Workers -> 0..Len(leaves)] /\ next \in Nat \ {0}
    /\ \A w \in 1..Workers : workers[w] = 0 => next > Len(leaves)
    /\ pc = "closed" => \A w \in 1..Workers : workers[w] = 0
    /\ \A i \in DOMAIN leaves : i < next =>
          (\E w \in 1..Workers : workers[w] = i) \/ Gapped(i) \/ Answered(i, FALSE)
    /\ \A i \in DOMAIN leaves : Answered(i, FALSE) => Described(Path(i)) \/ Gapped(i)
UnreadInv == \A f \in files : f.kind = "unread" =>
    pc \in Late /\ \E i \in DOMAIN leaves : Path(i) = f.path /\ Answered(i, TRUE)

GrownInv == Len(session.disk) <= Len(disk)

SilenceInv == AgreeInv /\ ListedInv /\ WalkedInv /\ PoolInv /\ UnreadInv /\ GrownInv

-----------------------------------------------------------------------------
(* The tree of paths.  It is finite and has no cycle: a directory sorts    *)
(* before what it holds.                                                   *)

LEMMA OrderFacts ==
    /\ DOMAIN Order = 1..Len(Order) /\ Len(Order) \in Nat /\ Order \in [1..Len(Order) -> Paths]
    /\ \A p \in Paths : \E i \in DOMAIN Order : Order[i] = p
<1>1. \A p \in Range(Order) : \E i \in DOMAIN Order : Order[i] = p
  BY DEF Range
<1> QED BY <1>1, TreeAssumption

LEMMA TreeInduct ==
    ASSUME NEW S \in SUBSET Paths,
           \A p \in Paths : Parent[p] = Top \/ Parent[p] \in S => p \in S
    PROVE  S = Paths
<1> DEFINE Out == {i \in DOMAIN Order : Order[i] \notin S}
<1>1. SUFFICES ASSUME Out # {}
               PROVE  FALSE
  <2>1. ASSUME Out = {}, NEW p \in Paths
        PROVE  p \in S
    <3>1. PICK i \in DOMAIN Order : Order[i] = p
      BY OrderFacts
    <3> QED BY <2>1, <3>1
  <2> HIDE DEF Out
  <2> QED BY <2>1
<1>2. Out \subseteq Nat
  BY OrderFacts
<1> HIDE DEF Out
<1>3. PICK i \in Out : \A k \in Out : i <= k
  BY <1>1, <1>2, Least
<1>4. i \in DOMAIN Order /\ Order[i] \in Paths /\ Order[i] \notin S
  BY <1>3, TreeAssumption DEF Out
<1>5. Parent[Order[i]] \in Paths /\ Parent[Order[i]] \notin S
  BY <1>4, TreeAssumption
<1>6. PICK k \in DOMAIN Order : Order[k] = Parent[Order[i]]
  BY <1>5, TreeAssumption DEF Range
<1>7. k < i /\ k \in Out
  BY <1>4, <1>5, <1>6, TreeAssumption DEF Out
<1>8. i \in Nat /\ k \in Nat /\ i <= k
  BY <1>2, <1>3, <1>7
<1> QED BY <1>7, <1>8

LEMMA AboveFacts ==
    /\ Above \in [Paths -> SUBSET Paths]
    /\ \A p \in Paths : Above[p] = IF Parent[p] = Top THEN {} ELSE {Parent[p]} \union Above[Parent[p]]
<1> DEFINE n == Len(Order)
           T == [Paths -> SUBSET Paths]
           base == [p \in Paths |-> {}]
           Over(A, p) == IF Parent[p] = Top THEN {} ELSE {Parent[p]} \union A[Parent[p]]
           Next0(A) == [p \in Paths |-> Over(A, p)]
           S0 == [i \in 1..n |-> [g \in T |-> [g EXCEPT ![Order[i]] = Over(g, Order[i])]]]
<1>1. n \in Nat /\ Order \in [1..n -> Paths] /\ DOMAIN Order = 1..n
  BY OrderFacts
<1>2. base \in T
  OBVIOUS
<1>3. \A g \in T, p \in Paths : Over(g, p) \in SUBSET Paths
  BY TreeAssumption
<1>4. S0 \in [1..n -> [T -> T]]
  <2> SUFFICES ASSUME NEW i \in 1..n, NEW g \in T
               PROVE  [g EXCEPT ![Order[i]] = Over(g, Order[i])] \in T
    OBVIOUS
  <2> QED BY <1>1, <1>3
<1>5. PICK f \in [0..n -> T] : Iterates(f, n, base, S0)
  <2> HIDE DEF S0, T, base
  <2> QED BY <1>1, <1>2, <1>4, IterateExists
<1>6. ASSUME NEW i \in 0..n, i < n
      PROVE  f[i] \in T /\ f[i + 1] = [f[i] EXCEPT ![Order[i + 1]] = Over(f[i], Order[i + 1])]
  <2>1. i + 1 \in 0..n /\ i + 1 # 0 /\ (i + 1) - 1 = i /\ i + 1 \in 1..n
    BY <1>1, <1>6
  <2>2. f[i + 1] = S0[i + 1][f[i]]
    <3> HIDE DEF S0
    <3> QED BY <1>5, <2>1 DEF Iterates
  <2>3. f[i] \in T
    OBVIOUS
  <2> QED BY <2>1, <2>2, <2>3
<1> DEFINE Good == {i \in 0..n : \A k \in 1..i : f[i][Order[k]] = Over(f[i], Order[k])}
<1>7. \A i \in 0..n : i \in Good
  <2>1. 0 \in Good
    BY <1>1
  <2>2. ASSUME NEW i \in Nat, i < n, i \in Good
        PROVE  i + 1 \in Good
    <3>1. i + 1 \in 0..n /\ i + 1 \in 1..n
      BY <1>1, <2>2
    <3>2. ASSUME NEW k \in 1..(i + 1)
          PROVE  f[i + 1][Order[k]] = Over(f[i + 1], Order[k])
      <4>1. k \in 1..n /\ Order[k] \in Paths /\ Order[i + 1] \in Paths
        BY <1>1, <3>1
      <4>2. ASSUME NEW m \in 1..n, m # i + 1
            PROVE  f[i + 1][Order[m]] = f[i][Order[m]]
        <5>1. Order[m] # Order[i + 1]
          BY <1>1, <3>1, <4>2, TreeAssumption DEF IsInjective
        <5>2. Order[m] \in Paths
          BY <1>1
        <5> QED BY <1>6, <2>2, <5>1, <5>2
      <4>3. Over(f[i + 1], Order[k]) = Over(f[i], Order[k])
        <5>1. CASE Parent[Order[k]] = Top
          BY <5>1
        <5>2. CASE Parent[Order[k]] # Top
          <6>1. Parent[Order[k]] \in Paths
            BY <4>1, <5>2, TreeAssumption
          <6>2. PICK m \in 1..n : Order[m] = Parent[Order[k]]
            BY <1>1, <6>1, TreeAssumption DEF Range
          <6>3. m < k
            BY <1>1, <4>1, <6>2, TreeAssumption
          <6>4. m # i + 1
            BY <6>3
          <6>5. f[i + 1][Parent[Order[k]]] = f[i][Parent[Order[k]]]
            BY <4>2, <6>2, <6>4
          <6> QED BY <5>2, <6>5
        <5> QED BY <5>1, <5>2
      <4>4. CASE k = i + 1
        <5>1. f[i + 1][Order[k]] = Over(f[i], Order[k])
          BY <1>6, <2>2, <4>1, <4>4, ZenonT(40)
        <5> HIDE DEF Over
        <5> QED BY <5>1, <4>3
      <4>5. CASE k # i + 1
        <5>1. k \in 1..i
          BY <4>5
        <5>2. f[i][Order[k]] = Over(f[i], Order[k])
          BY <2>2, <5>1
        <5> HIDE DEF Over
        <5> QED BY <4>1, <4>2, <4>3, <4>5, <5>2
      <4> QED BY <4>4, <4>5
    <3> QED BY <3>1, <3>2
  <2> HIDE DEF Good
  <2> QED BY <1>1, <2>1, <2>2, Along
<1>8. f[n] = Next0(f[n])
  <2>1. n \in Good /\ f[n] \in T
    <3>1. n \in 0..n
      BY <1>1
    <3>2. f[n] \in T
      BY <3>1
    <3> HIDE DEF Good, T
    <3> QED BY <3>1, <3>2, <1>7
  <2>2. ASSUME NEW p \in Paths
        PROVE  f[n][p] = Over(f[n], p)
    <3>1. PICK k \in 1..n : Order[k] = p
      BY <1>1, OrderFacts
    <3>2. \A i \in 1..n : f[n][Order[i]] = Over(f[n], Order[i])
      BY <2>1
    <3> HIDE DEF Over
    <3> QED BY <3>1, <3>2
  <2> HIDE DEF Over
  <2> QED BY <2>1, <2>2
<1>9. Above = Next0(Above)
  <2>1. \E A : A = Next0(A)
    BY <1>8
  <2> QED BY <2>1 DEF Above
<1>10. \A p \in Paths : Above[p] \in SUBSET Paths
  <2> DEFINE S == {p \in Paths : Above[p] \in SUBSET Paths}
  <2>1. ASSUME NEW p \in Paths, Parent[p] = Top \/ Parent[p] \in S
        PROVE  p \in S
    BY <1>9, <2>1, TreeAssumption
  <2>2. S \in SUBSET Paths
    OBVIOUS
  <2> HIDE DEF S
  <2>3. S = Paths
    BY <2>1, <2>2, TreeInduct
  <2> QED BY <2>3 DEF S
<1> QED
  <2>1. DOMAIN Above = Paths /\ Above = [p \in Paths |-> Above[p]]
    BY <1>9
  <2> QED BY <1>9, <1>10, <2>1

LEMMA AboveOrder ==
    /\ \A p \in Paths : \A q \in Above[p] : Above[q] \subseteq Above[p]
    /\ \A p \in Paths : p \notin Above[p]
    /\ \A p \in Paths : \A q, r \in Above[p] : q = r \/ q \in Above[r] \/ r \in Above[q]
<1> DEFINE Before(q, p) == \A i, j \in DOMAIN Order : Order[i] = q /\ Order[j] = p => i < j
           S == {p \in Paths : /\ \A q \in Above[p] : Above[q] \subseteq Above[p]
                               /\ \A q \in Above[p] : Before(q, p)
                               /\ \A q, r \in Above[p] : q = r \/ q \in Above[r] \/ r \in Above[q]}
<1>1. ASSUME NEW p \in Paths, Parent[p] = Top \/ Parent[p] \in S
      PROVE  p \in S
  <2>1. CASE Parent[p] = Top
    BY <2>1, AboveFacts
  <2>2. CASE Parent[p] # Top
    <3> DEFINE d == Parent[p]
    <3>1. d \in S /\ d \in Paths
      BY <1>1, <2>2
    <3>2. Above[p] = {d} \union Above[d]
      BY <2>2, AboveFacts
    <3>3. Before(d, p)
      BY TreeAssumption
    <3>4. ASSUME NEW q \in Above[d]
          PROVE  Before(q, p)
      <4>1. Before(q, d)
        BY <3>1
      <4>2. PICK k \in DOMAIN Order : Order[k] = d
        BY <3>1, TreeAssumption DEF Range
      <4>3. ASSUME NEW i \in DOMAIN Order, NEW j \in DOMAIN Order, Order[i] = q, Order[j] = p
            PROVE  i < j
        <5>1. i < k /\ k < j
          BY <4>1, <4>2, <4>3, <3>3
        <5>2. i \in Nat /\ j \in Nat /\ k \in Nat
          BY TreeAssumption
        <5> QED BY <5>1, <5>2
      <4> QED BY <4>3
    <3> HIDE DEF Before
    <3>5. \A q \in Above[p] : Above[q] \subseteq Above[p]
      BY <3>1, <3>2
    <3>6. \A q \in Above[p] : Before(q, p)
      BY <3>2, <3>3, <3>4
    <3>7. \A q, r \in Above[p] : q = r \/ q \in Above[r] \/ r \in Above[q]
      BY <3>1, <3>2
    <3> QED BY <3>5, <3>6, <3>7
  <2> QED BY <2>1, <2>2
<1>2. S \in SUBSET Paths
  OBVIOUS
<1>3. S = Paths
  <2> HIDE DEF S
  <2> QED BY <1>1, <1>2, TreeInduct
<1>4. ASSUME NEW p \in Paths
      PROVE  p \notin Above[p]
  <2>1. PICK i \in DOMAIN Order : Order[i] = p
    BY TreeAssumption DEF Range
  <2>2. i \in Nat
    BY TreeAssumption
  <2>3. p \in Above[p] => i < i
    BY <1>3, <2>1
  <2> QED BY <2>2, <2>3
<1> QED BY <1>3, <1>4

\* What is beneath two entries of one directory is not the same.
LEMMA Siblings ==
    ASSUME NEW p \in Paths, NEW q \in Paths, Parent[p] = Parent[q], p # q
    PROVE  ({p} \union Below(p)) \intersect ({q} \union Below(q)) = {}
<1>1. ASSUME NEW r \in Paths, NEW s \in Paths, Parent[r] = Parent[s]
      PROVE  r \notin Above[s]
  <2>1. SUFFICES ASSUME r \in Above[s]
                 PROVE  FALSE
    OBVIOUS
  <2> DEFINE d == Parent[s]
  <2>2. d # Top
    BY <2>1, AboveFacts
  <2>3. d \in Paths /\ Above[s] = {d} \union Above[d] /\ d \in Above[r]
    BY <1>1, <2>2, AboveFacts, TreeAssumption
  <2>4. r = d \/ Above[r] \subseteq Above[d]
    BY <2>1, <2>3, AboveOrder
  <2> QED BY <2>3, <2>4, AboveOrder
<1>2. SUFFICES ASSUME NEW x \in ({p} \union Below(p)) \intersect ({q} \union Below(q))
               PROVE  FALSE
  OBVIOUS
<1>3. x \in Paths /\ (x = p \/ p \in Above[x]) /\ (x = q \/ q \in Above[x])
  BY <1>2 DEF Below
<1>4. p \in Above[q] \/ q \in Above[p]
  BY <1>3, AboveOrder
<1> QED BY <1>1, <1>4

LEMMA Beneath ==
    ASSUME NEW p \in Paths, NEW d, Parent[p] = d
    PROVE  ({p} \union Below(p)) \subseteq Inside(d)
<1>1. CASE d = Top
  BY <1>1 DEF Inside, Below
<1>2. CASE d # Top
  <2>1. d \in Above[p] /\ d \in Paths
    BY <1>2, AboveFacts, TreeAssumption
  <2>2. ASSUME NEW x \in Below(p)
        PROVE  x \in Below(d)
    BY <2>1, <2>2, AboveOrder DEF Below
  <2> QED BY <1>2, <2>1, <2>2 DEF Inside, Below
<1> QED BY <1>1, <1>2

LEMMA ListingFacts ==
    ASSUME TreeInv, NEW d \in Paths \union {Top}
    PROVE  /\ Listing(d) \in SUBSET Entries
           /\ \A e \in Listing(d) : Span(e) \subseteq Inside(d)
           /\ \A e, f \in Listing(d) : e # f => Span(e) \intersect Span(f) = {}
<1>1. \A e \in Listing(d) : /\ e.path \in Paths /\ Parent[e.path] = d /\ IsThere(e.path)
                            /\ e = [path |-> e.path, kind |-> Node(e.path).kind]
  BY DEF Listing
<1>2. \A p \in Paths : IsThere(p) => Node(p).kind \in Kinds
  <2>1. \A p \in Paths : IsThere(p) => Node(p) \in Nodes
    BY DEF TreeInv, IsThere, Node
  <2> QED BY <2>1 DEF Nodes
<1>3. \A e \in Listing(d) : e \in Entries
  BY <1>2 DEF Entries, Listing
<1>4. ASSUME NEW e \in Listing(d)
      PROVE  Span(e) \subseteq Inside(d)
  BY <1>1, Beneath DEF Span
<1>5. ASSUME NEW e \in Listing(d), NEW f \in Listing(d), e # f
      PROVE  Span(e) \intersect Span(f) = {}
  <2>1. e.path # f.path
    BY <1>1, <1>5
  <2> QED BY <1>1, <2>1, Siblings DEF Span
<1> QED BY <1>3, <1>4, <1>5

-----------------------------------------------------------------------------
(* The directories the walk has open.                                      *)

LEMMA EntryIn ==
    ASSUME Here \in Frames, Here.entries # {}
    PROVE  Entry \in Here.entries
<1> DEFINE Ranks == {Position(e.path) : e \in Here.entries}
<1>1. \A e \in Here.entries : Position(e.path) \in Nat
  <2> TAKE e \in Here.entries
  <2>1. e.path \in Paths
    BY DEF Frames, Entries
  <2>2. \E i \in DOMAIN Order : Order[i] = e.path
    BY <2>1, OrderFacts
  <2>3. Position(e.path) \in DOMAIN Order
    BY <2>2 DEF Position
  <2> QED BY <2>3, OrderFacts
<1>2. Ranks \subseteq Nat /\ Ranks # {}
  BY <1>1
<1>3. PICK m \in Ranks : \A k \in Ranks : m <= k
  <2> HIDE DEF Ranks
  <2> QED BY <1>2, Least
<1>4. \E e \in Here.entries : \A other \in Here.entries : Position(e.path) <= Position(other.path)
  BY <1>3
<1> QED BY <1>4 DEF Entry

LEMMA Stacks ==
    ASSUME frames \in Seq(Frames), frames # <<>>
    PROVE  /\ Here \in Frames /\ Here = frames[1] /\ Here.entries \in SUBSET Entries
           /\ Passed \in Frames /\ Passed.entries = Here.entries \ {Entry}
           /\ LET t == Tail(frames) IN
                 /\ t \in Seq(Frames) /\ Len(t) = Len(frames) - 1
                 /\ \A k \in DOMAIN t : k + 1 \in DOMAIN frames /\ t[k] = frames[k + 1]
           /\ LET t == <<Passed>> \o Tail(frames) IN
                 /\ t \in Seq(Frames) /\ DOMAIN t = DOMAIN frames
                 /\ 1 \in DOMAIN t /\ t[1] = Passed /\ \A k \in DOMAIN t : k # 1 => t[k] = frames[k]
           /\ \A x \in Frames :
                 LET t == <<x, Passed>> \o Tail(frames) IN
                 /\ t \in Seq(Frames) /\ DOMAIN t = 1..(Len(frames) + 1)
                 /\ t[1] = x /\ t[2] = Passed
                 /\ \A k \in DOMAIN t : k \notin {1, 2} => k - 1 \in DOMAIN frames /\ t[k] = frames[k - 1]
<1>1. Here \in Frames /\ Here = frames[1] /\ Len(frames) \in Nat /\ Len(frames) > 0
  BY DEF Here
<1>2. /\ DOMAIN Here = {"dir", "policy", "entries"} /\ Here.entries \in SUBSET Entries
      /\ Here.dir \in Paths \union {Top} /\ Here.policy \in Nat
  BY <1>1 DEF Frames
<1>3. Passed = [dir |-> Here.dir, policy |-> Here.policy, entries |-> Here.entries \ {Entry}]
  <2>1. \A h \in Frames : \A S : [h EXCEPT !.entries = S] = [dir |-> h.dir, policy |-> h.policy, entries |-> S]
    BY DEF Frames
  <2>2. Passed = [Here EXCEPT !.entries = Here.entries \ {Entry}]
    BY DEF Passed
  <2> QED BY <1>1, <2>1, <2>2
<1>4. Passed \in Frames /\ Passed.entries = Here.entries \ {Entry}
  BY <1>2, <1>3 DEF Frames
<1> HIDE DEF Here, Passed
<1> DEFINE t == Tail(frames)
<1>5. t \in Seq(Frames) /\ Len(t) = Len(frames) - 1 /\ \A k \in 1..Len(t) : t[k] = frames[k + 1]
  OBVIOUS
<1>6. \A k \in DOMAIN t : k + 1 \in DOMAIN frames /\ t[k] = frames[k + 1]
  BY <1>1, <1>5
<1> HIDE DEF t
<1>7. LET u == <<Passed>> \o t IN
         /\ u \in Seq(Frames) /\ DOMAIN u = DOMAIN frames
         /\ 1 \in DOMAIN u /\ u[1] = Passed /\ \A k \in DOMAIN u : k # 1 => u[k] = frames[k]
  BY <1>1, <1>4, <1>5
<1>8. ASSUME NEW x \in Frames
      PROVE  LET u == <<x, Passed>> \o t IN
               /\ u \in Seq(Frames) /\ DOMAIN u = 1..(Len(frames) + 1)
               /\ u[1] = x /\ u[2] = Passed
               /\ \A k \in DOMAIN u : k \notin {1, 2} => k - 1 \in DOMAIN frames /\ u[k] = frames[k - 1]
  BY <1>1, <1>4, <1>5
<1> QED BY <1>1, <1>2, <1>4, <1>5, <1>6, <1>7, <1>8 DEF t

\* Less is left of every directory, and of fewer.
LEMMA ClearLess ==
    ASSUME NEW stack, NEW stack2, NEW spoken, NEW spoken2, NEW ahead, NEW ahead2,
           Clear(stack, spoken, ahead),
           NEW m \in [DOMAIN stack2 -> DOMAIN stack], IsInjective(m),
           \A k \in DOMAIN stack2 : stack2[k].entries \subseteq stack[m[k]].entries,
           ahead2 \subseteq ahead, spoken2 \intersect ahead2 = {},
           \A k \in DOMAIN stack2 : \A e \in stack2[k].entries : Span(e) \intersect (spoken2 \ spoken) = {}
    PROVE  Clear(stack2, spoken2, ahead2)
<1>1. ASSUME NEW k \in DOMAIN stack2, NEW e \in stack2[k].entries
      PROVE  Span(e) \intersect (spoken2 \union ahead2) = {}
  <2>1. Span(e) \intersect (spoken \union ahead) = {}
    BY <1>1 DEF Clear
  <2> QED BY <1>1, <2>1
<1>2. ASSUME NEW k \in DOMAIN stack2, NEW l \in DOMAIN stack2,
             NEW e \in stack2[k].entries, NEW f \in stack2[l].entries, <<k, e>> # <<l, f>>
      PROVE  Span(e) \intersect Span(f) = {}
  <2>1. <<m[k], e>> # <<m[l], f>>
    BY <1>2 DEF IsInjective
  <2> QED BY <1>2, <2>1 DEF Clear
<1> QED BY <1>1, <1>2 DEF Clear

\* A directory that is listed, from a subtree or from an entry.
LEMMA ClearMore ==
    ASSUME NEW stack, NEW spoken, NEW ahead, Clear(stack, spoken, ahead),
           NEW stack2, NEW m \in [DOMAIN stack2 \ {1} -> DOMAIN stack], IsInjective(m),
           1 \in DOMAIN stack2,
           \A k \in DOMAIN stack2 \ {1} : stack2[k] = stack[m[k]],
           \A e \in stack2[1].entries : Span(e) \intersect (spoken \union ahead) = {},
           \A e, f \in stack2[1].entries : e # f => Span(e) \intersect Span(f) = {},
           \A e \in stack2[1].entries : \A k \in DOMAIN stack : \A f \in stack[k].entries :
               Span(e) \intersect Span(f) = {}
    PROVE  Clear(stack2, spoken, ahead)
<1>1. ASSUME NEW k \in DOMAIN stack2, NEW e \in stack2[k].entries
      PROVE  Span(e) \intersect (spoken \union ahead) = {}
  BY <1>1 DEF Clear
<1>2. ASSUME NEW k \in DOMAIN stack2, NEW l \in DOMAIN stack2,
             NEW e \in stack2[k].entries, NEW f \in stack2[l].entries, <<k, e>> # <<l, f>>
      PROVE  Span(e) \intersect Span(f) = {}
  <2>1. CASE k # 1 /\ l # 1
    <3>1. <<m[k], e>> # <<m[l], f>>
      BY <1>2, <2>1 DEF IsInjective
    <3> QED BY <1>2, <2>1, <3>1 DEF Clear
  <2>2. CASE k = 1 /\ l = 1
    BY <1>2, <2>2
  <2>3. CASE k = 1 /\ l # 1
    BY <1>2, <2>3
  <2>4. CASE k # 1 /\ l = 1
    <3>1. Span(f) \intersect Span(e) = {}
      BY <1>2, <2>4
    <3> QED BY <3>1
  <2> QED BY <2>1, <2>2, <2>3, <2>4
<1> QED BY <1>1, <1>2 DEF Clear

\* An entry is passed, whether or not it was spoken for.
LEMMA ClearPassed ==
    ASSUME frames \in Seq(Frames), frames # <<>>, Here.entries # {},
           NEW spoken, NEW spoken2, NEW ahead, Clear(frames, spoken, ahead),
           spoken2 \subseteq spoken \union {Entry.path}
    PROVE  /\ Clear(<<Passed>> \o Tail(frames), spoken2, ahead)
           /\ Entry \in Entries /\ Entry.path \notin spoken
<1> DEFINE t == <<Passed>> \o Tail(frames)
           m == [k \in DOMAIN t |-> k]
<1>1. /\ DOMAIN t = DOMAIN frames /\ 1 \in DOMAIN t /\ t[1] = Passed
      /\ \A k \in DOMAIN t : k # 1 => t[k] = frames[k]
  BY Stacks
<1>2. Here = frames[1] /\ Passed.entries = Here.entries \ {Entry} /\ Entry \in Here.entries
  BY Stacks, EntryIn
<1>3. Entry \in Entries
  BY <1>2, Stacks
<1>4. Entry.path \notin spoken /\ Entry.path \notin ahead
  <2>1. Entry.path \in Span(Entry)
    BY DEF Span
  <2> QED BY <1>1, <1>2, <2>1 DEF Clear
<1> HIDE DEF t
<1>5. m \in [DOMAIN t -> DOMAIN frames] /\ IsInjective(m)
  BY <1>1 DEF IsInjective
<1>6. \A k \in DOMAIN t : t[k].entries \subseteq frames[m[k]].entries
  BY <1>1, <1>2
<1>7. ASSUME NEW k \in DOMAIN t, NEW e \in t[k].entries
      PROVE  Span(e) \intersect (spoken2 \ spoken) = {}
  <2>1. <<k, e>> # <<1, Entry>> /\ k \in DOMAIN frames /\ e \in frames[k].entries
    BY <1>1, <1>2, <1>7
  <2>2. Span(e) \intersect Span(Entry) = {}
    BY <1>1, <1>2, <2>1 DEF Clear
  <2> QED BY <2>2 DEF Span
<1>8. spoken2 \intersect ahead = {}
  BY <1>4 DEF Clear
<1> HIDE DEF m
<1>9. Clear(t, spoken2, ahead)
  BY <1>5, <1>6, <1>7, <1>8, ClearLess
<1> QED BY <1>3, <1>4, <1>9 DEF t

-----------------------------------------------------------------------------
(* The phases up to the pool.                                              *)

LEMMA Rows ==
    ASSUME NEW ls \in Seq(Leaves)
    PROVE  /\ DOMAIN ls = 1..Len(ls) /\ Len(ls) \in Nat
           /\ \A i \in DOMAIN ls : ls[i] \in Leaves /\ ls[i].path \in Paths
<1>1. \A l \in Leaves : l.path \in Paths
  BY DEF Leaves
<1> QED BY <1>1

LEMMA BufferStep == IInv /\ Buffer => IInv'
<1> SUFFICES ASSUME IInv, Buffer PROVE IInv'
  OBVIOUS
<1>1. /\ pc \in Early /\ UNCHANGED <<session, disk, at, named, frames, leaves, files>>
      /\ pc' \in Early \union {"walk"} /\ job' \in Nat \ {0}
  BY DEF IInv, TypeInv, Buffer, CollectDB, BufferDBFile, PackagesDone, BufferPath, BuffersDone,
         Phase, Early, treeVars
<1>2. files = {} /\ leaves = <<>> /\ frames = <<>>
  BY <1>1 DEF IInv, WalkInv
<1>3. pc' \notin Late
  BY <1>1 DEF Early, Late
<1>4. TreeInv'
  BY <1>1 DEF IInv, TreeInv, Names
<1>5. TypeInv'
  BY <1>1, <1>3 DEF IInv, TypeInv
<1>6. Clear(frames', Spoken(files', leaves'), Ahead(job)')
  BY <1>1, <1>2 DEF Clear, Spoken, Range
<1>7. WalkInv'
  BY <1>1, <1>2, <1>6 DEF WalkInv
<1>8. FilesInv' /\ LeavesInv' /\ DescriptorsInv'
  BY <1>1, <1>2, <1>3 DEF FilesInv, LeavesInv, DescriptorsInv
<1> QED BY <1>4, <1>5, <1>7, <1>8 DEF IInv

\* A path is spoken for: a record, or a place in the queue.
Speaks(p) ==
    \/ UNCHANGED <<files, leaves>>
    \/ leaves' = leaves /\ \E f : files' = files \union {f} /\ f.path = p /\ Found(f, named)
    \/ files' = files /\ \E l \in Leaves : l.path = p /\ leaves' = Append(leaves, l)

LEMMA SpeakOnce ==
    ASSUME IInv, pc = "walk", pc' = "walk", UNCHANGED named,
           NEW p \in Paths, p \notin Spoken(files, leaves), Speaks(p)
    PROVE  /\ Spoken(files', leaves') \subseteq Spoken(files, leaves) \union {p}
           /\ FilesInv' /\ LeavesInv' /\ leaves' \in Seq(Leaves)
<1>1. /\ leaves \in Seq(Leaves) /\ FilesInv /\ LeavesInv /\ pc \notin Late /\ pc' \notin Late
      /\ DOMAIN leaves = 1..Len(leaves) /\ Len(leaves) \in Nat
  BY DEF IInv, TypeInv, Late
<1>2. /\ Undescribed(p) /\ \A i \in DOMAIN leaves : leaves[i].path # p
  BY DEF Spoken, Undescribed, Range
<1>3. \A i \in DOMAIN leaves : Undescribed(leaves[i].path)
  BY <1>1 DEF LeavesInv
<1>4. CASE UNCHANGED <<files, leaves>>
  BY <1>1, <1>3, <1>4 DEF FilesInv, LeavesInv, Undescribed, Spoken
<1>5. CASE leaves' = leaves /\ \E f : files' = files \union {f} /\ f.path = p /\ Found(f, named)
  <2>1. PICK f : files' = files \union {f} /\ f.path = p /\ Found(f, named)
    BY <1>5
  <2>2. Spoken(files', leaves') \subseteq Spoken(files, leaves) \union {p}
    BY <1>5, <2>1 DEF Spoken
  <2>3. FilesInv'
    <3>1. \A g, h \in files' : g.path = h.path => g = h
      BY <1>1, <1>2, <2>1 DEF FilesInv, Undescribed
    <3>2. \A g \in files' : Found(g, named)
      BY <1>1, <2>1 DEF FilesInv
    <3> QED BY <3>1, <3>2 DEF FilesInv
  <2>4. \A i \in DOMAIN leaves' : \A g \in files' : g.path # leaves'[i].path
    BY <1>2, <1>3, <1>5, <2>1 DEF Undescribed
  <2>5. LeavesInv'
    BY <1>1, <1>5, <2>4 DEF LeavesInv, Undescribed
  <2> QED BY <1>1, <1>5, <2>2, <2>3, <2>5
<1>6. CASE files' = files /\ \E l \in Leaves : l.path = p /\ leaves' = Append(leaves, l)
  <2>1. PICK l \in Leaves : l.path = p /\ leaves' = Append(leaves, l)
    BY <1>6
  <2>2. /\ leaves' \in Seq(Leaves) /\ DOMAIN leaves' = 1..(Len(leaves) + 1)
        /\ \A i \in DOMAIN leaves' : \/ i \in DOMAIN leaves /\ leaves'[i] = leaves[i]
                                     \/ i = Len(leaves) + 1 /\ leaves'[i] = l
    BY <1>1, <2>1
  <2>3. Spoken(files', leaves') \subseteq Spoken(files, leaves) \union {p}
    <3>1. \A x \in Range(leaves') : x \in Range(leaves) \/ x = l
      BY <2>2 DEF Range
    <3> QED BY <1>6, <2>1, <3>1 DEF Spoken
  <2>4. \A i, j \in DOMAIN leaves' : leaves'[i].path = leaves'[j].path => i = j
    BY <1>1, <1>2, <2>1, <2>2 DEF LeavesInv
  <2>5. \A i \in DOMAIN leaves' : Undescribed(leaves'[i].path)
    BY <1>2, <1>3, <2>1, <2>2
  <2>6. FilesInv' /\ LeavesInv'
    BY <1>1, <1>6, <2>4, <2>5 DEF FilesInv, LeavesInv, Undescribed
  <2> QED BY <2>2, <2>3, <2>6
<1> QED BY <1>4, <1>5, <1>6 DEF Speaks

\* A step of the walk.
LEMMA WalkKeeps ==
    ASSUME IInv, pc = "walk", pc' = "walk", job' \in Nat \ {0}, UNCHANGED <<session, treeVars>>,
           FilesInv', LeavesInv', leaves' \in Seq(Leaves), frames' \in Seq(Frames),
           Clear(frames', Spoken(files', leaves'), Ahead(job)')
    PROVE  IInv'
<1>1. pc' \notin Early /\ pc' \notin Late
  BY DEF Early, Late
<1>2. TreeInv'
  BY DEF IInv, TreeInv, Names, treeVars
<1>3. TypeInv' /\ WalkInv' /\ DescriptorsInv'
  BY <1>1 DEF TypeInv, WalkInv, DescriptorsInv
<1> QED BY <1>2, <1>3 DEF IInv

LEMMA PassStep ==
    ASSUME IInv, Walking, UNCHANGED <<session, treeVars, pc, job>>, Speaks(Entry.path),
           frames' = <<Passed>> \o Tail(frames)
    PROVE  IInv'
<1>1. /\ pc = "walk" /\ frames # <<>> /\ Here.entries # {} /\ frames \in Seq(Frames)
      /\ job \in Nat \ {0} /\ Clear(frames, Spoken(files, leaves), Ahead(job))
  BY DEF IInv, TypeInv, WalkInv, Walking
<1>2. Entry \in Entries /\ Entry.path \notin Spoken(files, leaves)
  BY <1>1, ClearPassed
<1>3. Entry.path \in Paths /\ UNCHANGED named /\ pc' = "walk"
  BY <1>1, <1>2 DEF Entries, treeVars
<1>4. /\ Spoken(files', leaves') \subseteq Spoken(files, leaves) \union {Entry.path}
      /\ FilesInv' /\ LeavesInv' /\ leaves' \in Seq(Leaves)
  BY <1>1, <1>2, <1>3, SpeakOnce
<1>5. Ahead(job)' = Ahead(job)
  BY DEF Ahead, Subtrees
<1>6. Clear(frames', Spoken(files', leaves'), Ahead(job)')
  BY <1>1, <1>4, <1>5, ClearPassed
<1>7. frames' \in Seq(Frames)
  BY <1>1, Stacks
<1> QED BY <1>1, <1>3, <1>4, <1>6, <1>7, WalkKeeps

LEMMA DropStep ==
    ASSUME IInv, pc = "walk", frames # <<>>, UNCHANGED <<session, treeVars, pc, job, files, leaves>>,
           frames' = Tail(frames)
    PROVE  IInv'
<1>1. /\ frames \in Seq(Frames) /\ job \in Nat \ {0}
      /\ Clear(frames, Spoken(files, leaves), Ahead(job)) /\ leaves \in Seq(Leaves)
      /\ FilesInv /\ LeavesInv /\ pc \notin Late
  BY DEF IInv, TypeInv, WalkInv, Late
<1> DEFINE t == Tail(frames)
           m == [k \in DOMAIN t |-> k + 1]
<1>2. t \in Seq(Frames) /\ \A k \in DOMAIN t : k + 1 \in DOMAIN frames /\ t[k] = frames[k + 1]
  BY <1>1, Stacks
<1>3. \A k, l \in DOMAIN t : k + 1 = l + 1 => k = l
  BY <1>2
<1> HIDE DEF t
<1>4. m \in [DOMAIN t -> DOMAIN frames] /\ IsInjective(m)
  BY <1>2, <1>3 DEF IsInjective
<1>5. \A k \in DOMAIN t : t[k].entries \subseteq frames[m[k]].entries
  BY <1>2
<1>6. Clear(t, Spoken(files, leaves), Ahead(job))
  <2>1. Spoken(files, leaves) \intersect Ahead(job) = {}
    BY <1>1 DEF Clear
  <2> HIDE DEF m
  <2> QED BY <1>1, <1>4, <1>5, <2>1, ClearLess
<1>7. Ahead(job)' = Ahead(job) /\ Spoken(files', leaves') = Spoken(files, leaves)
  BY DEF Ahead, Subtrees
<1>8. FilesInv' /\ LeavesInv'
  BY <1>1 DEF FilesInv, LeavesInv, Undescribed, treeVars
<1> QED BY <1>1, <1>2, <1>6, <1>7, <1>8, WalkKeeps DEF t

LEMMA SubtreesFacts ==
    ASSUME TreeInv
    PROVE  /\ DOMAIN Subtrees = 1..Len(Subtrees) /\ Len(Subtrees) \in Nat
           /\ \A i \in DOMAIN Subtrees : Subtrees[i] \in Paths \union {Top}
           /\ \A i, j \in DOMAIN Subtrees : i # j => Inside(Subtrees[i]) \intersect Inside(Subtrees[j]) = {}
<1>1. /\ Subtrees \in Seq(Paths \union {Top})
      /\ \A i, j \in DOMAIN Subtrees : i # j => Inside(Subtrees[i]) \intersect Inside(Subtrees[j]) = {}
  BY SessionsAssumption DEF TreeInv, Subtrees
<1> HIDE DEF Subtrees
<1> QED BY <1>1

LEMMA FrameType ==
    ASSUME TreeInv, NEW d \in Paths \union {Top}, NEW policy \in Nat
    PROVE  Frame(d, policy) \in Frames /\ Frame(d, policy).entries = Listing(d)
BY ListingFacts DEF Frame, Frames

LEMMA DescendStep ==
    ASSUME IInv, Walking, UNCHANGED <<session, treeVars, pc, job>>, Speaks(Entry.path),
           NEW policy \in Nat,
           frames' = <<Frame(Entry.path, policy), Passed>> \o Tail(frames)
    PROVE  IInv'
<1> DEFINE d == Entry.path
           x == Frame(d, policy)
           stack == <<Passed>> \o Tail(frames)
           stack2 == <<x, Passed>> \o Tail(frames)
           m == [k \in DOMAIN stack2 \ {1} |-> k - 1]
           spoken == Spoken(files', leaves')
<1>1. /\ pc = "walk" /\ frames # <<>> /\ Here.entries # {} /\ frames \in Seq(Frames)
      /\ job \in Nat \ {0} /\ Clear(frames, Spoken(files, leaves), Ahead(job)) /\ TreeInv
  BY DEF IInv, TypeInv, WalkInv, Walking
<1>2. Entry \in Entries /\ Entry.path \notin Spoken(files, leaves) /\ Entry \in Here.entries
  BY <1>1, ClearPassed, EntryIn, Stacks
<1>3. d \in Paths /\ UNCHANGED named /\ pc' = "walk"
  BY <1>1, <1>2 DEF Entries, treeVars
<1>4. /\ spoken \subseteq Spoken(files, leaves) \union {d}
      /\ FilesInv' /\ LeavesInv' /\ leaves' \in Seq(Leaves)
  BY <1>1, <1>2, <1>3, SpeakOnce
<1>5. Ahead(job)' = Ahead(job)
  BY DEF Ahead, Subtrees
<1>6. Clear(stack, spoken, Ahead(job))
  BY <1>1, <1>4, ClearPassed
<1>7. x \in Frames /\ x.entries = Listing(d)
  BY <1>1, <1>3, FrameType
<1>8. /\ DOMAIN stack = DOMAIN frames /\ 1 \in DOMAIN stack /\ stack[1] = Passed
      /\ \A k \in DOMAIN stack : k # 1 => stack[k] = frames[k]
      /\ Here = frames[1] /\ Passed.entries = Here.entries \ {Entry}
  BY <1>1, Stacks
<1>9. /\ stack2 \in Seq(Frames) /\ DOMAIN stack2 = 1..(Len(frames) + 1)
      /\ stack2[1] = x /\ stack2[2] = Passed
      /\ \A k \in DOMAIN stack2 : k \notin {1, 2} => k - 1 \in DOMAIN frames /\ stack2[k] = frames[k - 1]
  BY <1>1, <1>7, Stacks
<1>10. DOMAIN frames = 1..Len(frames) /\ Len(frames) \in Nat
  BY <1>1
<1> HIDE DEF stack, stack2, x
<1>11. /\ m \in [DOMAIN stack2 \ {1} -> DOMAIN stack] /\ IsInjective(m) /\ 1 \in DOMAIN stack2
       /\ \A k \in DOMAIN stack2 \ {1} : stack2[k] = stack[m[k]]
  <2>1. \A k \in DOMAIN stack2 \ {1} : k - 1 \in DOMAIN stack /\ stack2[k] = stack[k - 1]
    BY <1>8, <1>9, <1>10
  <2>2. \A k, l \in DOMAIN stack2 \ {1} : k - 1 = l - 1 => k = l
    BY <1>9, <1>10
  <2> QED BY <1>9, <1>10, <2>1, <2>2 DEF IsInjective
<1>12. \A e \in x.entries : Span(e) \subseteq Below(d)
  <2>1. d # Top
    BY <1>3, TreeAssumption
  <2> QED BY <1>1, <1>3, <1>7, <2>1, ListingFacts DEF Inside
<1>13. d \notin Below(d) /\ Below(d) \subseteq Span(Entry)
  BY <1>3, AboveOrder DEF Below, Span
<1>14. \A e \in x.entries : Span(e) \intersect (spoken \union Ahead(job)) = {}
  <2>1. Span(Entry) \intersect (Spoken(files, leaves) \union Ahead(job)) = {}
    BY <1>1, <1>2, <1>8 DEF Clear
  <2> HIDE DEF d, spoken
  <2> QED BY <1>4, <1>12, <1>13, <2>1
<1>15. \A e \in x.entries : \A k \in DOMAIN stack : \A f \in stack[k].entries : Span(e) \intersect Span(f) = {}
  <2> SUFFICES ASSUME NEW e \in x.entries, NEW k \in DOMAIN stack, NEW f \in stack[k].entries
               PROVE  Span(e) \intersect Span(f) = {}
    OBVIOUS
  <2>1. <<1, Entry>> # <<k, f>> /\ k \in DOMAIN frames /\ f \in frames[k].entries /\ 1 \in DOMAIN frames
    BY <1>8
  <2>2. Span(Entry) \intersect Span(f) = {}
    BY <1>1, <1>2, <1>8, <2>1 DEF Clear
  <2> QED BY <1>12, <1>13, <2>2
<1>16. \A e, f \in x.entries : e # f => Span(e) \intersect Span(f) = {}
  BY <1>1, <1>3, <1>7, ListingFacts
<1>17. Clear(stack2, spoken, Ahead(job))
  <2>1. /\ \A e \in stack2[1].entries : Span(e) \intersect (spoken \union Ahead(job)) = {}
        /\ \A e, f \in stack2[1].entries : e # f => Span(e) \intersect Span(f) = {}
        /\ \A e \in stack2[1].entries : \A k \in DOMAIN stack : \A f \in stack[k].entries :
              Span(e) \intersect Span(f) = {}
    BY <1>9, <1>14, <1>15, <1>16
  <2> HIDE DEF m, spoken
  <2> QED BY <1>6, <1>11, <2>1, ClearMore
<1>18. frames' = stack2
  BY DEF stack2, x
<1> QED BY <1>1, <1>3, <1>4, <1>5, <1>9, <1>17, <1>18, WalkKeeps

LEMMA EnterStep == IInv /\ EnterSubtree => IInv'
<1> SUFFICES ASSUME IInv, EnterSubtree PROVE IInv'
  OBVIOUS
<1> DEFINE d == Subtrees[job]
<1>1. /\ pc = "walk" /\ pc' = "walk" /\ frames = <<>> /\ job <= Len(Subtrees) /\ job' = job + 1
      /\ UNCHANGED <<session, treeVars, files, leaves>>
      /\ frames' = frames \/ \E policy \in Nat : frames' = <<Frame(d, policy)>>
  BY DEF EnterSubtree, HashNever, HashAlways
<1>2. /\ job \in Nat \ {0} /\ TreeInv /\ FilesInv /\ LeavesInv /\ pc \notin Late
      /\ Clear(frames, Spoken(files, leaves), Ahead(job)) /\ leaves \in Seq(Leaves)
  BY <1>1 DEF IInv, TypeInv, WalkInv, Late
<1>3. /\ DOMAIN Subtrees = 1..Len(Subtrees) /\ Len(Subtrees) \in Nat /\ d \in Paths \union {Top}
      /\ \A i, j \in DOMAIN Subtrees : i # j => Inside(Subtrees[i]) \intersect Inside(Subtrees[j]) = {}
      /\ job \in DOMAIN Subtrees
  BY <1>1, <1>2, SubtreesFacts
<1>4. FilesInv' /\ LeavesInv' /\ leaves' \in Seq(Leaves) /\ job' \in Nat \ {0}
  BY <1>1, <1>2 DEF FilesInv, LeavesInv, Undescribed, treeVars
<1>5. Ahead(job)' = Ahead(job + 1) /\ Spoken(files', leaves') = Spoken(files, leaves)
  BY <1>1 DEF Ahead, Subtrees
<1>6. Ahead(job + 1) \subseteq Ahead(job) /\ Inside(d) \subseteq Ahead(job)
  BY <1>1, <1>2, <1>3 DEF Ahead
<1>7. Inside(d) \intersect Ahead(job + 1) = {}
  <2> SUFFICES ASSUME NEW i \in (job + 1)..Len(Subtrees)
               PROVE  Inside(d) \intersect Inside(Subtrees[i]) = {}
    BY DEF Ahead
  <2>1. i \in DOMAIN Subtrees /\ i # job
    BY <1>2, <1>3
  <2> QED BY <1>3, <2>1
<1>8. Spoken(files, leaves) \intersect Ahead(job) = {}
  BY <1>2 DEF Clear
<1>9. CASE frames' = frames
  <2>1. Clear(frames', Spoken(files', leaves'), Ahead(job)')
    <3>1. DOMAIN frames' = {}
      BY <1>1, <1>9
    <3> QED BY <1>5, <1>6, <1>8, <3>1 DEF Clear
  <2>2. frames' \in Seq(Frames)
    BY <1>1, <1>9
  <2> QED BY <1>1, <1>4, <2>1, <2>2, WalkKeeps
<1>10. ASSUME NEW policy \in Nat, frames' = <<Frame(d, policy)>>
       PROVE  IInv'
  <2>1. Frame(d, policy) \in Frames /\ Frame(d, policy).entries = Listing(d)
    BY <1>2, <1>3, FrameType
  <2>2. /\ \A e \in Listing(d) : Span(e) \subseteq Inside(d)
        /\ \A e, f \in Listing(d) : e # f => Span(e) \intersect Span(f) = {}
    BY <1>2, <1>3, ListingFacts
  <2>3. frames' \in Seq(Frames) /\ DOMAIN frames' = {1} /\ frames'[1].entries = Listing(d)
    BY <1>10, <2>1
  <2> HIDE DEF d
  <2>4. \A e \in Listing(d) : Span(e) \intersect (Spoken(files, leaves) \union Ahead(job + 1)) = {}
    BY <1>6, <1>7, <1>8, <2>2
  <2>5. Spoken(files, leaves) \intersect Ahead(job + 1) = {}
    BY <1>6, <1>8
  <2>6. Clear(frames', Spoken(files, leaves), Ahead(job + 1))
    BY <2>2, <2>3, <2>4, <2>5 DEF Clear
  <2>7. Clear(frames', Spoken(files', leaves'), Ahead(job)')
    BY <1>5, <2>6
  <2> QED BY <1>1, <1>4, <2>3, <2>7, WalkKeeps
<1> QED BY <1>1, <1>9, <1>10

LEMMA StepsOfWalk == IInv /\ (SkipEntry \/ StopWalk \/ WalkChildDir \/ QueueFile \/ RecordEntry \/ LeaveDir)
                        => IInv'
<1> SUFFICES ASSUME IInv, SkipEntry \/ StopWalk \/ WalkChildDir \/ QueueFile \/ RecordEntry \/ LeaveDir
             PROVE  IInv'
  OBVIOUS
<1>w. pc = "walk"
  BY DEF SkipEntry, StopWalk, WalkChildDir, QueueFile, RecordEntry, LeaveDir, Counted, Walking
<1>0. ~done /\ frames \in Seq(Frames) /\ \A p, n : FileFromStat(p, "dir", n).path = p
  BY <1>w DEF done, IInv, TypeInv, FileFromStat
<1>1. SkipEntry => IInv'
  BY PassStep DEF SkipEntry, Speaks
<1>2. StopWalk => IInv'
  BY <1>w, DropStep DEF StopWalk, Walking
<1>3. LeaveDir => IInv'
  BY <1>w, DropStep DEF LeaveDir
<1>4. Walking => Entry \in Entries /\ Here.policy \in Nat /\ Here.entries # {}
  <2> SUFFICES ASSUME Walking PROVE Entry \in Entries /\ Here.policy \in Nat /\ Here.entries # {}
    OBVIOUS
  <2>1. Here.entries # {} /\ frames # <<>>
    BY DEF Walking
  <2>2. Here \in Frames /\ Here.entries \in SUBSET Entries
    BY <1>0, <2>1, Stacks
  <2>3. Entry \in Here.entries
    BY <2>1, <2>2, EntryIn
  <2> QED BY <2>1, <2>2, <2>3 DEF Frames
<1>5. QueueFile => IInv'
  <2> SUFFICES ASSUME QueueFile PROVE IInv'
    OBVIOUS
  <2>1. Walking /\ frames' = <<Passed>> \o Tail(frames) /\ UNCHANGED <<session, treeVars, pc, job>>
    BY DEF QueueFile, Counted
  <2>2. Entry.path \in Paths /\ Here.policy \in Nat
    BY <1>4, <2>1 DEF Entries
  <2>3. [path |-> Entry.path, policy |-> Here.policy, recorded |-> FALSE] \in Leaves
    BY <2>2 DEF Leaves
  <2>4. Speaks(Entry.path)
    BY <2>3 DEF Speaks, QueueFile
  <2> QED BY <2>1, <2>4, PassStep
<1>6. WalkChildDir => IInv'
  <2> SUFFICES ASSUME WalkChildDir PROVE IInv'
    OBVIOUS
  <2> DEFINE d == Entry.path
             f == FileFromStat(d, "dir", Node(d))
  <2>1. /\ Walking /\ UNCHANGED <<session, treeVars, pc, job, leaves>>
        /\ \/ files' = files \union {f} /\ frames' = <<Frame(d, Here.policy), Passed>> \o Tail(frames)
           \/ files' = files \union {f} /\ frames' = <<Passed>> \o Tail(frames)
           \/ files' = files /\ frames' = <<Passed>> \o Tail(frames)
    BY <1>0 DEF WalkChildDir, Counted, AddFile
  <2>2. f.path = d /\ Found(f, named)
    BY DEF FileFromStat, Found, FileKinds, Kinds
  <2>3. Speaks(d)
    BY <2>1, <2>2 DEF Speaks
  <2>4. Here.policy \in Nat
    BY <1>4, <2>1
  <2> HIDE DEF f
  <2> QED BY <2>1, <2>3, <2>4, PassStep, DescendStep
<1>7. RecordEntry => IInv'
  <2> SUFFICES ASSUME RecordEntry PROVE IInv'
    OBVIOUS
  <2> DEFINE p == Entry.path
             record == FileFromStat(p, Entry.kind, Node(p))
             f == IF Entry.kind = "link" THEN [record EXCEPT !.text = Node(p).text] ELSE record
  <2>1. /\ Walking /\ UNCHANGED <<session, treeVars, pc, job, leaves>> /\ frames' = <<Passed>> \o Tail(frames)
        /\ Entry.kind \in {"link", "other"}
        /\ \/ (Entry.kind = "link" => Is(p, "link")) /\ files' = files \union {f}
           \/ files' = files
    BY <1>0 DEF RecordEntry, Counted, AddFile
  <2>2. f.path = p
    BY DEF FileFromStat
  <2>3. p \in Paths
    BY <1>4, <2>1 DEF Entries
  <2>4. (Entry.kind = "link" => Is(p, "link")) => Found(f, named)
    <3>1. CASE Entry.kind = "other"
      BY <3>1 DEF Found, FileFromStat, FileKinds, Kinds
    <3>2. CASE Entry.kind = "link" /\ Is(p, "link")
      <4>1. <<p, Node(p)>> \in named /\ Node(p).kind = "link"
        BY <2>3, <3>2 DEF IInv, TreeInv, Names, Is, IsThere, Node
      <4>2. f.kind = "link" /\ f.text = Node(p).text
        BY <3>2 DEF FileFromStat
      <4>3. <<p, Node(p)>>[1] = p /\ <<p, Node(p)>>[2] = Node(p)
        OBVIOUS
      <4> HIDE DEF f
      <4> QED BY <2>2, <4>1, <4>2, <4>3 DEF Found, FileKinds, Kinds
    <3> QED BY <2>1, <3>1, <3>2
  <2>5. Speaks(p)
    <3> HIDE DEF f
    <3> QED BY <2>1, <2>2, <2>4 DEF Speaks
  <2> QED BY <2>1, <2>5, PassStep
<1> QED BY <1>1, <1>2, <1>3, <1>5, <1>6, <1>7

-----------------------------------------------------------------------------
(* The recorded paths, and the pool.                                       *)

LEMMA RecordedType == TreeInv => RecordedPaths \in Seq(Paths)
<1> SUFFICES ASSUME TreeInv PROVE RecordedPaths \in Seq(Paths)
  OBVIOUS
<1> DEFINE pk == session.pkgs
           lists == [k \in DOMAIN pk |-> IF HasFileList(k) THEN pk[k].recorded ELSE <<>>]
<1>1. pk \in Seq(Packages)
  BY SessionsAssumption DEF TreeInv
<1>2. \A k \in Packages : k.recorded \in Seq(Paths)
  BY DEF Packages
<1> HIDE DEF pk
<1>3. DOMAIN pk = 1..Len(pk) /\ Len(pk) \in Nat /\ \A k \in DOMAIN pk : pk[k].recorded \in Seq(Paths)
  BY <1>1, <1>2
<1>4. <<>> \in Seq(Paths)
  OBVIOUS
<1>5. lists \in [1..Len(pk) -> Seq(Paths)]
  BY <1>3, <1>4
<1>6. lists \in Seq(Seq(Paths))
  <2> HIDE DEF lists
  <2> QED BY <1>3, <1>5
<1>7. FlattenSeq(lists) \in Seq(Paths)
  <2> HIDE DEF lists
  <2> QED BY <1>6, FlattenType
<1> QED BY <1>7 DEF RecordedPaths, pk

\* A queue without two places for one path, nor one for a path with a record,
\* that begins with what the walk queued.
Queues == {ls \in Seq(Leaves) :
             /\ \A i \in DOMAIN leaves : i \in DOMAIN ls /\ ls[i].path = leaves[i].path
             /\ \A i, j \in DOMAIN ls : ls[i].path = ls[j].path => i = j
             /\ \A i \in DOMAIN ls : Undescribed(ls[i].path)}

LEMMA AddRecordedIn ==
    ASSUME NEW ls \in Queues, NEW p \in Paths
    PROVE  AddRecorded(ls, p) \in Queues
<1> DEFINE policy == CollectPolicy(session.tier)
<1>1. policy \in Nat
  BY DEF CollectPolicy, HashNever, HashIfSecurity, HashAlways
<1> HIDE DEF policy
<1>2. /\ ls \in Seq(Leaves)
      /\ \A i, j \in DOMAIN ls : ls[i].path = ls[j].path => i = j
      /\ \A i \in DOMAIN ls : Undescribed(ls[i].path)
      /\ \A i \in DOMAIN leaves : i \in DOMAIN ls /\ ls[i].path = leaves[i].path
  BY DEF Queues
<1>3. DOMAIN ls = 1..Len(ls) /\ Len(ls) \in Nat /\ \A i \in DOMAIN ls : ls[i] \in Leaves
  BY <1>2, Rows
<1>4. CASE IsQueued(ls, p)
  <2> DEFINE at0 == LeafOf(ls, p)
             l == Raise(ls[at0], policy)
             ls2 == [ls EXCEPT ![at0] = l]
  <2>1. at0 \in DOMAIN ls
    BY <1>4 DEF IsQueued, LeafOf
  <2>2. ls[at0] \in Leaves
    BY <1>3, <2>1
  <2>3. \A x \in Leaves : Raise(x, policy) \in Leaves /\ Raise(x, policy).path = x.path
    BY <1>1 DEF Raise, Leaves
  <2>4. l \in Leaves /\ l.path = ls[at0].path
    BY <2>2, <2>3
  <2> HIDE DEF at0, l
  <2>5. DOMAIN ls2 = DOMAIN ls /\ \A i \in DOMAIN ls : ls2[i] = IF i = at0 THEN l ELSE ls[i]
    BY <2>1
  <2>6. ls2 \in Seq(Leaves)
    <3>1. ls2 \in [1..Len(ls) -> Leaves]
      BY <1>3, <2>4
    <3> QED BY <1>3, <3>1
  <2>7. \A i \in DOMAIN ls : ls2[i].path = ls[i].path
    BY <2>4, <2>5
  <2> HIDE DEF ls2
  <2>8. ls2 \in Queues
    BY <1>2, <2>5, <2>6, <2>7 DEF Queues
  <2>9. AddRecorded(ls, p) = ls2
    BY <1>4 DEF AddRecorded, ls2, l, at0, policy
  <2> QED BY <2>8, <2>9
<1>5. CASE ~IsQueued(ls, p) /\ Described(p)
  BY <1>5 DEF AddRecorded
<1>6. CASE ~IsQueued(ls, p) /\ ~Described(p)
  <2> DEFINE l == [path |-> p, policy |-> policy, recorded |-> TRUE]
             ls2 == Append(ls, l)
  <2>1. l \in Leaves /\ l.path = p
    BY <1>1 DEF Leaves
  <2> HIDE DEF l
  <2>2. /\ ls2 \in Seq(Leaves) /\ DOMAIN ls2 = 1..(Len(ls) + 1)
        /\ \A i \in DOMAIN ls2 : \/ i \in DOMAIN ls /\ ls2[i] = ls[i]
                                 \/ i = Len(ls) + 1 /\ ls2[i] = l
    BY <1>2, <1>3, <2>1
  <2>3. \A i \in DOMAIN ls : ls[i].path # p
    BY <1>6 DEF IsQueued
  <2>4. Undescribed(p)
    BY <1>6 DEF Described, Undescribed
  <2> HIDE DEF ls2
  <2>5. \A i, j \in DOMAIN ls2 : ls2[i].path = ls2[j].path => i = j
    BY <1>2, <2>1, <2>2, <2>3
  <2>6. \A i \in DOMAIN ls2 : Undescribed(ls2[i].path)
    BY <1>2, <2>1, <2>2, <2>4
  <2>7. AddRecorded(ls, p) = ls2
    BY <1>6 DEF AddRecorded, ls2, l, policy
  <2>8. \A i \in DOMAIN leaves : i \in DOMAIN ls2 /\ ls2[i].path = leaves[i].path
    <3>1. \A i \in DOMAIN ls : i \in DOMAIN ls2 /\ ls2[i] = ls[i]
      BY <1>3, <2>2
    <3> QED BY <1>2, <3>1
  <2> QED BY <2>2, <2>5, <2>6, <2>7, <2>8 DEF Queues
<1> QED BY <1>4, <1>5, <1>6

LEMMA WithRecordedIn ==
    ASSUME leaves \in Queues, RecordedPaths \in Seq(Paths)
    PROVE  WithRecorded \in Queues
<1> DEFINE R == RecordedPaths
           n == Len(R)
           Next0(A) == [i \in 0..n |-> IF i = 0 THEN leaves ELSE AddRecorded(A[i - 1], R[i])]
           A1 == CHOOSE A : A = Next0(A)
           S0 == [i \in 1..n |-> [ls \in Queues |-> AddRecorded(ls, R[i])]]
<1>1. n \in Nat /\ \A i \in 1..n : R[i] \in Paths
  <2> HIDE DEF R
  <2> QED BY DEF R
<1>2. S0 \in [1..n -> [Queues -> Queues]]
  BY <1>1, AddRecordedIn
<1> HIDE DEF R
<1>3. PICK f \in [0..n -> Queues] : Iterates(f, n, leaves, S0)
  <2> HIDE DEF S0
  <2> QED BY <1>1, <1>2, IterateExists
<1>4. f = Next0(f)
  <2>1. ASSUME NEW i \in 0..n
        PROVE  f[i] = IF i = 0 THEN leaves ELSE AddRecorded(f[i - 1], R[i])
    <3>1. f[i] = IF i = 0 THEN leaves ELSE S0[i][f[i - 1]]
      <4> HIDE DEF S0
      <4> QED BY <1>3 DEF Iterates
    <3>2. i # 0 => i \in 1..n /\ f[i - 1] \in Queues
      BY <1>1
    <3>3. i # 0 => S0[i][f[i - 1]] = AddRecorded(f[i - 1], R[i])
      BY <3>2
    <3> HIDE DEF S0
    <3> QED BY <3>1, <3>3
  <2> QED BY <2>1
<1>5. A1 = Next0(A1)
  BY <1>4
<1>6. WithRecorded = A1[n]
  BY DEF WithRecorded, R
<1> HIDE DEF A1, S0
<1> DEFINE P == {i \in 0..n : A1[i] \in Queues}
<1>7. 0 \in P
  BY <1>1, <1>5
<1>8. ASSUME NEW i \in Nat, i < n, i \in P
      PROVE  i + 1 \in P
  <2>1. i + 1 \in 1..n /\ i + 1 \in 0..n /\ (i + 1) - 1 = i /\ i + 1 # 0
    BY <1>1, <1>8
  <2>2. A1[i + 1] = AddRecorded(A1[i], R[i + 1])
    BY <1>5, <2>1
  <2>3. A1[i] \in Queues /\ R[i + 1] \in Paths
    BY <1>1, <1>8, <2>1
  <2> QED BY <2>1, <2>2, <2>3, AddRecordedIn
<1>9. n \in P
  <2>1. n \in 0..n
    BY <1>1
  <2> HIDE DEF P, n
  <2>2. \A i \in 0..n : i \in P
    BY <1>1, <1>7, <1>8, Along
  <2> QED BY <2>1, <2>2
<1> QED BY <1>6, <1>9

LEMMA AppendStep == IInv /\ AppendRecorded => IInv'
<1> SUFFICES ASSUME IInv, AppendRecorded PROVE IInv'
  OBVIOUS
<1>1. /\ pc = "walk" /\ pc' = "hash" /\ job' = 1 /\ leaves' = WithRecorded
      /\ UNCHANGED <<session, disk, at, named, frames, files>>
      /\ subjects' = [i \in DOMAIN leaves' |-> Unstarted(leaves'[i])]
  BY DEF AppendRecorded, treeVars
<1>2. /\ TreeInv /\ leaves \in Seq(Leaves) /\ frames \in Seq(Frames) /\ FilesInv
      /\ \A i, j \in DOMAIN leaves : leaves[i].path = leaves[j].path => i = j
      /\ \A i \in DOMAIN leaves : Undescribed(leaves[i].path)
  BY <1>1 DEF IInv, TypeInv, LeavesInv, Late
<1>3. leaves' \in Queues
  <2>1. leaves \in Queues
    BY <1>2 DEF Queues
  <2> QED BY <1>1, <1>2, <2>1, RecordedType, WithRecordedIn
<1>4. /\ leaves' \in Seq(Leaves)
      /\ \A i, j \in DOMAIN leaves' : leaves'[i].path = leaves'[j].path => i = j
      /\ \A i \in DOMAIN leaves' : \A f \in files : f.path # leaves'[i].path
  BY <1>3 DEF Queues, Undescribed
<1>5. ASSUME NEW l \in Leaves
      PROVE  Unstarted(l) \in Subjects /\ Unstarted(l).step = "open" /\ Unstarted(l).text = NoText
  <2>1. FileWithout(l.path, "file") \in FileRecords
    BY DEF FileWithout, FileRecords, FileKinds, Leaves, Kinds
  <2> QED BY <2>1 DEF Unstarted, Subjects, Steps
<1>6. \A i \in DOMAIN leaves' : leaves'[i] \in Leaves
  BY <1>4, Rows
<1>7. /\ subjects' \in [DOMAIN leaves' -> Subjects]
      /\ \A i \in DOMAIN leaves' : subjects'[i].step = "open" /\ subjects'[i].text = NoText
  BY <1>1, <1>5, <1>6
<1>8. TreeInv' /\ FilesInv'
  BY <1>1, <1>2 DEF TreeInv, FilesInv, Names
<1>9. TypeInv'
  BY <1>1, <1>2, <1>4, <1>7 DEF TypeInv, Late
<1>10. WalkInv'
  BY <1>1 DEF WalkInv, Early
<1>11. LeavesInv'
  BY <1>1, <1>4 DEF LeavesInv, Undescribed
<1>12. DescriptorsInv'
  BY <1>7 DEF DescriptorsInv
<1> QED BY <1>8, <1>9, <1>10, <1>11, <1>12 DEF IInv

LEMMA WalkStep == IInv /\ Walk => IInv'
BY EnterStep, StepsOfWalk, AppendStep DEF Walk

LEMMA PoolStep == IInv /\ Pool => IInv'
<1> SUFFICES ASSUME IInv, Pool PROVE IInv'
  OBVIOUS
<1>1. /\ pc = "hash" /\ pc' \in Late /\ job' \in Nat \ {0}
      /\ UNCHANGED <<session, disk, at, named, frames, leaves, files, subjects>>
  <2>1. ASSUME NEW w \in 1..Workers, Deliver(w) \/ TimeOut(w)
        PROVE  /\ pc = "hash" /\ UNCHANGED <<pc, job>>
               /\ UNCHANGED <<session, disk, at, named, frames, leaves, files, subjects>>
    BY <2>1 DEF Deliver, TimeOut, treeVars
  <2>2. job \in Nat \ {0}
    BY DEF IInv, TypeInv
  <2>3. CASE Close
    BY <2>3 DEF Close, Phase, Late, treeVars, poolVars
  <2> QED BY <2>1, <2>2, <2>3 DEF Pool, Late
<1>2. pc \in Late /\ pc \notin Early /\ pc' \notin Early /\ pc' # "walk"
  BY <1>1 DEF Late, Early
<1>3. TreeInv' /\ FilesInv'
  BY <1>1 DEF IInv, TreeInv, FilesInv, Names
<1>4. TypeInv' /\ WalkInv'
  BY <1>1, <1>2 DEF IInv, TypeInv, WalkInv
<1>5. LeavesInv' /\ DescriptorsInv'
  BY <1>1, <1>2 DEF IInv, LeavesInv, DescriptorsInv, Undescribed
<1> QED BY <1>3, <1>4, <1>5 DEF IInv

-----------------------------------------------------------------------------
(* The examination of a leaf, and the other process.                       *)

LEMMA ExamineKeeps ==
    ASSUME IInv, pc \in Late, NEW i \in DOMAIN leaves, subjects[i].step # "answered",
           UNCHANGED <<session, treeVars, pc, job, frames, leaves>>,
           NEW s \in Subjects, s.step # "open", Step(i, s),
           \/ UNCHANGED files
           \/ s.step = "answered" /\ \E f : files' = files \union {f} /\ f.path = Path(i) /\ Found(f, named),
           s.step \in {"read", "check"} => Descriptor(s, Path(i), disk, named)
    PROVE  IInv'
<1> DEFINE p == leaves[i].path
<1>1. /\ pc \notin Early /\ pc # "walk" /\ leaves \in Seq(Leaves) /\ subjects \in [DOMAIN leaves -> Subjects]
      /\ \A j, k \in DOMAIN leaves : leaves[j].path = leaves[k].path => j = k
      /\ \A j \in DOMAIN leaves : subjects[j].step # "answered" => Undescribed(leaves[j].path)
      /\ FilesInv /\ p = Path(i)
  BY DEF IInv, TypeInv, LeavesInv, Early, Late, Path
<1>2. /\ subjects' \in [DOMAIN leaves -> Subjects] /\ subjects'[i] = s
      /\ \A j \in DOMAIN leaves : j # i => subjects'[j] = subjects[j]
  BY <1>1 DEF Step
<1>3. TreeInv'
  BY DEF IInv, TreeInv, Names, treeVars
<1>4. TypeInv' /\ WalkInv'
  BY <1>1, <1>2 DEF IInv, TypeInv, WalkInv
<1>5. FilesInv' /\ \A j \in DOMAIN leaves : j # i /\ subjects[j].step # "answered" =>
                      \A f \in files' : f.path # leaves[j].path
  <2>1. CASE UNCHANGED files
    BY <1>1, <2>1 DEF FilesInv, Undescribed, treeVars
  <2>2. ASSUME NEW f, files' = files \union {f}, f.path = p, Found(f, named)
        PROVE  /\ FilesInv'
               /\ \A j \in DOMAIN leaves : j # i /\ subjects[j].step # "answered" =>
                      \A g \in files' : g.path # leaves[j].path
    <3>1. \A g \in files : g.path # p
      BY <1>1 DEF Undescribed
    <3>2. \A g, h \in files' : g.path = h.path => g = h
      BY <1>1, <2>2, <3>1 DEF FilesInv
    <3>3. \A g \in files' : Found(g, named)
      BY <1>1, <2>2 DEF FilesInv
    <3>4. FilesInv'
      BY <3>2, <3>3 DEF FilesInv, treeVars
    <3>5. ASSUME NEW j \in DOMAIN leaves, j # i, subjects[j].step # "answered", NEW g \in files'
          PROVE  g.path # leaves[j].path
      BY <1>1, <2>2, <3>5 DEF Undescribed
    <3> QED BY <3>4, <3>5
  <2> QED BY <1>1, <2>1, <2>2
<1>6. LeavesInv'
  <2>1. ASSUME NEW j \in DOMAIN leaves, subjects'[j].step # "answered", NEW f \in files'
        PROVE  f.path # leaves[j].path
    <3>1. CASE j = i
      BY <1>1, <1>2, <2>1, <3>1 DEF Undescribed
    <3>2. CASE j # i
      BY <1>2, <1>5, <2>1, <3>2
    <3> QED BY <3>1, <3>2
  <2> QED BY <1>1, <2>1 DEF LeavesInv, Undescribed
<1>7. DescriptorsInv'
  <2>1. \A j \in DOMAIN leaves :
          /\ subjects'[j].step = "open" => subjects'[j].text = NoText
          /\ subjects'[j].step \in {"read", "check"} =>
                Descriptor(subjects'[j], leaves[j].path, disk, named)
    BY <1>1, <1>2 DEF IInv, DescriptorsInv
  <2> QED BY <2>1 DEF DescriptorsInv, treeVars
<1> QED BY <1>3, <1>4, <1>5, <1>6, <1>7 DEF IInv

\* What the steps of a subject have in common.
LEMMA Examined ==
    ASSUME IInv, NEW i \in DOMAIN leaves, Subject(i)
    PROVE  /\ pc \in Late /\ subjects[i].step # "answered" /\ subjects[i] \in Subjects
           /\ UNCHANGED <<session, treeVars, pc, job, frames, leaves>> /\ Path(i) \in Paths
           /\ \A g \in BOOLEAN : /\ [subjects[i] EXCEPT !.step = "answered", !.gap = g] \in Subjects
                                 /\ [subjects[i] EXCEPT !.step = "answered", !.gap = g].step = "answered"
<1>1. pc \in Late /\ subjects[i].step \in {"open", "readlink", "read", "check"}
  BY DEF Subject, OpenLeaf, ReadLink, ReadLeaf, CheckLeaf, Panic, At, Late
<1>2. UNCHANGED <<session, treeVars, pc, job, frames, leaves>>
  BY DEF Subject, OpenLeaf, ReadLink, ReadLeaf, CheckLeaf, Panic
<1>3. subjects \in [DOMAIN leaves -> Subjects] /\ leaves \in Seq(Leaves)
  BY <1>1 DEF IInv, TypeInv
<1>4. subjects[i] \in Subjects
  BY <1>3
<1>5. \A x \in Subjects, g \in BOOLEAN :
         /\ [x EXCEPT !.step = "answered", !.gap = g] \in Subjects
         /\ [x EXCEPT !.step = "answered", !.gap = g].step = "answered"
  BY DEF Subjects, Steps
<1>6. Path(i) \in Paths
  BY <1>3, Rows DEF Path
<1> QED BY <1>1, <1>2, <1>4, <1>5, <1>6

\* A leaf that is answered, with a record of it or without.
LEMMA AnswerStep ==
    ASSUME IInv, NEW i \in DOMAIN leaves, Subject(i), NEW g \in BOOLEAN, Answer(i, g),
           \/ UNCHANGED files
           \/ \E f : AddFile(f) /\ f.path = Path(i) /\ Found(f, named)
    PROVE  IInv'
<1> DEFINE s == [subjects[i] EXCEPT !.step = "answered", !.gap = g]
<1>1. /\ pc \in Late /\ subjects[i].step # "answered" /\ s \in Subjects /\ s.step = "answered"
      /\ UNCHANGED <<session, treeVars, pc, job, frames, leaves>>
  BY Examined
<1>2. Step(i, s)
  BY DEF Answer
<1> HIDE DEF s
<1>3. \/ UNCHANGED files
      \/ \E f : files' = files \union {f} /\ f.path = Path(i) /\ Found(f, named)
  BY DEF AddFile
<1> QED BY <1>1, <1>2, <1>3, ExamineKeeps

LEMMA UnreadStep ==
    ASSUME IInv, NEW i \in DOMAIN leaves, Subject(i), Unread(i)
    PROVE  IInv'
<1>1. FileWithout(Path(i), "unread").path = Path(i) /\ Found(FileWithout(Path(i), "unread"), named)
  BY DEF FileWithout, Found, FileKinds, Kinds
<1>2. Answer(i, TRUE) /\ (UNCHANGED files \/ AddFile(FileWithout(Path(i), "unread")))
  BY DEF Unread
<1> QED BY <1>1, <1>2, AnswerStep

LEMMA NodeFacts ==
    ASSUME TreeInv, NEW p \in Paths, IsThere(p)
    PROVE  /\ at[p] \in DOMAIN disk /\ Node(p) = disk[at[p]] /\ Node(p) \in Nodes
           /\ <<p, Node(p)>> \in named
BY DEF TreeInv, IsThere, Node, Names

\* What the steps of a subject make of it, field by field.
Opened(x, a, b, c, d) == [x EXCEPT !.step = a, !.ino = b, !.gen = c, !.stat = d]
WithText(x, t) == [x EXCEPT !.step = "check", !.text = t]

LEMMA SubjectOpened ==
    ASSUME NEW x \in Subjects, NEW a \in {"read", "check"}, NEW b \in Nat, NEW c \in Nat, NEW d \in FileRecords
    PROVE  /\ Opened(x, a, b, c, d) \in Subjects
           /\ Opened(x, a, b, c, d).step = a /\ Opened(x, a, b, c, d).ino = b
           /\ Opened(x, a, b, c, d).gen = c /\ Opened(x, a, b, c, d).stat = d
           /\ Opened(x, a, b, c, d).text = x.text
<1>1. a \in Steps
  BY DEF Steps
<1>2. Opened(x, a, b, c, d) \in Subjects
  BY <1>1 DEF Opened, Subjects
<1> QED BY <1>2 DEF Opened, Subjects

LEMMA SubjectRead ==
    ASSUME NEW x \in Subjects, NEW t \in Texts
    PROVE  /\ WithText(x, t) \in Subjects /\ WithText(x, t).step = "check" /\ WithText(x, t).text = t
           /\ WithText(x, t).ino = x.ino /\ WithText(x, t).gen = x.gen /\ WithText(x, t).stat = x.stat
<1>1. "check" \in Steps /\ t \in Texts \union {NoText}
  BY DEF Steps
<1>2. WithText(x, t) \in Subjects
  BY <1>1 DEF WithText, Subjects
<1> QED BY <1>2 DEF WithText, Subjects

LEMMA OpenStep ==
    ASSUME IInv, NEW i \in DOMAIN leaves, OpenLeaf(i)
    PROVE  IInv'
<1> DEFINE p == Path(i)
<1>1. /\ Subject(i) /\ TreeInv /\ p \in Paths /\ pc \in Late /\ subjects[i].step # "answered"
      /\ subjects[i] \in Subjects /\ UNCHANGED <<session, treeVars, pc, job, frames, leaves>>
  BY Examined DEF Subject, IInv
<1>o. subjects[i].step = "open"
  BY DEF OpenLeaf, At
<1>2. CASE /\ OpenConfined(p) = "file" /\ UNCHANGED files
           /\ Step(i, [subjects[i] EXCEPT !.step = IF HashWanted(i) THEN "read" ELSE "check",
                                          !.ino = at[p], !.gen = Node(p).gen,
                                          !.stat = FileFromStat(p, "file", Node(p))])
  <2> DEFINE n == Node(p)
             st == FileFromStat(p, "file", n)
             step == IF HashWanted(i) THEN "read" ELSE "check"
             s == Opened(subjects[i], step, at[p], n.gen, st)
  <2>1. IsThere(p) /\ n.kind = "file"
    BY <1>2 DEF OpenConfined, Reaches
  <2>2. at[p] \in DOMAIN disk /\ n = disk[at[p]] /\ n \in Nodes /\ <<p, n>> \in named
    BY <1>1, <2>1, NodeFacts
  <2>3. at[p] \in Nat /\ n.gen \in Nat /\ n.text \in Texts /\ Size[n.text] \in Nat
        /\ n.exec \in BOOLEAN /\ n.suid \in BOOLEAN
    <3>1. at[p] \in Nat
      BY <1>1, <2>2 DEF TreeInv
    <3> HIDE DEF n
    <3> QED BY <2>2, <3>1, TreeAssumption DEF Nodes
  <2>4. st \in FileRecords
    BY <1>1, <2>3 DEF FileFromStat, FileRecords, FileKinds, Kinds
  <2>5. step \in {"read", "check"}
    OBVIOUS
  <2>6. Step(i, s)
    BY <1>2 DEF Opened
  <2>8. /\ s \in Subjects /\ s.step = step /\ s.ino = at[p] /\ s.gen = n.gen /\ s.stat = st
        /\ s.text = subjects[i].text
    <3> DEFINE b == at[p]
               c == n.gen
               x == subjects[i]
    <3>1. x \in Subjects /\ b \in Nat /\ c \in Nat
      BY <1>1, <2>3
    <3> HIDE DEF step, st, n, b, c, x
    <3>2. Opened(x, step, b, c, st) = s
      BY DEF s, b, c, x
    <3>3. /\ Opened(x, step, b, c, st) \in Subjects
          /\ Opened(x, step, b, c, st).step = step /\ Opened(x, step, b, c, st).ino = b
          /\ Opened(x, step, b, c, st).gen = c /\ Opened(x, step, b, c, st).stat = st
          /\ Opened(x, step, b, c, st).text = x.text
      BY <2>4, <2>5, <3>1, SubjectOpened
    <3> HIDE DEF s
    <3> QED BY <3>2, <3>3 DEF b, c, x
  <2>9. subjects[i].text = NoText
    BY <1>1, <1>o DEF IInv, DescriptorsInv
  <2> HIDE DEF s, step
  <2>10. Descriptor(s, p, disk, named)
    BY <2>1, <2>2, <2>3, <2>8, <2>9 DEF Descriptor
  <2>11. s.step # "open" /\ s.step \in {"read", "check"}
    BY <2>5, <2>8
  <2> QED BY <1>1, <1>2, <2>6, <2>8, <2>10, <2>11, ExamineKeeps
<1>3. CASE AddFile(FileFromStat(p, "other", Node(p))) /\ Answer(i, FALSE)
  <2>1. FileFromStat(p, "other", Node(p)).path = p /\ Found(FileFromStat(p, "other", Node(p)), named)
    BY DEF FileFromStat, Found, FileKinds, Kinds
  <2> QED BY <1>1, <1>3, <2>1, AnswerStep
<1>4. CASE AddFile(FileWithout(p, "absent")) /\ Answer(i, FALSE)
  <2>1. FileWithout(p, "absent").path = p /\ Found(FileWithout(p, "absent"), named)
    BY DEF FileWithout, Found, FileKinds, Kinds
  <2> QED BY <1>1, <1>4, <2>1, AnswerStep
<1>5. CASE Step(i, [subjects[i] EXCEPT !.step = "readlink"]) /\ UNCHANGED files
  <2> DEFINE s == [subjects[i] EXCEPT !.step = "readlink"]
  <2>1. \A x \in Subjects : LET y == [x EXCEPT !.step = "readlink"] IN y \in Subjects /\ y.step = "readlink"
    BY DEF Subjects, Steps
  <2>2. s \in Subjects /\ s.step = "readlink"
    BY <1>1, <2>1
  <2>3. Step(i, s)
    BY <1>5
  <2> HIDE DEF s
  <2> QED BY <1>1, <1>5, <2>2, <2>3, ExamineKeeps
<1>6. CASE Unread(i)
  BY <1>1, <1>6, UnreadStep
<1> QED BY <1>2, <1>3, <1>4, <1>5, <1>6 DEF OpenLeaf

LEMMA ReadLinkStep ==
    ASSUME IInv, NEW i \in DOMAIN leaves, ReadLink(i)
    PROVE  IInv'
<1> DEFINE p == Path(i)
           f == [FileWithout(p, "link") EXCEPT !.text = Node(p).text]
<1>1. Subject(i) /\ TreeInv /\ p \in Paths
  BY Examined DEF Subject, IInv
<1>2. CASE Reaches(p) /\ Is(p, "link") /\ AddFile(f) /\ Answer(i, FALSE)
  <2>1. <<p, Node(p)>> \in named /\ Node(p).kind = "link"
    BY <1>1, <1>2, NodeFacts DEF Is
  <2>2. f.path = p /\ f.kind = "link" /\ f.text = Node(p).text
    BY DEF FileWithout
  <2>3. <<p, Node(p)>>[1] = p /\ <<p, Node(p)>>[2] = Node(p)
    OBVIOUS
  <2> HIDE DEF f
  <2>4. Found(f, named)
    BY <2>1, <2>2, <2>3 DEF Found, FileKinds, Kinds
  <2> QED BY <1>1, <1>2, <2>2, <2>4, AnswerStep
<1>3. CASE Unread(i)
  BY <1>1, <1>3, UnreadStep
<1> QED BY <1>2, <1>3 DEF ReadLink

LEMMA ReadStep ==
    ASSUME IInv, NEW i \in DOMAIN leaves, ReadLeaf(i)
    PROVE  IInv'
<1>1. /\ Subject(i) /\ TreeInv /\ Path(i) \in Paths /\ pc \in Late /\ subjects[i].step = "read"
      /\ subjects[i] \in Subjects /\ UNCHANGED <<session, treeVars, pc, job, frames, leaves>>
  BY Examined DEF Subject, IInv, ReadLeaf, At
<1>2. CASE UNCHANGED files /\ Step(i, [subjects[i] EXCEPT !.step = "check", !.text = disk[subjects[i].ino].text])
  <2> DEFINE t == disk[subjects[i].ino].text
             s == WithText(subjects[i], t)
  <2>1. Descriptor(subjects[i], Path(i), disk, named)
    BY <1>1 DEF IInv, DescriptorsInv, Path
  <2>2. t \in Texts
    <3>1. disk[subjects[i].ino] \in Nodes
      BY <1>1, <2>1 DEF TreeInv, Descriptor
    <3> QED BY <3>1 DEF Nodes
  <2>3. Step(i, s)
    BY <1>2 DEF WithText
  <2>4. /\ s \in Subjects /\ s.step = "check" /\ s.text = t
        /\ s.ino = subjects[i].ino /\ s.gen = subjects[i].gen /\ s.stat = subjects[i].stat
    <3> HIDE DEF t
    <3> QED BY <1>1, <2>2, SubjectRead
  <2> HIDE DEF s
  <2>5. s.text = disk[s.ino].text
    BY <2>4
  <2>6. Descriptor(s, Path(i), disk, named)
    BY <2>1, <2>4, <2>5 DEF Descriptor
  <2> QED BY <1>1, <1>2, <2>3, <2>4, <2>6, ExamineKeeps
<1>3. CASE Unread(i)
  BY <1>1, <1>3, UnreadStep
<1> QED BY <1>2, <1>3 DEF ReadLeaf

LEMMA CheckStep ==
    ASSUME IInv, NEW i \in DOMAIN leaves, CheckLeaf(i)
    PROVE  IInv'
<1> DEFINE s == subjects[i]
           f == [s.stat EXCEPT !.text = s.text]
<1>1. Subject(i) /\ TreeInv /\ Path(i) \in Paths /\ pc \in Late /\ s.step = "check"
  BY Examined DEF Subject, IInv, CheckLeaf, At
<1>2. Descriptor(s, Path(i), disk, named)
  BY <1>1 DEF IInv, DescriptorsInv, Path
<1>3. CASE Unchanged(i) /\ AddFile(f) /\ Answer(i, FALSE)
  <2> DEFINE n == disk[s.ino]
  <2>1. /\ s.gen = n.gen /\ <<Path(i), n>> \in named /\ n.kind = "file"
        /\ s.stat = FileFromStat(Path(i), "file", n) /\ s.text \in {NoText, n.text}
    BY <1>2, <1>3 DEF Unchanged, Descriptor
  <2> HIDE DEF s, n
  <2>2. /\ f.path = Path(i) /\ f.kind = "file" /\ f.text = s.text /\ f.size = Size[n.text]
        /\ f.exec = n.exec /\ f.suid = n.suid
    BY <2>1 DEF FileFromStat
  <2>3. <<Path(i), n>>[1] = Path(i) /\ <<Path(i), n>>[2] = n
    OBVIOUS
  <2> HIDE DEF f
  <2>4. Found(f, named)
    BY <2>1, <2>2, <2>3 DEF Found, FileKinds, Kinds
  <2> QED BY <1>1, <1>3, <2>2, <2>4, AnswerStep
<1>4. CASE Unread(i)
  BY <1>1, <1>4, UnreadStep
<1> QED BY <1>3, <1>4 DEF CheckLeaf

LEMMA SubjectStep ==
    ASSUME IInv, NEW i \in DOMAIN leaves, Subject(i)
    PROVE  IInv'
<1>1. CASE Panic(i)
  BY <1>1, AnswerStep DEF Panic
<1> QED BY <1>1, OpenStep, ReadLinkStep, ReadStep, CheckStep DEF Subject

LEMMA WrittenFacts ==
    ASSUME NEW o \in Nodes, NEW t \in Texts
    PROVE  Written(o, t) \in Nodes /\ Written(o, t).gen > o.gen
<1> DEFINE g == o.gen + 1
<1>1. Written(o, t) = [o EXCEPT !.text = t, !.gen = g]
  BY DEF Written
<1>2. o.gen \in Nat
  BY DEF Nodes
<1>3. g \in Nat /\ g > o.gen
  BY <1>2
<1> HIDE DEF g
<1>4. [o EXCEPT !.text = t, !.gen = g] \in Nodes
  BY <1>3 DEF Nodes
<1>5. [o EXCEPT !.text = t, !.gen = g].gen = g
  BY DEF Nodes
<1> QED BY <1>1, <1>3, <1>4, <1>5

\* The other process: an inode that is written gets a generation it never had.
LEMMA ChangeStep == IInv /\ ChangeTree => IInv'
<1> SUFFICES ASSUME IInv, ChangeTree PROVE IInv'
  OBVIOUS
<1>1. /\ TreeInv /\ disk \in Seq(Nodes) /\ at \in [Paths -> 0..Len(disk)]
      /\ DOMAIN disk = 1..Len(disk) /\ Len(disk) \in Nat /\ \A k \in DOMAIN disk : disk[k] \in Nodes
  BY DEF IInv, TreeInv
<1>2. UNCHANGED <<session, pc, job, frames, leaves, subjects, files>>
  BY DEF ChangeTree, poolVars
<1>3. named' = named \union Names(at', disk')
  BY DEF ChangeTree, Alter
<1>4. /\ disk' \in Seq(Nodes) /\ at' \in [Paths -> 0..Len(disk')]
      /\ \A k \in DOMAIN disk : k \in DOMAIN disk' /\ (disk'[k] = disk[k] \/ disk'[k].gen > disk[k].gen)
  <2>1. PICK p \in Paths, t \in Texts, x \in BOOLEAN :
        \/ /\ Is(p, "file")
           /\ Alter(at, [disk EXCEPT ![at[p]] = Written(@, t)])
        \/ \E k \in {"file", "link", "other"} :
                Alter([q \in Paths |-> CASE q = p -> Len(disk) + 1
                                         [] q \in Below(p) -> 0
                                         [] OTHER -> at[q]],
                      Append(disk, [kind |-> k, text |-> t, exec |-> x, suid |-> x, gen |-> 0]))
        \/ Alter([q \in Paths |-> IF q = p \/ q \in Below(p) THEN 0 ELSE at[q]], disk)
    BY DEF ChangeTree
  <2>2. CASE Is(p, "file") /\ Alter(at, [disk EXCEPT ![at[p]] = Written(@, t)])
    <3> DEFINE n == Written(disk[at[p]], t)
    <3>1. at[p] \in DOMAIN disk
      BY <1>1, <2>2, NodeFacts DEF Is
    <3>3. n \in Nodes /\ n.gen > disk[at[p]].gen
      BY <1>1, <3>1, WrittenFacts
    <3>4. disk' = [disk EXCEPT ![at[p]] = n] /\ at' = at
      BY <2>2 DEF Alter
    <3> HIDE DEF n
    <3>5. disk' \in [1..Len(disk) -> Nodes]
      BY <1>1, <3>3, <3>4
    <3>6. disk' \in Seq(Nodes) /\ Len(disk') = Len(disk)
      BY <1>1, <3>5
    <3> QED BY <1>1, <3>1, <3>3, <3>4, <3>6
  <2>3. ASSUME NEW k \in {"file", "link", "other"},
               Alter([q \in Paths |-> CASE q = p -> Len(disk) + 1
                                         [] q \in Below(p) -> 0
                                         [] OTHER -> at[q]],
                     Append(disk, [kind |-> k, text |-> t, exec |-> x, suid |-> x, gen |-> 0]))
        PROVE  /\ disk' \in Seq(Nodes) /\ at' \in [Paths -> 0..Len(disk')]
               /\ \A j \in DOMAIN disk : j \in DOMAIN disk' /\ disk'[j] = disk[j]
    <3> DEFINE n == [kind |-> k, text |-> t, exec |-> x, suid |-> x, gen |-> 0]
    <3>1. n \in Nodes
      BY DEF Nodes, Kinds
    <3>2. /\ disk' = Append(disk, n)
          /\ at' = [q \in Paths |-> CASE q = p -> Len(disk) + 1 [] q \in Below(p) -> 0 [] OTHER -> at[q]]
      BY <2>3 DEF Alter
    <3> HIDE DEF n
    <3>3. /\ disk' \in Seq(Nodes) /\ Len(disk') = Len(disk) + 1
          /\ \A j \in DOMAIN disk : j \in DOMAIN disk' /\ disk'[j] = disk[j]
      BY <1>1, <3>1, <3>2
    <3>4. at' \in [Paths -> 0..(Len(disk) + 1)]
      BY <1>1, <3>2
    <3> QED BY <3>3, <3>4
  <2>4. CASE Alter([q \in Paths |-> IF q = p \/ q \in Below(p) THEN 0 ELSE at[q]], disk)
    BY <1>1, <2>4 DEF Alter
  <2> QED BY <2>1, <2>2, <2>3, <2>4
<1>5. TreeInv'
  BY <1>1, <1>2, <1>3, <1>4 DEF TreeInv
<1>6. TypeInv' /\ WalkInv'
  BY <1>2 DEF IInv, TypeInv, WalkInv, Ahead, Subtrees
<1>7. \A f : Found(f, named) => Found(f, named')
  BY <1>3 DEF Found
<1>8. FilesInv' /\ LeavesInv'
  BY <1>2, <1>7 DEF IInv, FilesInv, LeavesInv, Undescribed
<1>9. DescriptorsInv'
  <2>1. ASSUME NEW s \in Subjects, NEW p, Descriptor(s, p, disk, named)
        PROVE  Descriptor(s, p, disk', named')
    <3>1. s.ino \in DOMAIN disk /\ s.gen \in Nat /\ disk[s.ino].gen \in Nat /\ s.gen <= disk[s.ino].gen
      BY <1>1, <2>1 DEF Descriptor, Subjects, Nodes
    <3>2. CASE disk'[s.ino] = disk[s.ino]
      BY <1>3, <1>4, <2>1, <3>1, <3>2 DEF Descriptor
    <3>3. CASE disk'[s.ino].gen > disk[s.ino].gen
      <4>1. s.ino \in DOMAIN disk' /\ disk'[s.ino] \in Nodes
        BY <1>4, <3>1
      <4>2. disk'[s.ino].gen \in Nat
        BY <4>1 DEF Nodes
      <4>3. s.gen <= disk'[s.ino].gen /\ s.gen # disk'[s.ino].gen
        BY <3>1, <3>3, <4>2
      <4> QED BY <4>1, <4>3 DEF Descriptor
    <3> QED BY <1>4, <3>1, <3>2, <3>3
  <2>2. pc \in Late => \A i \in DOMAIN leaves : subjects[i] \in Subjects
    BY DEF IInv, TypeInv
  <2> QED BY <1>2, <2>1, <2>2 DEF IInv, DescriptorsInv
<1> QED BY <1>5, <1>6, <1>8, <1>9 DEF IInv

LEMMA InitHolds == Init => IInv
<1> SUFFICES ASSUME Init PROVE IInv
  OBVIOUS
<1>1. TreeInv
  BY SessionsAssumption DEF Init, TreeInv
<1>2. TypeInv
  BY DEF Init, TypeInv, Early, Late
<1>3. WalkInv /\ FilesInv /\ LeavesInv /\ DescriptorsInv
  BY DEF Init, WalkInv, FilesInv, LeavesInv, DescriptorsInv, Early, Late
<1> QED BY <1>1, <1>2, <1>3 DEF IInv

LEMMA StutterStep == IInv /\ UNCHANGED vars => IInv'
<1> SUFFICES ASSUME IInv, UNCHANGED vars PROVE IInv'
  OBVIOUS
<1>1. UNCHANGED <<session, disk, at, named, pc, job, frames, leaves, subjects, files>>
  BY DEF vars, treeVars, poolVars
<1>2. TreeInv' /\ TypeInv' /\ FilesInv'
  BY <1>1 DEF IInv, TreeInv, TypeInv, FilesInv
<1>3. WalkInv'
  BY <1>1 DEF IInv, WalkInv, Ahead, Subtrees
<1>4. LeavesInv' /\ DescriptorsInv'
  BY <1>1 DEF IInv, LeavesInv, DescriptorsInv, Undescribed
<1> QED BY <1>2, <1>3, <1>4 DEF IInv

LEMMA Inductive == Spec => []IInv
<1>1. IInv /\ [Next]_vars => IInv'
  BY BufferStep, WalkStep, PoolStep, ChangeStep, SubjectStep, StutterStep DEF Next
<1> QED BY InitHolds, <1>1, PTL DEF Spec

-----------------------------------------------------------------------------
(* What is said of the evidence.                                           *)

LEMMA OneRecord ==
    ASSUME FilesInv, NEW f \in files
    PROVE  Evidence(f.path) = {f} /\ Lookup(f.path) = f
<1>1. Evidence(f.path) = {f}
  BY DEF FilesInv, Evidence
<1> QED BY <1>1 DEF Lookup

\* What a record of the evidence is taken for.
LEMMA Observed ==
    ASSUME FilesInv, NEW e, Observe(e) \in {"ObsLink", "ObsHashed"}
    PROVE  \E f \in files : /\ f.path = e.path /\ f = Lookup(e.path)
                            /\ Observe(e) = "ObsLink" => f.kind = "link"
                            /\ Observe(e) = "ObsHashed" => f.kind = "file" /\ f.text # NoText
<1>1. Evidence(e.path) # {}
  BY DEF Observe
<1>2. PICK f \in files : f.path = e.path
  BY <1>1 DEF Evidence
<1>3. f = Lookup(e.path)
  BY <1>2, OneRecord
<1>4. f.kind \in FileKinds
  BY DEF FilesInv, Found
<1>5. (Observe(e) = "ObsLink" => f.kind = "link") /\ (Observe(e) = "ObsHashed" => f.kind = "file" /\ f.text # NoText)
  BY <1>1, <1>3, <1>4 DEF Observe, FileKinds, Kinds
<1> QED BY <1>2, <1>3, <1>5

LEMMA ObserveType ==
    ASSUME FilesInv, NEW e
    PROVE  Observe(e) \in {"nothing", "ObsExempt", "ObsHashed", "ObsMetadataOnly", "ObsLink",
                           "ObsMissing", "ObsGapped", "ObsUnreadable"}
<1>1. CASE Evidence(e.path) = {}
  BY <1>1 DEF Observe
<1>2. ASSUME NEW f \in files, f.path = e.path
      PROVE  Lookup(e.path) = f /\ f.kind \in FileKinds
  <2>1. f.kind \in FileKinds
    BY DEF FilesInv, Found
  <2> QED BY <1>2, <2>1, OneRecord
<1>3. ASSUME NEW f \in files, f.path = e.path
      PROVE  Observe(e) \in {"nothing", "ObsExempt", "ObsHashed", "ObsMetadataOnly", "ObsLink",
                           "ObsMissing", "ObsGapped", "ObsUnreadable"}
  BY <1>2, <1>3 DEF Observe, FileKinds, Kinds
<1> QED BY <1>1, <1>3 DEF Evidence

\* A record passes because a text was read, and is the one recorded.
LEMMA PassIsMatch ==
    ASSUME FilesInv, NEW e, e.type \in {"file", "link"}, Integrity(e) = "pass"
    PROVE  \E f \in files : /\ f.path = e.path /\ f.text = e.text /\ f.kind = e.type
                            /\ f.kind = "file" => f.text # NoText
<1> DEFINE o == Observe(e)
           f == Lookup(e.path)
           match == f.text = e.text
           same == f.size = Size[e.text]
<1>1. o \in {"nothing", "ObsExempt", "ObsHashed", "ObsMetadataOnly", "ObsLink",
             "ObsMissing", "ObsGapped", "ObsUnreadable"}
  BY ObserveType
<1>2. /\ o \in {"ObsLink", "ObsHashed"} /\ f.text = e.text
      /\ o = "ObsLink" => e.type = "link"
      /\ o = "ObsHashed" => e.type = "file"
  <2>1. \A s : Integrity(e) = s => s =
          CASE o \in {"nothing", "ObsUnreadable"} -> "gap"
            [] o = "ObsExempt" -> "exempt"
            [] o = "ObsGapped" -> "gapped"
            [] o = "ObsMissing" -> "finding"
            [] o = "ObsLink" -> IF e.type # "link" \/ e.text = NoText THEN "gap"
                                ELSE IF match THEN "pass" ELSE "finding"
            [] o \in {"ObsHashed", "ObsMetadataOnly"} /\ (e.type = "link" \/ e.text = NoText) -> "gap"
            [] o = "ObsHashed" /\ e.type = "file" /\ e.text # NoText ->
                 IF match THEN "pass" ELSE "finding"
            [] o = "ObsMetadataOnly" /\ e.type = "file" /\ e.text # NoText ->
                 IF same THEN "gap" ELSE "finding"
    BY DEF Integrity
  <2>2. match \in BOOLEAN /\ same \in BOOLEAN
    OBVIOUS
  <2>3. o \in {"ObsLink", "ObsHashed"} /\ match /\ (o = "ObsLink" => e.type = "link") /\ (o = "ObsHashed" => e.type = "file")
    <3> HIDE DEF o, match, same
    <3> QED BY <1>1, <2>1, <2>2
  <2> QED BY <2>3
<1>3. PICK g \in files : /\ g.path = e.path /\ g = Lookup(e.path)
                         /\ Observe(e) = "ObsLink" => g.kind = "link"
                         /\ Observe(e) = "ObsHashed" => g.kind = "file" /\ g.text # NoText
  BY <1>2, Observed
<1> QED BY <1>2, <1>3

LEMMA ReadRecords ==
    ASSUME TreeInv, NEW e \in Read
    PROVE  e \in Records
<1>1. PICK k \in DOMAIN session.pkgs : e \in session.pkgs[k].entries
  BY DEF Read, Package
<1>2. session.pkgs \in Seq(Packages)
  BY SessionsAssumption DEF TreeInv
<1>3. session.pkgs[k] \in Packages
  BY <1>1, <1>2
<1> QED BY <1>1, <1>3 DEF Packages

\* Whatever was done to the tree while the scan ran: what passes was found as
\* its package recorded it, a hashed file's size and mode are of the instant
\* its text is of, and no path has two records (collect.openLeaf's second
\* fstat, leafSet.add, check.Integrity).
THEOREM PassedWasAlwaysThere == Spec => []PassedWasThere
<1>1. IInv => PassedWasThere
  <2> SUFFICES ASSUME IInv PROVE PassedWasThere
    OBVIOUS
  <2>1. TreeInv /\ FilesInv
    BY DEF IInv
  <2>2. \A f \in files : Cardinality(Evidence(f.path)) = 1
    BY <2>1, OneRecord, FS_Singleton
  <2>3. ASSUME NEW e \in Read, Integrity(e) = "pass"
        PROVE  \E x \in named : x[1] = e.path /\ IsAs(e, x[2])
    <3>1. e.type \in {"file", "link"}
      BY <2>1, ReadRecords DEF Records
    <3>2. PICK f \in files : /\ f.path = e.path /\ f.text = e.text /\ f.kind = e.type
                             /\ f.kind = "file" => f.text # NoText
      BY <2>1, <2>3, <3>1, PassIsMatch
    <3>3. Found(f, named)
      BY <2>1 DEF FilesInv
    <3> QED BY <3>1, <3>2, <3>3 DEF Found, IsAs
  <2>4. ASSUME NEW f \in files, f.kind = "file", f.text # NoText
        PROVE  \E x \in named : /\ x[1] = f.path /\ x[2].text = f.text /\ Size[x[2].text] = f.size
                                 /\ x[2].exec = f.exec /\ x[2].suid = f.suid
    BY <2>1, <2>4 DEF FilesInv, Found
  <2> QED BY <2>2, <2>3, <2>4 DEF PassedWasThere
<1> QED BY <1>1, Inductive, PTL

-----------------------------------------------------------------------------
(* The paths nothing happened to.                                          *)

LEMMA SpanFacts ==
    ASSUME NEW p \in Paths
    PROVE  /\ \A e : p \in Span(e) <=> e.path \in {p} \union Above[p]
           /\ \A q \in {p} \union Above[p] : q \in Paths /\ (Untouched(p) => Untouched(q))
           /\ \A q \in Above[p] : Reaches(p) => Is(q, "dir") /\ Reaches(q)
<1>1. Above[p] \in SUBSET Paths /\ \A q \in Above[p] : Above[q] \subseteq Above[p]
  BY AboveFacts, AboveOrder
<1>2. \A e : p \in Span(e) <=> e.path \in {p} \union Above[p]
  BY DEF Span, Below
<1>3. ASSUME NEW q \in {p} \union Above[p]
      PROVE  q \in Paths /\ (Untouched(p) => Untouched(q))
  BY <1>1 DEF Untouched
<1>4. ASSUME NEW q \in Above[p], Reaches(p)
      PROVE  Is(q, "dir") /\ Reaches(q)
  BY <1>1, <1>4 DEF Reaches, Is
<1> QED BY <1>2, <1>3, <1>4

\* A directory above a path holds a directory above it, or the path.
LEMMA WayDown ==
    ASSUME NEW p \in Paths, NEW d \in {Top} \union Above[p]
    PROVE  \E c \in {p} \union Above[p] : Parent[c] = d
<1> DEFINE S == {x \in Paths : \A e \in {Top} \union Above[x] : \E c \in {x} \union Above[x] : Parent[c] = e}
<1>1. ASSUME NEW x \in Paths, Parent[x] = Top \/ Parent[x] \in S
      PROVE  x \in S
  <2>1. CASE Parent[x] = Top
    BY <2>1, AboveFacts
  <2>2. CASE Parent[x] # Top
    <3>1. Parent[x] \in S /\ Above[x] = {Parent[x]} \union Above[Parent[x]]
      BY <1>1, <2>2, AboveFacts
    <3> QED BY <3>1
  <2> QED BY <2>1, <2>2
<1>2. S \in SUBSET Paths
  OBVIOUS
<1>3. S = Paths
  <2> HIDE DEF S
  <2> QED BY <1>1, <1>2, TreeInduct
<1> QED BY <1>3

\* A listing of a directory above a path that can be reached leads to it.
LEMMA ListingLeads ==
    ASSUME NEW p \in Paths, Reaches(p), NEW d \in {Top} \union Above[p]
    PROVE  \E e \in Listing(d) : p \in Span(e)
<1>1. PICK c \in {p} \union Above[p] : Parent[c] = d
  BY WayDown
<1>2. c \in Paths /\ IsThere(c)
  BY SpanFacts DEF Reaches, Is
<1>3. [path |-> c, kind |-> Node(c).kind] \in Listing(d)
  BY <1>1, <1>2 DEF Listing
<1>4. [path |-> c, kind |-> Node(c).kind].path = c
  OBVIOUS
<1> QED BY <1>3, <1>4, SpanFacts

LEMMA Unmoved ==
    ASSUME UNCHANGED <<session, treeVars>>
    PROVE  /\ \A p : Untouched(p)' <=> Untouched(p)
           /\ \A p : Reaches(p)' <=> Reaches(p)
           /\ \A p, kind : Is(p, kind)' <=> Is(p, kind)
           /\ \A f : Agrees(f)' <=> Agrees(f)
           /\ \A p : Subtree(p)' = Subtree(p)
<1>1. UNCHANGED <<session, disk, at, named>>
  BY DEF treeVars
<1>2. \A p : Untouched(p)' <=> Untouched(p)
  BY <1>1 DEF Untouched, Names
<1>3. \A p : IsThere(p)' <=> IsThere(p)
  BY <1>1 DEF IsThere
<1>4. \A p : Node(p)' = Node(p)
  BY <1>1 DEF Node
<1>5. \A p, kind : Is(p, kind)' <=> Is(p, kind)
  BY <1>3, <1>4 DEF Is
<1>6. \A p : Reaches(p)' <=> Reaches(p)
  BY <1>3, <1>5 DEF Reaches
<1>7. \A f : Agrees(f)' <=> Agrees(f)
  BY <1>4, <1>5, <1>6 DEF Agrees
<1>8. \A p : Subtree(p)' = Subtree(p)
  BY <1>1 DEF Subtree, Subtrees
<1> QED BY <1>2, <1>5, <1>6, <1>7, <1>8

LEMMA ChangeFacts ==
    ASSUME IInv, ChangeTree
    PROVE  /\ session' = session /\ named \subseteq named' /\ Len(disk) <= Len(disk')
           /\ \A q \in Paths : at'[q] = at[q] \/ at'[q] = 0 \/ at'[q] = Len(disk) + 1
<1>1. disk \in Seq(Nodes) /\ Len(disk) \in Nat /\ at \in [Paths -> 0..Len(disk)]
  BY DEF IInv, TreeInv
<1>2. session' = session /\ named \subseteq named'
  BY DEF ChangeTree, Alter
<1>3. PICK p \in Paths, t \in Texts, x \in BOOLEAN :
        \/ Alter(at, [disk EXCEPT ![at[p]] = Written(@, t)])
        \/ \E k \in {"file", "link", "other"} :
                Alter([q \in Paths |-> CASE q = p -> Len(disk) + 1
                                         [] q \in Below(p) -> 0
                                         [] OTHER -> at[q]],
                      Append(disk, [kind |-> k, text |-> t, exec |-> x, suid |-> x, gen |-> 0]))
        \/ Alter([q \in Paths |-> IF q = p \/ q \in Below(p) THEN 0 ELSE at[q]], disk)
  BY DEF ChangeTree
<1>4. CASE Alter(at, [disk EXCEPT ![at[p]] = Written(@, t)])
  <2> DEFINE n == Written(disk[at[p]], t)
  <2>1. disk' = [disk EXCEPT ![at[p]] = n] /\ at' = at
    BY <1>4 DEF Alter
  <2> HIDE DEF n
  <2>2. Len(disk') = Len(disk)
    BY <1>1, <2>1
  <2> QED BY <1>1, <1>2, <2>1, <2>2
<1>5. ASSUME NEW k, 
             Alter([q \in Paths |-> CASE q = p -> Len(disk) + 1
                                         [] q \in Below(p) -> 0
                                         [] OTHER -> at[q]],
                      Append(disk, [kind |-> k, text |-> t, exec |-> x, suid |-> x, gen |-> 0]))
      PROVE  /\ Len(disk) <= Len(disk')
             /\ \A q \in Paths : at'[q] = at[q] \/ at'[q] = 0 \/ at'[q] = Len(disk) + 1
  <2> DEFINE n == [kind |-> k, text |-> t, exec |-> x, suid |-> x, gen |-> 0]
  <2>1. /\ disk' = Append(disk, n)
        /\ at' = [q \in Paths |-> CASE q = p -> Len(disk) + 1 [] q \in Below(p) -> 0 [] OTHER -> at[q]]
    BY <1>5 DEF Alter
  <2> HIDE DEF n
  <2>2. Len(disk') = Len(disk) + 1
    BY <1>1, <2>1
  <2> QED BY <1>1, <2>1, <2>2
<1>6. CASE Alter([q \in Paths |-> IF q = p \/ q \in Below(p) THEN 0 ELSE at[q]], disk)
  BY <1>1, <1>2, <1>6 DEF Alter
<1> QED BY <1>2, <1>3, <1>4, <1>5, <1>6

\* Nothing had happened before to a path nothing has happened to: an inode that
\* a path lost does not come back, and a name it was given is remembered.
LEMMA AllAlong ==
    ASSUME IInv, IInv', GrownInv, ChangeTree, NEW p \in Paths, Untouched(p)'
    PROVE  /\ Untouched(p)
           /\ \A q \in {p} \union Above[p] :
                 at'[q] = at[q] /\ (at[q] # 0 => disk'[at[q]] = disk[at[q]])
<1> DEFINE origin == Names(session.at, session.disk)
<1>1. /\ session' = session /\ named \subseteq named'
      /\ \A q \in Paths : at'[q] = at[q] \/ at'[q] = 0 \/ at'[q] = Len(disk) + 1
  BY ChangeFacts
<1>2. {p} \union Above[p] \subseteq Paths
  BY SpanFacts
<1>3. ASSUME NEW q \in {p} \union Above[p]
      PROVE  at'[q] = session.at[q] /\ \A x \in named' : x[1] = q => x \in origin
  BY <1>1 DEF Untouched, Names
<1>4. ASSUME NEW q \in Paths, at[q] # 0
      PROVE  <<q, disk[at[q]]>> \in named
  BY <1>4 DEF IInv, TreeInv, Names
<1>5. ASSUME NEW q \in Paths, at'[q] # 0
      PROVE  <<q, disk'[at'[q]]>> \in named'
  BY <1>5 DEF IInv, TreeInv, Names
<1>6. ASSUME NEW x \in origin
      PROVE  session.at[x[1]] # 0 /\ x[2] = session.disk[session.at[x[1]]]
  BY DEF Names
<1>7. Len(session.disk) \in Nat /\ Len(disk) \in Nat /\ session.at \in [Paths -> 0..Len(session.disk)]
  BY SessionsAssumption DEF IInv, TreeInv
<1>8. ASSUME NEW q \in {p} \union Above[p]
      PROVE  at'[q] = at[q] /\ (at[q] # 0 => disk'[at[q]] = disk[at[q]])
  <2>1. at'[q] # Len(disk) + 1
    BY <1>2, <1>3, <1>7 DEF GrownInv
  <2>2. at[q] # 0 => session.at[q] # 0 /\ disk[at[q]] = session.disk[session.at[q]]
    <3> SUFFICES ASSUME at[q] # 0
                 PROVE  session.at[q] # 0 /\ disk[at[q]] = session.disk[session.at[q]]
      OBVIOUS
    <3> DEFINE x == <<q, disk[at[q]]>>
    <3>1. x \in named' /\ x[1] = q /\ x[2] = disk[at[q]]
      BY <1>1, <1>2, <1>4
    <3> HIDE DEF x
    <3>2. x \in origin
      BY <1>3, <3>1
    <3> HIDE DEF origin
    <3> QED BY <1>6, <3>1, <3>2
  <2>3. at'[q] # 0 => disk'[at'[q]] = session.disk[session.at[q]]
    <3> SUFFICES ASSUME at'[q] # 0
                 PROVE  disk'[at'[q]] = session.disk[session.at[q]]
      OBVIOUS
    <3> DEFINE x == <<q, disk'[at'[q]]>>
    <3>1. x \in named' /\ x[1] = q /\ x[2] = disk'[at'[q]]
      BY <1>2, <1>5
    <3> HIDE DEF x
    <3>2. x \in origin
      BY <1>3, <3>1
    <3> HIDE DEF origin
    <3> QED BY <1>6, <3>1, <3>2
  <2>4. at'[q] = at[q]
    BY <1>1, <1>2, <1>3, <2>1, <2>2
  <2> QED BY <2>2, <2>3, <2>4
<1>9. Untouched(p)
  <2> HIDE DEF origin
  <2>1. \A q \in {p} \union Above[p] : at[q] = session.at[q] /\ \A x \in named : x[1] = q => x \in origin
    BY <1>1, <1>3, <1>8
  <2> QED BY <2>1 DEF Untouched, origin
<1> QED BY <1>8, <1>9

\* A path nothing happened to is what it ever was.
LEMMA AsEver ==
    ASSUME TreeInv, NEW x \in named, x[1] \in Paths, Untouched(x[1])
    PROVE  IsThere(x[1]) /\ Node(x[1]) = x[2]
<1> DEFINE p == x[1]
           origin == Names(session.at, session.disk)
<1>1. at[p] = session.at[p] /\ \A y \in named : y[1] = p => y \in origin
  BY DEF Untouched
<1>2. \A y \in origin : session.at[y[1]] # 0 /\ y[2] = session.disk[session.at[y[1]]]
  BY DEF Names
<1>3. at[p] # 0 /\ x[2] = session.disk[session.at[p]]
  BY <1>1, <1>2
<1>4. <<p, disk[at[p]]>> \in named
  BY <1>3 DEF TreeInv, Names
<1>5. <<p, disk[at[p]]>>[1] = p /\ <<p, disk[at[p]]>>[2] = disk[at[p]]
  OBVIOUS
<1> HIDE DEF origin, p
<1>6. <<p, disk[at[p]]>> \in origin
  BY <1>1, <1>4, <1>5
<1>7. disk[at[p]] = session.disk[session.at[p]]
  BY <1>2, <1>5, <1>6
<1> QED BY <1>3, <1>7 DEF IsThere, Node, p

-----------------------------------------------------------------------------
(* Every step says what it takes away.                                    *)

LEMMA BufferSilence == IInv /\ SilenceInv /\ Buffer => SilenceInv'
<1> SUFFICES ASSUME IInv, SilenceInv, Buffer PROVE SilenceInv'
  OBVIOUS
<1>1. /\ pc \in Early /\ UNCHANGED <<session, disk, at, named, frames, leaves, files>>
      /\ pc' \in Early \union {"walk"} /\ (pc' = "walk" => job' = 1)
  BY DEF IInv, TypeInv, Buffer, CollectDB, BufferDBFile, PackagesDone, BufferPath, BuffersDone,
         Phase, Early, treeVars
<1>2. files = {} /\ frames = <<>>
  BY <1>1 DEF IInv, WalkInv
<1>3. pc' \notin Late
  BY <1>1 DEF Early, Late
<1>4. AgreeInv' /\ ListedInv' /\ PoolInv' /\ UnreadInv' /\ GrownInv'
  <2>1. files' = {} /\ frames' = <<>>
    BY <1>1, <1>2
  <2>2. AgreeInv' /\ UnreadInv'
    BY <2>1 DEF AgreeInv, UnreadInv
  <2>3. ListedInv'
    BY <2>1 DEF ListedInv
  <2>4. PoolInv' /\ GrownInv'
    BY <1>1, <1>3 DEF SilenceInv, PoolInv, GrownInv
  <2> QED BY <2>2, <2>3, <2>4
<1>5. ASSUME NEW p \in Paths, Entered(p)', pc' = "walk"
      PROVE  FALSE
  <2>1. PICK i \in DOMAIN Subtrees : i < 1
    BY <1>1, <1>3, <1>5 DEF Entered, Subtree, Subtrees
  <2>2. DOMAIN Subtrees = 1..Len(Subtrees)
    BY SubtreesFacts DEF IInv
  <2> QED BY <2>1, <2>2
<1>6. WalkedInv'
  BY <1>1, <1>5 DEF WalkedInv
<1> QED BY <1>4, <1>6 DEF SilenceInv

\* A step of the walk: more is said, and what it took from the frames, or
\* entered, is met.
LEMMA WalkSilence ==
    ASSUME IInv, SilenceInv, pc = "walk", pc' = "walk", UNCHANGED <<session, treeVars>>,
           gaps \subseteq gaps', skipped \subseteq skipped',
           Spoken(files, leaves) \subseteq Spoken(files', leaves'),
           \A f \in files' : f \in files \/ (/\ f.path \in Paths /\ f.kind # "unread"
                                             /\ Untouched(f.path) => Agrees(f)),
           ListedInv',
           \A p \in Paths : /\ Untouched(p) /\ Reaches(p) /\ Entered(p)'
                            /\ ~Entered(p) \/ Pending(p)
                            => Met(p)'
    PROVE  SilenceInv'
<1>1. pc \notin Late /\ pc' \notin Late /\ pc \notin Early
  BY DEF Late, Early
<1>2. UNCHANGED <<session, disk>>
  BY DEF treeVars
<1>3. AgreeInv'
  <2>1. \A f \in files' : f.path \in Paths /\ (Untouched(f.path) => Agrees(f))
    BY DEF SilenceInv, AgreeInv
  <2> QED BY <2>1, Unmoved DEF AgreeInv
<1>4. UnreadInv' /\ PoolInv' /\ GrownInv'
  BY <1>1, <1>2 DEF SilenceInv, UnreadInv, PoolInv, GrownInv
<1>5. ASSUME NEW p \in Paths, Untouched(p)', Reaches(p)', Entered(p)'
      PROVE  Met(p)'
  <2>1. Untouched(p) /\ Reaches(p)
    BY <1>5, Unmoved
  <2>2. CASE ~Entered(p) \/ Pending(p)
    BY <1>5, <2>1, <2>2
  <2>3. CASE Entered(p) /\ ~Pending(p)
    <3>1. Met(p)
      BY <1>1, <2>1, <2>3 DEF SilenceInv, WalkedInv
    <3>2. Excused(p) \/ Gap("collect-walk", Top) \in gaps \/ p \in Spoken(files, leaves)
      BY <2>3, <3>1 DEF Met
    <3> QED BY <3>2 DEF Met, Excused
  <2> QED BY <2>2, <2>3
<1>6. WalkedInv'
  BY <1>5 DEF WalkedInv
<1> QED BY <1>3, <1>4, <1>6 DEF SilenceInv

\* An entry is passed: what it leads to is spoken for, or excused.
LEMMA PassSilence ==
    ASSUME IInv, SilenceInv, Walking, UNCHANGED <<session, treeVars, pc, job>>,
           frames' = <<Passed>> \o Tail(frames),
           gaps \subseteq gaps', skipped \subseteq skipped',
           Spoken(files, leaves) \subseteq Spoken(files', leaves'),
           \A f \in files' : f \in files \/ (/\ f.path \in Paths /\ f.kind # "unread"
                                             /\ Untouched(f.path) => Agrees(f)),
           \A p \in Span(Entry) : Untouched(p) /\ Reaches(p) => Excused(p)' \/ p \in Spoken(files', leaves')
    PROVE  SilenceInv'
<1>1. pc = "walk" /\ pc' = "walk" /\ frames # <<>> /\ Here.entries # {} /\ frames \in Seq(Frames)
  BY DEF IInv, TypeInv, Walking
<1>2. /\ DOMAIN frames' = DOMAIN frames /\ 1 \in DOMAIN frames /\ frames'[1] = Passed
      /\ \A k \in DOMAIN frames : k # 1 => frames'[k] = frames[k]
      /\ Here = frames[1] /\ Here \in Frames /\ Passed.entries = Here.entries \ {Entry}
  BY <1>1, Stacks
<1>3. Passed.dir = Here.dir
  BY <1>2 DEF Passed, Frames
<1>4. \A k \in DOMAIN frames : frames'[k].dir = frames[k].dir /\ frames'[k].entries \subseteq frames[k].entries
  BY <1>2, <1>3
<1>5. ListedInv'
  <2>1. ASSUME NEW k \in DOMAIN frames', NEW e \in frames'[k].entries
        PROVE  Parent[e.path] = frames'[k].dir /\ (Untouched(e.path) => Is(e.path, e.kind))
    BY <1>2, <1>4, <2>1 DEF SilenceInv, ListedInv
  <2> QED BY <2>1, Unmoved DEF ListedInv
<1>6. ASSUME NEW p \in Paths, Untouched(p), Reaches(p), Entered(p)', ~Entered(p) \/ Pending(p)
      PROVE  Met(p)'
  <2>1. Entered(p)
    BY <1>6, Unmoved DEF Entered
  <2>2. PICK k \in DOMAIN frames : \E e \in frames[k].entries : p \in Span(e)
    BY <1>6, <2>1 DEF Pending
  <2>3. PICK e \in frames[k].entries : p \in Span(e)
    BY <2>2
  <2>4. CASE e \in frames'[k].entries
    <3>1. Pending(p)'
      BY <1>2, <2>3, <2>4 DEF Pending
    <3> QED BY <1>1, <3>1 DEF Met
  <2>5. CASE e \notin frames'[k].entries
    <3>1. e = Entry
      BY <1>2, <2>3, <2>5
    <3>2. Excused(p)' \/ p \in Spoken(files', leaves')
      BY <1>6, <2>3, <3>1
    <3> QED BY <3>2 DEF Met
  <2> QED BY <2>4, <2>5
<1> QED BY <1>1, <1>5, <1>6, WalkSilence

\* What is left of a directory is given up, if there is any, with a gap.
LEMMA DropSilence ==
    ASSUME IInv, SilenceInv, pc = "walk", frames # <<>>, frames' = Tail(frames),
           UNCHANGED <<session, treeVars, pc, job, files, leaves, skipped>>,
           gaps \subseteq gaps', Here.entries = {} \/ Gap("collect-walk", Here.dir) \in gaps'
    PROVE  SilenceInv'
<1>1. /\ frames \in Seq(Frames) /\ pc' = "walk"
      /\ DOMAIN frames = 1..Len(frames) /\ Len(frames) \in Nat
  BY DEF IInv, TypeInv
<1>2. /\ Here = frames[1] /\ Here \in Frames /\ Here.entries \in SUBSET Entries
      /\ \A k \in DOMAIN frames' : k + 1 \in DOMAIN frames /\ frames'[k] = frames[k + 1]
      /\ DOMAIN frames' = 1..(Len(frames) - 1)
  BY <1>1, Stacks
<1>3. ListedInv'
  <2>1. ASSUME NEW k \in DOMAIN frames', NEW e \in frames'[k].entries
        PROVE  Parent[e.path] = frames'[k].dir /\ (Untouched(e.path) => Is(e.path, e.kind))
    BY <1>2, <2>1 DEF SilenceInv, ListedInv
  <2> QED BY <2>1, Unmoved DEF ListedInv
<1>4. ASSUME NEW p \in Paths, Untouched(p), Reaches(p), Entered(p)', ~Entered(p) \/ Pending(p)
      PROVE  Met(p)'
  <2>1. Entered(p)
    BY <1>4, Unmoved DEF Entered
  <2>2. PICK k \in DOMAIN frames : \E e \in frames[k].entries : p \in Span(e)
    BY <1>4, <2>1 DEF Pending
  <2>3. PICK e \in frames[k].entries : p \in Span(e)
    BY <2>2
  <2>4. CASE k # 1
    <3>1. k - 1 \in DOMAIN frames' /\ (k - 1) + 1 = k
      BY <1>1, <1>2, <2>4
    <3>2. frames'[k - 1] = frames[k]
      BY <1>2, <3>1
    <3>3. Pending(p)'
      BY <2>3, <3>1, <3>2 DEF Pending
    <3> QED BY <1>1, <3>3 DEF Met
  <2>5. CASE k = 1
    <3>1. Gap("collect-walk", Here.dir) \in gaps' /\ Parent[e.path] = Here.dir
      BY <1>2, <2>3, <2>5 DEF SilenceInv, ListedInv
    <3>2. e.path \in {p} \union Above[p] /\ e.path \in Paths
      BY <2>3, SpanFacts
    <3>3. Here.dir = Top \/ Here.dir \in Above[e.path]
      BY <3>1, <3>2, AboveFacts
    <3>4. Here.dir = Top \/ Here.dir \in Above[p]
      BY <3>2, <3>3, AboveOrder
    <3> QED BY <3>1, <3>4 DEF Met, Excused
  <2> QED BY <2>4, <2>5
<1> QED BY <1>1, <1>3, <1>4, WalkSilence DEF Spoken

\* A directory that is listed leads to what is beneath it.
LEMMA DescendSilence ==
    ASSUME IInv, SilenceInv, Walking, UNCHANGED <<session, treeVars, pc, job, leaves, gaps, skipped>>,
           NEW policy \in Nat, frames' = <<Frame(Entry.path, policy), Passed>> \o Tail(frames),
           NEW f, files' = files \union {f}, f.path = Entry.path, f.kind = "dir", Is(Entry.path, "dir")
    PROVE  SilenceInv'
<1> DEFINE d == Entry.path
           x == Frame(d, policy)
<1>1. pc = "walk" /\ pc' = "walk" /\ frames # <<>> /\ Here.entries # {} /\ frames \in Seq(Frames)
  BY DEF IInv, TypeInv, Walking
<1>2. Here = frames[1] /\ Here \in Frames /\ Passed.entries = Here.entries \ {Entry}
  BY <1>1, Stacks
<1>3. Entry \in Here.entries /\ d \in Paths
  <2>1. Entry \in Here.entries
    BY <1>1, <1>2, EntryIn
  <2>2. Entry \in Entries
    BY <1>2, <2>1 DEF Frames
  <2> QED BY <2>1, <2>2 DEF Entries
<1>4. Passed.dir = Here.dir
  BY <1>2 DEF Passed, Frames
<1>5. x \in Frames /\ x.entries = Listing(d) /\ x.dir = d
  BY <1>3, FrameType DEF IInv, Frame
<1>6. /\ DOMAIN frames' = 1..(Len(frames) + 1) /\ frames'[1] = x /\ frames'[2] = Passed
      /\ \A k \in DOMAIN frames' : k \notin {1, 2} => k - 1 \in DOMAIN frames /\ frames'[k] = frames[k - 1]
  <2> HIDE DEF x
  <2>1. frames' = <<x, Passed>> \o Tail(frames)
    BY DEF x
  <2> QED BY <1>1, <1>5, <2>1, Stacks
<1>7. DOMAIN frames = 1..Len(frames) /\ Len(frames) \in Nat /\ 1 \in DOMAIN frames
  BY <1>1
<1> HIDE DEF d, x
<1>8. ASSUME NEW k \in DOMAIN frames', NEW e \in frames'[k].entries
      PROVE  Parent[e.path] = frames'[k].dir /\ (Untouched(e.path) => Is(e.path, e.kind))
  <2>1. CASE k = 1
    BY <1>5, <1>6, <1>8, <2>1 DEF Listing, Is
  <2>2. CASE k = 2
    BY <1>2, <1>4, <1>6, <1>7, <1>8, <2>2 DEF SilenceInv, ListedInv
  <2>3. CASE k \notin {1, 2}
    BY <1>6, <1>8, <2>3 DEF SilenceInv, ListedInv
  <2> QED BY <2>1, <2>2, <2>3
<1>9. ListedInv'
  BY <1>8, Unmoved DEF ListedInv
<1>10. ASSUME NEW p \in Paths, Untouched(p), Reaches(p), Entered(p)', ~Entered(p) \/ Pending(p)
       PROVE  Met(p)'
  <2>1. Entered(p)
    BY <1>10, Unmoved DEF Entered
  <2>2. PICK k \in DOMAIN frames : \E e \in frames[k].entries : p \in Span(e)
    BY <1>10, <2>1 DEF Pending
  <2>3. PICK e \in frames[k].entries : p \in Span(e)
    BY <2>2
  <2>4. CASE k # 1
    <3>1. k + 1 \in DOMAIN frames' /\ k + 1 \notin {1, 2} /\ (k + 1) - 1 = k
      BY <1>6, <1>7, <2>4
    <3>2. frames'[k + 1] = frames[k]
      BY <1>6, <3>1
    <3>3. Pending(p)'
      BY <2>3, <3>1, <3>2 DEF Pending
    <3> QED BY <1>1, <3>3 DEF Met
  <2>5. CASE k = 1 /\ e # Entry
    <3>1. 2 \in DOMAIN frames' /\ e \in frames'[2].entries
      BY <1>2, <1>6, <1>7, <2>3, <2>5
    <3>2. Pending(p)'
      BY <2>3, <3>1 DEF Pending
    <3> QED BY <1>1, <3>2 DEF Met
  <2>6. CASE k = 1 /\ e = Entry
    <3>1. p = d \/ d \in Above[p]
      BY <2>3, <2>6, SpanFacts DEF d
    <3>2. CASE p = d
      BY <3>2 DEF Met, Spoken, d
    <3>3. CASE d \in Above[p]
      <4>1. PICK y \in Listing(d) : p \in Span(y)
        BY <1>10, <3>3, ListingLeads
      <4>2. 1 \in DOMAIN frames' /\ y \in frames'[1].entries
        BY <1>5, <1>6, <1>7, <4>1
      <4>3. Pending(p)'
        BY <4>1, <4>2 DEF Pending
      <4> QED BY <1>1, <4>3 DEF Met
    <3> QED BY <3>1, <3>2, <3>3
  <2> QED BY <2>4, <2>5, <2>6
<1>11. \A g \in files' : g \in files \/ (/\ g.path \in Paths /\ g.kind # "unread"
                                         /\ Untouched(g.path) => Agrees(g))
  BY <1>3 DEF Agrees, d
<1> QED BY <1>1, <1>9, <1>10, <1>11, WalkSilence DEF Spoken

LEMMA EnterSilence == IInv /\ SilenceInv /\ EnterSubtree => SilenceInv'
<1> SUFFICES ASSUME IInv, SilenceInv, EnterSubtree PROVE SilenceInv'
  OBVIOUS
<1> DEFINE d == Subtrees[job]
<1>1. /\ pc = "walk" /\ pc' = "walk" /\ frames = <<>> /\ job <= Len(Subtrees) /\ job' = job + 1
      /\ UNCHANGED <<session, treeVars, files, leaves, skipped>> /\ gaps \subseteq gaps'
      /\ \/ \E policy \in Nat : frames' = <<Frame(d, policy)>>
         \/ /\ frames' = <<>>
            /\ Gap("collect-walk", d) \in gaps' \/ (d # Top /\ Enoent(d))
  BY DEF EnterSubtree, HashNever, HashAlways, AddGap
<1>2. /\ job \in Nat \ {0} /\ DOMAIN Subtrees = 1..Len(Subtrees) /\ Len(Subtrees) \in Nat
      /\ d \in Paths \union {Top} /\ pc \notin Late /\ pc' \notin Late
  BY <1>1, SubtreesFacts DEF IInv, TypeInv, Late
<1>3. \A policy : Frame(d, policy).entries = Listing(d) /\ Frame(d, policy).dir = d
  BY DEF Frame
<1>4. \A e \in Listing(d) : Parent[e.path] = d /\ Is(e.path, e.kind)
  BY DEF Listing, Is
<1>5. \A p \in Paths : ~Pending(p)
  BY <1>1 DEF Pending
<1> HIDE DEF d
<1>6. ListedInv'
  <2>1. ASSUME NEW policy, frames' = <<Frame(d, policy)>>
        PROVE  \A k \in DOMAIN frames' : \A e \in frames'[k].entries :
                  Parent[e.path] = frames'[k].dir /\ Is(e.path, e.kind)
    <3>1. DOMAIN frames' = {1} /\ frames'[1] = Frame(d, policy)
      BY <2>1
    <3> QED BY <1>3, <1>4, <3>1
  <2>2. \A k \in DOMAIN frames' : \A e \in frames'[k].entries :
           Parent[e.path] = frames'[k].dir /\ Is(e.path, e.kind)
    BY <1>1, <2>1
  <2> QED BY <1>1, <2>2, Unmoved DEF ListedInv
<1>7. ASSUME NEW p \in Paths, Untouched(p), Reaches(p), Entered(p)', ~Entered(p)
      PROVE  Met(p)'
  <2>1. PICK i \in Subtree(p) : i < job + 1
    BY <1>1, <1>2, <1>7, Unmoved DEF Entered
  <2>2. i \in Nat /\ ~(i < job)
    BY <1>2, <1>7, <2>1 DEF Entered, Subtree
  <2>3. i = job
    BY <1>2, <2>1, <2>2
  <2>4. d \in {Top} \union Above[p]
    BY <2>1, <2>3 DEF Subtree, d
  <2>5. ASSUME NEW policy, frames' = <<Frame(d, policy)>>
        PROVE  Met(p)'
    <3>1. PICK y \in Listing(d) : p \in Span(y)
      BY <1>7, <2>4, ListingLeads
    <3>2. 1 \in DOMAIN frames' /\ y \in frames'[1].entries
      BY <1>3, <2>5, <3>1
    <3>3. Pending(p)'
      BY <3>1, <3>2 DEF Pending
    <3> QED BY <1>1, <3>3 DEF Met
  <2>6. CASE Gap("collect-walk", d) \in gaps'
    BY <2>4, <2>6 DEF Met, Excused
  <2>7. CASE d # Top /\ Enoent(d)
    <3>1. d \in Above[p] /\ Is(d, "dir") /\ Reaches(d)
      BY <1>7, <2>4, <2>7, SpanFacts
    <3>2. FALSE
      BY <2>7, <3>1 DEF Enoent, Reaches, Blocks
    <3> QED BY <3>2
  <2> QED BY <1>1, <2>5, <2>6, <2>7
<1> QED BY <1>1, <1>5, <1>6, <1>7, WalkSilence

LEMMA StepsSilence ==
    IInv /\ SilenceInv /\ (SkipEntry \/ StopWalk \/ WalkChildDir \/ QueueFile \/ RecordEntry \/ LeaveDir)
        => SilenceInv'
<1> SUFFICES ASSUME IInv, SilenceInv,
                    SkipEntry \/ StopWalk \/ WalkChildDir \/ QueueFile \/ RecordEntry \/ LeaveDir
             PROVE  SilenceInv'
  OBVIOUS
<1> DEFINE d == Entry.path
<1>w. pc = "walk" /\ ~done
  BY DEF SkipEntry, StopWalk, WalkChildDir, QueueFile, RecordEntry, LeaveDir, Counted, Walking, done
<1>1. Walking => /\ Entry \in Here.entries /\ Entry \in Entries /\ d \in Paths /\ Here.policy \in Nat
                 /\ Untouched(d) => Is(d, Entry.kind)
  <2> SUFFICES ASSUME Walking
               PROVE  /\ Entry \in Here.entries /\ Entry \in Entries /\ d \in Paths /\ Here.policy \in Nat
                      /\ Untouched(d) => Is(d, Entry.kind)
    OBVIOUS
  <2>1. Here.entries # {} /\ frames # <<>> /\ frames \in Seq(Frames)
    BY DEF Walking, IInv, TypeInv
  <2>2. Here \in Frames /\ Here.entries \in SUBSET Entries /\ Here = frames[1] /\ 1 \in DOMAIN frames
    BY <2>1, Stacks
  <2>3. Entry \in Here.entries
    BY <2>1, <2>2, EntryIn
  <2> QED BY <2>2, <2>3 DEF Frames, Entries, SilenceInv, ListedInv
<1>2. Walking => \A p \in Span(Entry) : p \in Paths /\ (p = d \/ d \in Above[p])
  BY <1>1 DEF Span, Below
<1>3. ASSUME Walking, NEW p \in Span(Entry), Untouched(p), Reaches(p)
      PROVE  /\ p = d \/ Entry.kind = "dir"
             /\ \A g : g \subseteq gaps' /\ Gap("collect-walk", d) \in g => Excused(p)'
             /\ d \in skipped' => Excused(p)'
  <2>1. p \in Paths /\ (p = d \/ d \in Above[p])
    BY <1>2, <1>3
  <2>2. p # d => Is(d, "dir") /\ Untouched(d)
    BY <1>3, <2>1, SpanFacts
  <2>3. p # d => Entry.kind = "dir"
    BY <1>1, <1>3, <2>2 DEF Is
  <2> QED BY <2>1, <2>3 DEF Excused
<1> HIDE DEF d
<1>4. SkipEntry => SilenceInv'
  <2> SUFFICES ASSUME SkipEntry PROVE SilenceInv'
    OBVIOUS
  <2>1. /\ Walking /\ frames' = <<Passed>> \o Tail(frames) /\ skipped' = skipped \union {d}
        /\ UNCHANGED <<session, treeVars, pc, job, leaves, files, gaps>>
    BY DEF SkipEntry, d
  <2>2. \A p \in Span(Entry) : Untouched(p) /\ Reaches(p) => Excused(p)'
    BY <1>3, <2>1
  <2> QED BY <2>1, <2>2, PassSilence DEF Spoken
<1>5. StopWalk => SilenceInv'
  BY <1>w, DropSilence DEF StopWalk, Walking, AddGap
<1>6. LeaveDir => SilenceInv'
  BY <1>w, DropSilence DEF LeaveDir
<1>7. QueueFile => SilenceInv'
  <2> SUFFICES ASSUME QueueFile PROVE SilenceInv'
    OBVIOUS
  <2> DEFINE l == [path |-> d, policy |-> Here.policy, recorded |-> FALSE]
  <2>1. /\ Walking /\ frames' = <<Passed>> \o Tail(frames) /\ leaves' = Append(leaves, l)
        /\ UNCHANGED <<session, treeVars, pc, job, files, gaps, skipped>> /\ Entry.kind = "file"
    BY DEF QueueFile, Counted, d
  <2>2. l.path = d
    OBVIOUS
  <2> HIDE DEF l
  <2>3. Range(leaves') = Range(leaves) \union {l}
    <3>1. leaves \in Seq(Leaves)
      BY DEF IInv, TypeInv
    <3>2. /\ DOMAIN leaves' = 1..(Len(leaves) + 1) /\ DOMAIN leaves = 1..Len(leaves) /\ Len(leaves) \in Nat
          /\ \A i \in DOMAIN leaves : leaves'[i] = leaves[i]
          /\ leaves'[Len(leaves) + 1] = l
      BY <2>1, <3>1
    <3>3. \A i \in DOMAIN leaves' : i \in DOMAIN leaves \/ i = Len(leaves) + 1
      BY <3>2
    <3>4. Len(leaves) + 1 \in DOMAIN leaves' /\ DOMAIN leaves \subseteq DOMAIN leaves'
      BY <3>2
    <3> QED BY <3>2, <3>3, <3>4 DEF Range
  <2>4. Spoken(files', leaves') = Spoken(files, leaves) \union {d}
    BY <2>1, <2>2, <2>3 DEF Spoken
  <2>5. \A p \in Span(Entry) : Untouched(p) /\ Reaches(p) => p \in Spoken(files', leaves')
    BY <1>3, <2>1, <2>4
  <2> QED BY <2>1, <2>4, <2>5, PassSilence
<1>8. WalkChildDir => SilenceInv'
  <2> SUFFICES ASSUME WalkChildDir PROVE SilenceInv'
    OBVIOUS
  <2> DEFINE f == FileFromStat(d, "dir", Node(d))
  <2>1. /\ Walking /\ UNCHANGED <<session, treeVars, pc, job, leaves, skipped>>
        /\ \/ /\ Is(d, "dir") /\ files' = files \union {f} /\ gaps' = gaps
              /\ frames' = <<Frame(d, Here.policy), Passed>> \o Tail(frames)
           \/ /\ Is(d, "dir") /\ files' = files \union {f} /\ gaps' = gaps \union {Gap("collect-walk", d)}
              /\ frames' = <<Passed>> \o Tail(frames)
           \/ /\ files' = files /\ gaps' = gaps \union {Gap("collect-walk", d)}
              /\ frames' = <<Passed>> \o Tail(frames)
    BY <1>w DEF WalkChildDir, Counted, AddFile, AddGap, d
  <2>2. f.path = d /\ f.kind = "dir"
    BY DEF FileFromStat
  <2> HIDE DEF f
  <2>3. ASSUME Is(d, "dir"), files' = files \union {f}, gaps' = gaps,
               frames' = <<Frame(d, Here.policy), Passed>> \o Tail(frames)
        PROVE  SilenceInv'
    <3>1. Here.policy \in Nat
      BY <1>1, <2>1
    <3> QED BY <2>1, <2>2, <2>3, <3>1, DescendSilence DEF d
  <2>4. ASSUME gaps' = gaps \union {Gap("collect-walk", d)}, frames' = <<Passed>> \o Tail(frames),
               \/ files' = files
               \/ Is(d, "dir") /\ files' = files \union {f}
        PROVE  SilenceInv'
    <3>1. \A g \in files' : g \in files \/ (/\ g.path \in Paths /\ g.kind # "unread"
                                            /\ Untouched(g.path) => Agrees(g))
      BY <1>1, <2>1, <2>2, <2>4 DEF Agrees
    <3>2. \A p \in Span(Entry) : Untouched(p) /\ Reaches(p) => Excused(p)'
      BY <1>3, <2>1, <2>4
    <3>3. files \subseteq files' /\ gaps \subseteq gaps'
      BY <2>4
    <3> QED BY <2>1, <2>4, <3>1, <3>2, <3>3, PassSilence DEF Spoken
  <2> QED BY <2>1, <2>3, <2>4
<1>9. RecordEntry => SilenceInv'
  <2> SUFFICES ASSUME RecordEntry PROVE SilenceInv'
    OBVIOUS
  <2> DEFINE record == FileFromStat(d, Entry.kind, Node(d))
             f == IF Entry.kind = "link" THEN [record EXCEPT !.text = Node(d).text] ELSE record
  <2>1. /\ Walking /\ UNCHANGED <<session, treeVars, pc, job, leaves, skipped>> /\ frames' = <<Passed>> \o Tail(frames)
        /\ Entry.kind \in {"link", "other"}
        /\ \/ files' = files \union {f} /\ gaps' = gaps
           \/ files' = files /\ gaps' = gaps \union {Gap("collect-walk", d)}
    BY <1>w DEF RecordEntry, Counted, AddFile, AddGap, d
  <2>2. f.path = d /\ f.kind = Entry.kind
    BY DEF FileFromStat
  <2> HIDE DEF f
  <2>3. \A g \in files' : g \in files \/ (/\ g.path \in Paths /\ g.kind # "unread"
                                          /\ Untouched(g.path) => Agrees(g))
    BY <1>1, <2>1, <2>2 DEF Agrees
  <2>4. \A p \in Span(Entry) : Untouched(p) /\ Reaches(p) => Excused(p)' \/ p \in Spoken(files', leaves')
    <3>1. ASSUME NEW p \in Span(Entry), Untouched(p), Reaches(p)
          PROVE  Excused(p)' \/ p \in Spoken(files', leaves')
      <4>1. p = d
        BY <1>3, <2>1, <3>1
      <4>2. CASE files' = files \union {f}
        BY <2>2, <4>1, <4>2 DEF Spoken
      <4>3. CASE gaps' = gaps \union {Gap("collect-walk", d)}
        BY <1>3, <2>1, <3>1, <4>3
      <4> QED BY <2>1, <4>2, <4>3
    <3> QED BY <3>1
  <2>5. files \subseteq files' /\ gaps \subseteq gaps'
    BY <2>1
  <2> QED BY <2>1, <2>3, <2>4, <2>5, PassSilence DEF Spoken
<1> QED BY <1>4, <1>5, <1>6, <1>7, <1>8, <1>9

\* After the walk: records of the leaves, and gaps.
LEMMA LateSilence ==
    ASSUME IInv, SilenceInv, pc \in Late, pc' \in Late, UNCHANGED <<session, treeVars, frames, leaves, skipped>>,
           gaps \subseteq gaps', files \subseteq files',
           \A f \in files' : f \in files \/ (f.path \in Paths /\ (Untouched(f.path) => Agrees(f))),
           PoolInv', UnreadInv'
    PROVE  SilenceInv'
<1>1. UNCHANGED <<session, disk>> /\ pc # "walk" /\ pc' # "walk" /\ pc \notin Early
  BY DEF treeVars, Late, Early
<1>2. AgreeInv'
  <2>1. \A f \in files' : f.path \in Paths /\ (Untouched(f.path) => Agrees(f))
    BY DEF SilenceInv, AgreeInv
  <2> QED BY <2>1, Unmoved DEF AgreeInv
<1>3. ListedInv'
  BY Unmoved DEF SilenceInv, ListedInv
<1>4. WalkedInv'
  <2>1. ASSUME NEW p \in Paths, Untouched(p)', Reaches(p)', Entered(p)'
        PROVE  Met(p)'
    <3>1. Untouched(p) /\ Reaches(p) /\ Entered(p)
      BY <2>1, Unmoved DEF Entered
    <3>2. Excused(p) \/ Gap("collect-walk", Top) \in gaps \/ p \in Spoken(files, leaves)
      BY <1>1, <3>1 DEF SilenceInv, WalkedInv, Met
    <3> QED BY <3>2 DEF Met, Excused, Spoken
  <2> QED BY <2>1 DEF WalkedInv
<1>5. GrownInv'
  BY <1>1 DEF SilenceInv, GrownInv
<1> QED BY <1>2, <1>3, <1>4, <1>5 DEF SilenceInv

LEMMA AppendSilence == IInv /\ IInv' /\ SilenceInv /\ AppendRecorded => SilenceInv'
<1> SUFFICES ASSUME IInv, IInv', SilenceInv, AppendRecorded PROVE SilenceInv'
  OBVIOUS
<1>1. /\ pc = "walk" /\ pc' = "hash" /\ leaves' = WithRecorded /\ frames = <<>> /\ job > Len(Subtrees)
      /\ UNCHANGED <<session, treeVars, frames, files, skipped>> /\ gaps \subseteq gaps'
      /\ subjects' = [i \in DOMAIN leaves' |-> Unstarted(leaves'[i])]
      /\ workers' = [w \in 1..Workers |-> IF w <= Len(leaves') THEN w ELSE 0]
      /\ next' = Workers + 1
  BY DEF AppendRecorded
<1>2. /\ leaves \in Seq(Leaves) /\ job \in Nat \ {0} /\ pc \notin Late /\ pc \notin Early
      /\ pc' \in Late /\ pc' # "walk"
      /\ DOMAIN Subtrees = 1..Len(Subtrees) /\ Len(Subtrees) \in Nat
  BY <1>1, SubtreesFacts DEF IInv, TypeInv, Late, Early
<1>3. leaves' \in Queues
  <2>1. leaves \in Queues
    BY <1>1, <1>2 DEF Queues, IInv, LeavesInv
  <2> QED BY <1>1, <2>1, RecordedType, WithRecordedIn DEF IInv
<1>4. leaves' \in Seq(Leaves) /\ \A i \in DOMAIN leaves : i \in DOMAIN leaves' /\ leaves'[i].path = leaves[i].path
  BY <1>3 DEF Queues
<1>5. Spoken(files, leaves) \subseteq Spoken(files', leaves')
  BY <1>1, <1>4 DEF Spoken, Range
<1>6. AgreeInv'
  BY <1>1, Unmoved DEF SilenceInv, AgreeInv
<1>7. ListedInv'
  BY <1>1 DEF ListedInv
<1>8. WalkedInv'
  <2>1. ASSUME NEW p \in Paths, Untouched(p)', Reaches(p)', Entered(p)'
        PROVE  Met(p)'
    <3>1. Untouched(p) /\ Reaches(p) /\ \E i \in Subtree(p) : TRUE
      BY <1>1, <2>1, Unmoved DEF Entered
    <3>2. Entered(p)
      BY <1>1, <1>2, <3>1 DEF Entered, Subtree
    <3>3. ~Pending(p)
      BY <1>1 DEF Pending
    <3>4. Excused(p) \/ Gap("collect-walk", Top) \in gaps \/ p \in Spoken(files, leaves)
      BY <1>2, <3>1, <3>2, <3>3 DEF SilenceInv, WalkedInv, Met
    <3> QED BY <1>1, <1>5, <3>4 DEF Met, Excused
  <2> QED BY <2>1 DEF WalkedInv
<1>9. PoolInv'
  <2>1. DOMAIN leaves' = 1..Len(leaves') /\ Len(leaves') \in Nat /\ Workers \in Nat \ {0}
    BY <1>4, BoundsAssumption
  <2> DEFINE n == Len(leaves')
             ws == workers'
  <2>2. n \in Nat /\ ws = [w \in 1..Workers |-> IF w <= n THEN w ELSE 0]
    BY <1>1, <2>1
  <2> HIDE DEF n, ws
  <2>3. ws \in [1..Workers -> 0..n] /\ \A w \in 1..Workers : ws[w] = 0 => Workers + 1 > n
    BY <2>1, <2>2
  <2>4. \A i \in 1..n : i < Workers + 1 => \E w \in 1..Workers : ws[w] = i
    BY <2>1, <2>2
  <2>5. \A i \in DOMAIN leaves' : subjects'[i].step # "answered"
    BY <1>1 DEF Unstarted
  <2>6. next' \in Nat \ {0}
    BY <1>1, <2>1
  <2> QED BY <1>1, <2>1, <2>3, <2>4, <2>5, <2>6 DEF PoolInv, Answered, n, ws
<1>10. UnreadInv' /\ GrownInv'
  BY <1>1, <1>2 DEF SilenceInv, UnreadInv, GrownInv, treeVars
<1> QED BY <1>6, <1>7, <1>8, <1>9, <1>10 DEF SilenceInv

LEMMA PoolSilence == IInv /\ SilenceInv /\ Pool => SilenceInv'
<1> SUFFICES ASSUME IInv, SilenceInv, Pool PROVE SilenceInv'
  OBVIOUS
<1>1. /\ pc = "hash" /\ pc' \in Late /\ UNCHANGED <<session, treeVars, frames, leaves, skipped, files, subjects>>
      /\ gaps \subseteq gaps'
  BY DEF Pool, Deliver, TimeOut, Close, Phase, Late, AddGap, poolVars
<1>2. pc \in Late
  BY <1>1 DEF Late
<1>3. UnreadInv'
  BY <1>1, <1>2 DEF SilenceInv, UnreadInv, Path, Answered
<1>4. /\ workers \in [1..Workers -> 0..Len(leaves)] /\ next \in Nat \ {0} /\ Len(leaves) \in Nat
      /\ DOMAIN leaves = 1..Len(leaves)
      /\ \A w \in 1..Workers : workers[w] = 0 => next > Len(leaves)
      /\ \A i \in DOMAIN leaves : i < next =>
            (\E w \in 1..Workers : workers[w] = i) \/ Gapped(i) \/ Answered(i, FALSE)
      /\ \A i \in DOMAIN leaves : Answered(i, FALSE) => Described(Path(i)) \/ Gapped(i)
      /\ subjects \in [DOMAIN leaves -> Subjects]
  <2>1. leaves \in Seq(Leaves) /\ subjects \in [DOMAIN leaves -> Subjects]
    BY <1>2 DEF IInv, TypeInv
  <2>2. Len(leaves) \in Nat /\ DOMAIN leaves = 1..Len(leaves)
    BY <2>1
  <2> QED BY <1>2, <2>1, <2>2 DEF SilenceInv, PoolInv
<1>5. \A i : (Gapped(i) => Gapped(i)') /\ (Answered(i, FALSE)' <=> Answered(i, FALSE)) /\ Path(i)' = Path(i)
  BY <1>1 DEF Gapped, Answered, Path
<1>6. \A i \in DOMAIN leaves' : Answered(i, FALSE)' => Described(Path(i))' \/ Gapped(i)'
  BY <1>1, <1>4, <1>5 DEF Described
<1>7. ASSUME NEW w \in 1..Workers, NEW j, workers[w] = j, TakeNext(w), pc' = "hash",
             Gapped(j)' \/ Answered(j, FALSE)
      PROVE  PoolInv'
  <2> DEFINE n == Len(leaves)
  <2>1. CASE next <= n
    <3>1. workers' = [workers EXCEPT ![w] = next] /\ next' = next + 1
      BY <2>1, <1>7 DEF TakeNext
    <3>2. next \in 0..n /\ next # 0 /\ n \in Nat
      BY <1>4, <2>1
    <3> HIDE DEF n
    <3>3. workers' \in [1..Workers -> 0..n] /\ next' \in Nat \ {0}
      BY <1>4, <3>1, <3>2 DEF n
    <3>4. \A v \in 1..Workers : workers'[v] = IF v = w THEN next ELSE workers[v]
      BY <1>4, <3>1
    <3>5. \A v \in 1..Workers : workers'[v] # 0
      BY <1>4, <2>1, <3>2, <3>4 DEF n
    <3>6. ASSUME NEW i \in DOMAIN leaves, i < next'
          PROVE  (\E v \in 1..Workers : workers'[v] = i) \/ Gapped(i)' \/ Answered(i, FALSE)'
      <4>1. CASE i = next
        BY <3>4, <4>1
      <4>2. CASE i # next
        <5>1. i < next
          BY <1>4, <3>1, <3>6, <4>2
        <5>2. ASSUME NEW v \in 1..Workers, workers[v] = i
              PROVE  (\E u \in 1..Workers : workers'[u] = i) \/ Gapped(i)' \/ Answered(i, FALSE)'
          BY <1>5, <1>7, <3>4, <5>2
        <5> QED BY <1>4, <1>5, <5>1, <5>2
      <4> QED BY <4>1, <4>2
    <3> QED BY <1>1, <1>6, <1>7, <3>3, <3>5, <3>6 DEF PoolInv, n
  <2>2. CASE ~(next <= n)
    <3>1. workers' = [workers EXCEPT ![w] = 0] /\ next' = next
      BY <2>2, <1>7 DEF TakeNext
    <3>2. workers' \in [1..Workers -> 0..n] /\ next' \in Nat \ {0} /\ next' > n
      BY <1>4, <2>2, <3>1
    <3>3. \A v \in 1..Workers : workers'[v] = IF v = w THEN 0 ELSE workers[v]
      BY <1>4, <3>1
    <3>4. ASSUME NEW i \in DOMAIN leaves, i < next'
          PROVE  (\E v \in 1..Workers : workers'[v] = i) \/ Gapped(i)' \/ Answered(i, FALSE)'
      <4>1. ASSUME NEW v \in 1..Workers, workers[v] = i
            PROVE  (\E u \in 1..Workers : workers'[u] = i) \/ Gapped(i)' \/ Answered(i, FALSE)'
        BY <1>5, <1>7, <3>3, <4>1
      <4> QED BY <1>4, <1>5, <3>1, <3>4, <4>1
    <3> QED BY <1>1, <1>6, <1>7, <3>2, <3>4 DEF PoolInv
  <2> QED BY <2>1, <2>2
<1>8. ASSUME NEW w \in 1..Workers, Deliver(w)
      PROVE  PoolInv'
  <2>0. PICK i : i = workers[w]
    OBVIOUS
  <2>1. /\ i # 0 /\ TakeNext(w) /\ pc' = "hash" /\ subjects[i].step = "answered"
        /\ IF subjects[i].gap THEN AddGap(Gap("collect-file", Path(i))) ELSE UNCHANGED gaps
    BY <1>1, <1>8, <2>0 DEF Deliver
  <2>2. subjects[i].gap \in BOOLEAN
    <3>1. i \in DOMAIN leaves
      BY <1>4, <2>0, <2>1
    <3>2. subjects[i] \in Subjects
      BY <1>4, <3>1
    <3> QED BY <3>2 DEF Subjects
  <2>3. Gapped(i)' \/ Answered(i, FALSE)
    BY <1>5, <2>1, <2>2 DEF AddGap, Gapped, Answered
  <2> QED BY <1>7, <2>0, <2>1, <2>3
<1>9. ASSUME NEW w \in 1..Workers, TimeOut(w)
      PROVE  PoolInv'
  <2>1. PICK i : i = workers[w]
    OBVIOUS
  <2>2. TakeNext(w) /\ pc' = "hash" /\ AddGap(Gap("collect-file", Path(i)))
    BY <1>1, <1>9, <2>1 DEF TimeOut
  <2>3. Gapped(i)'
    BY <1>5, <2>2 DEF AddGap, Gapped
  <2> QED BY <1>7, <2>1, <2>2, <2>3
<1>10. ASSUME Close
       PROVE  PoolInv'
  <2>1. DOMAIN workers = 1..Workers
    BY <1>4
  <2>2. \A w \in 1..Workers : workers[w] = 0
    BY <1>10, <2>1 DEF Close
  <2>3. UNCHANGED <<workers, next>>
    BY <1>10 DEF Close, poolVars
  <2>4. \A i \in DOMAIN leaves' : i < next' =>
           (\E w \in 1..Workers : workers'[w] = i) \/ Gapped(i)' \/ Answered(i, FALSE)'
    <3> SUFFICES ASSUME NEW i \in DOMAIN leaves, i < next
                 PROVE  (\E w \in 1..Workers : workers[w] = i) \/ Gapped(i)' \/ Answered(i, FALSE)'
      BY <1>1, <2>3
    <3> QED BY <1>4, <1>5
  <2>5. /\ workers' \in [1..Workers -> 0..Len(leaves')] /\ next' \in Nat \ {0}
        /\ \A w \in 1..Workers : workers'[w] = 0 /\ next' > Len(leaves')
    BY <1>1, <1>4, <2>2, <2>3
  <2> QED BY <1>6, <2>4, <2>5 DEF PoolInv
<1>11. PoolInv'
  BY <1>8, <1>9, <1>10 DEF Pool
<1> QED BY <1>1, <1>2, <1>3, <1>11, LateSilence

\* A subject: its record says what its path is, and an answer without one is a
\* gap.
LEMMA ExamineSilence ==
    ASSUME IInv, SilenceInv, NEW i \in DOMAIN leaves, Subject(i),
           UNCHANGED <<workers, next, gaps, skipped>>,
           NEW s \in Subjects, Step(i, s),
           \/ UNCHANGED files
           \/ \E f : /\ files' = files \union {f} /\ f.path = Path(i)
                     /\ Untouched(Path(i)) => Agrees(f)
                     /\ f.kind = "unread" => s.step = "answered" /\ s.gap = TRUE,
           s.step = "answered" /\ s.gap = FALSE => Gapped(i) \/ \E f \in files' : f.path = Path(i)
    PROVE  SilenceInv'
<1>1. /\ pc \in Late /\ pc' \in Late /\ subjects[i].step # "answered" /\ Path(i) \in Paths
      /\ UNCHANGED <<session, treeVars, frames, leaves, pc>>
  BY Examined
<1>2. subjects \in [DOMAIN leaves -> Subjects] /\ UnreadInv /\ PoolInv
  BY <1>1 DEF IInv, TypeInv, SilenceInv
<1>3. /\ subjects' = [subjects EXCEPT ![i] = s] /\ subjects'[i] = s
      /\ \A j \in DOMAIN leaves : j # i => subjects'[j] = subjects[j]
  BY <1>2 DEF Step
<1>4. \A j : Path(j)' = Path(j) /\ (Gapped(j)' <=> Gapped(j))
  BY <1>1 DEF Path, Gapped
<1>5. \A j \in DOMAIN leaves, g \in BOOLEAN : Answered(j, g) => Answered(j, g)'
  BY <1>1, <1>3 DEF Answered
<1>6. files \subseteq files'
  OBVIOUS
<1>7. UnreadInv'
  <2>1. ASSUME NEW f \in files', f.kind = "unread"
        PROVE  \E j \in DOMAIN leaves : Path(j) = f.path /\ Answered(j, TRUE)'
    <3>1. CASE f \in files
      BY <1>2, <1>5, <2>1, <3>1 DEF UnreadInv
    <3>2. CASE f \notin files
      <4>1. f.path = Path(i) /\ s.step = "answered" /\ s.gap = TRUE
        BY <2>1, <3>2
      <4> QED BY <1>3, <4>1 DEF Answered
    <3> QED BY <3>1, <3>2
  <2> QED BY <1>1, <1>4, <2>1 DEF UnreadInv
<1>8. PoolInv'
  <2>1. ASSUME NEW j \in DOMAIN leaves, Answered(j, FALSE)'
        PROVE  Described(Path(j))' \/ Gapped(j)'
    <3>1. CASE j = i
      <4>1. s.step = "answered" /\ s.gap = FALSE
        BY <1>3, <2>1, <3>1 DEF Answered
      <4> QED BY <1>4, <3>1, <4>1 DEF Described
    <3>2. CASE j # i
      <4>1. Answered(j, FALSE)
        BY <1>3, <2>1, <3>2 DEF Answered
      <4> QED BY <1>1, <1>2, <1>4, <1>6, <4>1 DEF PoolInv, Described
    <3> QED BY <3>1, <3>2
  <2>2. ASSUME NEW j \in DOMAIN leaves, j < next
        PROVE  (\E w \in 1..Workers : workers[w] = j) \/ Gapped(j)' \/ Answered(j, FALSE)'
    BY <1>1, <1>2, <1>4, <1>5, <2>2 DEF PoolInv
  <2>3. UNCHANGED <<workers, next, leaves, pc>>
    BY <1>1
  <2> QED BY <1>1, <1>2, <2>1, <2>2, <2>3 DEF PoolInv
<1>9. \A f \in files' : f \in files \/ (f.path \in Paths /\ (Untouched(f.path) => Agrees(f)))
  BY <1>1
<1> QED BY <1>1, <1>6, <1>7, <1>8, <1>9, LateSilence

\* A worker waits for no leaf any more that was abandoned.
LEMMA AbandonedIsGapped ==
    ASSUME IInv, SilenceInv, done, NEW i \in DOMAIN leaves
    PROVE  Gapped(i) \/ Answered(i, FALSE)
<1>1. /\ leaves \in Seq(Leaves) /\ pc \in Late /\ PoolInv /\ pc = "closed"
  BY DEF IInv, TypeInv, SilenceInv, done, Late
<1>2. i \in 1..Len(leaves) /\ Len(leaves) \in Nat /\ Workers \in Nat \ {0}
  BY <1>1, BoundsAssumption
<1>3. 1 \in 1..Workers /\ next \in Nat /\ \A w \in 1..Workers : workers[w] = 0
  BY <1>1, <1>2 DEF PoolInv
<1>4. next > Len(leaves)
  BY <1>1, <1>3 DEF PoolInv
<1>5. i < next /\ i # 0
  BY <1>2, <1>3, <1>4
<1> QED BY <1>1, <1>3, <1>5 DEF PoolInv

LEMMA AnswerSilence ==
    ASSUME IInv, SilenceInv, NEW i \in DOMAIN leaves, Subject(i),
           UNCHANGED <<workers, next, gaps, skipped>>,
           NEW g \in BOOLEAN, Answer(i, g),
           \/ g = TRUE /\ UNCHANGED files
           \/ \E f : /\ AddFile(f) /\ f.path = Path(i)
                     /\ Untouched(Path(i)) => Agrees(f)
                     /\ f.kind = "unread" => g = TRUE
    PROVE  SilenceInv'
<1> DEFINE s == [subjects[i] EXCEPT !.step = "answered", !.gap = g]
<1>1. /\ subjects[i] \in Subjects /\ s \in Subjects /\ s.step = "answered" /\ subjects[i].step # "answered"
  BY Examined
<1>2. s.gap = g
  BY <1>1 DEF Subjects
<1>3. Step(i, s)
  BY DEF Answer
<1> HIDE DEF s
<1>4. done => Gapped(i)
  BY <1>1, AbandonedIsGapped DEF Answered
<1>5. CASE g = TRUE /\ UNCHANGED files
  BY <1>1, <1>2, <1>3, <1>5, ExamineSilence
<1>6. ASSUME NEW f, AddFile(f), f.path = Path(i), Untouched(Path(i)) => Agrees(f),
             f.kind = "unread" => g = TRUE
      PROVE  SilenceInv'
  <2>1. CASE done
    <3>1. files' = files /\ Gapped(i)
      BY <1>4, <1>6, <2>1 DEF AddFile
    <3> QED BY <1>1, <1>2, <1>3, <3>1, ExamineSilence
  <2>2. CASE ~done
    <3>1. files' = files \union {f}
      BY <1>6, <2>2 DEF AddFile
    <3>2. \E x \in files' : x.path = Path(i)
      BY <1>6, <3>1
    <3>3. \E x : /\ files' = files \union {x} /\ x.path = Path(i)
                 /\ Untouched(Path(i)) => Agrees(x)
                 /\ x.kind = "unread" => s.step = "answered" /\ s.gap = TRUE
      BY <1>1, <1>2, <1>6, <3>1
    <3> QED BY <1>1, <1>3, <3>2, <3>3, ExamineSilence
  <2> QED BY <2>1, <2>2
<1> QED BY <1>5, <1>6

LEMMA UnreadSilence ==
    ASSUME IInv, SilenceInv, NEW i \in DOMAIN leaves, Subject(i), Unread(i),
           UNCHANGED <<workers, next, gaps, skipped>>
    PROVE  SilenceInv'
<1> DEFINE f == FileWithout(Path(i), "unread")
<1>1. f.path = Path(i) /\ f.kind = "unread" /\ Agrees(f)
  BY DEF FileWithout, Agrees
<1> HIDE DEF f
<1>2. Answer(i, TRUE) /\ (UNCHANGED files \/ AddFile(f))
  BY DEF Unread, f
<1> QED BY <1>1, <1>2, AnswerSilence

\* A step that asks more, and says nothing yet.
LEMMA AskSilence ==
    ASSUME IInv, SilenceInv, NEW i \in DOMAIN leaves, Subject(i),
           UNCHANGED <<workers, next, gaps, skipped, files>>,
           NEW s, Step(i, s), s.step # "answered", IInv'
    PROVE  SilenceInv'
<1>1. s \in Subjects
  <2>1. pc \in Late /\ UNCHANGED <<leaves, pc>>
    BY Examined
  <2>2. subjects \in [DOMAIN leaves -> Subjects] /\ subjects' \in [DOMAIN leaves -> Subjects]
    BY <2>1 DEF IInv, TypeInv
  <2>3. subjects'[i] = s
    BY <2>2 DEF Step
  <2> QED BY <2>2, <2>3
<1> QED BY <1>1, ExamineSilence

LEMMA OpenSilence ==
    ASSUME IInv, IInv', SilenceInv, NEW i \in DOMAIN leaves, OpenLeaf(i)
    PROVE  SilenceInv'
<1> DEFINE p == Path(i)
<1>1. Subject(i) /\ UNCHANGED <<workers, next, gaps, skipped>> /\ subjects[i] \in Subjects
  BY Examined DEF OpenLeaf, Subject
<1>2. CASE /\ OpenConfined(p) = "file" /\ UNCHANGED files
           /\ Step(i, [subjects[i] EXCEPT !.step = IF HashWanted(i) THEN "read" ELSE "check",
                                          !.ino = at[p], !.gen = Node(p).gen,
                                          !.stat = FileFromStat(p, "file", Node(p))])
  <2> DEFINE s == [subjects[i] EXCEPT !.step = IF HashWanted(i) THEN "read" ELSE "check",
                                      !.ino = at[p], !.gen = Node(p).gen,
                                      !.stat = FileFromStat(p, "file", Node(p))]
  <2>1. \A x \in Subjects : \A a, b, c, d : [x EXCEPT !.step = a, !.ino = b, !.gen = c, !.stat = d].step = a
    BY DEF Subjects
  <2>2. s.step # "answered"
    BY <1>1, <2>1
  <2>3. Step(i, s)
    BY <1>2
  <2> HIDE DEF s
  <2> QED BY <1>1, <1>2, <2>2, <2>3, AskSilence
<1>3. CASE OpenConfined(p) = "ErrNotRegular" /\ AddFile(FileFromStat(p, "other", Node(p))) /\ Answer(i, FALSE)
  <2> DEFINE f == FileFromStat(p, "other", Node(p))
  <2>1. f.path = p /\ f.kind = "other"
    BY DEF FileFromStat
  <2>2. IsThere(p) /\ Node(p).kind \in {"dir", "other"}
    BY <1>3 DEF OpenConfined, Reaches
  <2>3. AddFile(f)
    BY <1>3
  <2> HIDE DEF f
  <2>4. Agrees(f)
    BY <2>1, <2>2 DEF Agrees, Is
  <2> QED BY <1>1, <1>3, <2>1, <2>3, <2>4, AnswerSilence
<1>4. CASE OpenConfined(p) = "ErrNotExist" /\ AddFile(FileWithout(p, "absent")) /\ Answer(i, FALSE)
  <2> DEFINE f == FileWithout(p, "absent")
  <2>1. f.path = p /\ f.kind = "absent" /\ f = FileWithout(f.path, "absent")
    BY DEF FileWithout
  <2>2. Enoent(p)
    BY <1>4 DEF OpenConfined
  <2>3. ~Reaches(p)
    BY <2>2 DEF Enoent, Reaches, Blocks
  <2>4. AddFile(f)
    BY <1>4
  <2> HIDE DEF f
  <2>5. Agrees(f)
    BY <2>1, <2>3 DEF Agrees
  <2> QED BY <1>1, <1>4, <2>1, <2>4, <2>5, AnswerSilence
<1>5. CASE Step(i, [subjects[i] EXCEPT !.step = "readlink"]) /\ UNCHANGED files
  <2> DEFINE s == [subjects[i] EXCEPT !.step = "readlink"]
  <2>1. s.step # "answered" /\ Step(i, s)
    BY <1>1, <1>5 DEF Subjects
  <2> HIDE DEF s
  <2> QED BY <1>1, <1>5, <2>1, AskSilence
<1>6. CASE Unread(i)
  BY <1>1, <1>6, UnreadSilence
<1> QED BY <1>2, <1>3, <1>4, <1>5, <1>6 DEF OpenLeaf

LEMMA CheckSilence ==
    ASSUME IInv, SilenceInv, NEW i \in DOMAIN leaves, CheckLeaf(i)
    PROVE  SilenceInv'
<1> DEFINE s == subjects[i]
           f == [s.stat EXCEPT !.text = s.text]
           n == disk[s.ino]
<1>1. /\ Subject(i) /\ TreeInv /\ Path(i) \in Paths /\ pc \in Late /\ s.step = "check"
      /\ UNCHANGED <<workers, next, gaps, skipped>>
  BY Examined DEF Subject, IInv, CheckLeaf, At
<1>2. Descriptor(s, Path(i), disk, named)
  BY <1>1 DEF IInv, DescriptorsInv, Path
<1>3. CASE Unchanged(i) /\ AddFile(f) /\ Answer(i, FALSE)
  <2>1. /\ s.gen = n.gen /\ <<Path(i), n>> \in named /\ n.kind = "file"
        /\ s.stat = FileFromStat(Path(i), "file", n)
    BY <1>2, <1>3 DEF Unchanged, Descriptor
  <2> HIDE DEF s, n
  <2>2. f.path = Path(i) /\ f.kind = "file" /\ f.suid = n.suid
    BY <2>1 DEF FileFromStat
  <2> DEFINE x == <<Path(i), n>>
  <2>3. x \in named /\ x[1] = Path(i) /\ x[2] = n
    BY <2>1
  <2> HIDE DEF f, x
  <2>4. Untouched(Path(i)) => IsThere(Path(i)) /\ Node(Path(i)) = n
    BY <1>1, <2>3, AsEver
  <2>5. Untouched(Path(i)) => Agrees(f)
    BY <2>1, <2>2, <2>4 DEF Agrees, Is
  <2> QED BY <1>1, <1>3, <2>2, <2>5, AnswerSilence
<1>4. CASE Unread(i)
  BY <1>1, <1>4, UnreadSilence
<1> QED BY <1>3, <1>4 DEF CheckLeaf

LEMMA SubjectSilence ==
    ASSUME IInv, IInv', SilenceInv, NEW i \in DOMAIN leaves, Subject(i)
    PROVE  SilenceInv'
<1>1. subjects[i] \in Subjects
  BY Examined
<1>2. CASE ReadLink(i)
  <2> DEFINE p == Path(i)
             f == [FileWithout(p, "link") EXCEPT !.text = Node(p).text]
  <2>1. UNCHANGED <<workers, next, gaps, skipped>>
    BY <1>2 DEF ReadLink
  <2>2. CASE Reaches(p) /\ Is(p, "link") /\ AddFile(f) /\ Answer(i, FALSE)
    <3>1. f.path = p /\ f.kind = "link"
      BY DEF FileWithout
    <3>2. AddFile(f)
      BY <2>2
    <3> HIDE DEF f
    <3>3. Agrees(f)
      BY <2>2, <3>1 DEF Agrees
    <3> QED BY <2>1, <2>2, <3>1, <3>2, <3>3, AnswerSilence
  <2>3. CASE Unread(i)
    BY <2>1, <2>3, UnreadSilence
  <2> QED BY <1>2, <2>2, <2>3 DEF ReadLink
<1>3. CASE ReadLeaf(i)
  <2>1. UNCHANGED <<workers, next, gaps, skipped>>
    BY <1>3 DEF ReadLeaf
  <2>2. CASE UNCHANGED files /\ Step(i, [subjects[i] EXCEPT !.step = "check", !.text = disk[subjects[i].ino].text])
    <3> DEFINE s == [subjects[i] EXCEPT !.step = "check", !.text = disk[subjects[i].ino].text]
    <3>1. s.step # "answered" /\ Step(i, s)
      BY <1>1, <2>2 DEF Subjects
    <3> HIDE DEF s
    <3> QED BY <2>1, <2>2, <3>1, AskSilence
  <2>3. CASE Unread(i)
    BY <2>1, <2>3, UnreadSilence
  <2> QED BY <1>3, <2>2, <2>3 DEF ReadLeaf
<1>4. CASE Panic(i)
  <2>1. UNCHANGED <<workers, next, gaps, skipped, files>> /\ Answer(i, TRUE)
    BY <1>4 DEF Panic
  <2> QED BY <2>1, AnswerSilence
<1> QED BY <1>2, <1>3, <1>4, OpenSilence, CheckSilence DEF Subject

LEMMA ChangeSilence == IInv /\ IInv' /\ SilenceInv /\ ChangeTree => SilenceInv'
<1> SUFFICES ASSUME IInv, IInv', SilenceInv, ChangeTree PROVE SilenceInv'
  OBVIOUS
<1>1. /\ UNCHANGED <<session, pc, job, frames, leaves, subjects, workers, next, files, gaps, skipped>>
      /\ Len(disk) <= Len(disk')
  BY ChangeFacts DEF ChangeTree, poolVars
<1>2. GrownInv /\ Len(session.disk) \in Nat /\ Len(disk) \in Nat /\ Len(disk') \in Nat
  BY SessionsAssumption DEF IInv, TreeInv, SilenceInv
<1>3. GrownInv'
  BY <1>1, <1>2 DEF GrownInv
<1>4. ASSUME NEW p \in Paths, Untouched(p)'
      PROVE  /\ Untouched(p) /\ (Reaches(p)' <=> Reaches(p))
             /\ \A kind : Is(p, kind) <=> Is(p, kind)'
             /\ IsThere(p) => Node(p)' = Node(p)
  <2>1. /\ Untouched(p)
        /\ \A q \in {p} \union Above[p] : at'[q] = at[q] /\ (at[q] # 0 => disk'[at[q]] = disk[at[q]])
    BY <1>2, <1>4, AllAlong
  <2>2. ASSUME NEW q \in {p} \union Above[p]
        PROVE  /\ IsThere(q)' <=> IsThere(q)
               /\ IsThere(q) => Node(q)' = Node(q)
               /\ \A kind : Is(q, kind) <=> Is(q, kind)'
    BY <2>1 DEF IsThere, Node, Is
  <2>3. Reaches(p)' <=> Reaches(p)
    BY <2>2 DEF Reaches
  <2> QED BY <2>1, <2>2, <2>3
<1>5. AgreeInv'
  <2>1. ASSUME NEW f \in files, Untouched(f.path)'
        PROVE  Agrees(f)'
    <3>1. f.path \in Paths
      BY DEF SilenceInv, AgreeInv
    <3>2. Agrees(f)
      BY <1>4, <2>1, <3>1 DEF SilenceInv, AgreeInv
    <3>3. /\ \A kind : Is(f.path, kind) <=> Is(f.path, kind)'
          /\ Is(f.path, "file") => Node(f.path)' = Node(f.path)
          /\ Reaches(f.path)' <=> Reaches(f.path)
      BY <1>4, <2>1, <3>1 DEF Is
    <3> QED BY <3>2, <3>3 DEF Agrees
  <2>2. \A f \in files : f.path \in Paths
    BY DEF SilenceInv, AgreeInv
  <2> QED BY <1>1, <2>1, <2>2 DEF AgreeInv
<1>6. ListedInv'
  <2>1. ASSUME NEW k \in DOMAIN frames, NEW e \in frames[k].entries
        PROVE  Parent[e.path] = frames[k].dir /\ (Untouched(e.path)' => Is(e.path, e.kind)')
    <3>1. frames[k] \in Frames
      BY DEF IInv, TypeInv
    <3>2. e.path \in Paths
      BY <3>1 DEF Frames, Entries
    <3> QED BY <1>4, <3>2 DEF SilenceInv, ListedInv
  <2> QED BY <1>1, <2>1 DEF ListedInv
<1>7. WalkedInv'
  <2>1. ASSUME NEW p \in Paths, Untouched(p)', Reaches(p)', Entered(p)', pc \notin Early
        PROVE  Met(p)'
    <3>1. Untouched(p) /\ Reaches(p)
      BY <1>4, <2>1
    <3>2. Entered(p)
      BY <1>1, <2>1 DEF Entered, Subtree, Subtrees
    <3>3. Met(p)
      BY <2>1, <3>1, <3>2 DEF SilenceInv, WalkedInv
    <3>4. (Excused(p)' <=> Excused(p)) /\ (Pending(p)' <=> Pending(p))
      BY <1>1 DEF Excused, Pending
    <3> QED BY <1>1, <3>3, <3>4 DEF Met
  <2> QED BY <1>1, <2>1 DEF WalkedInv
<1>8. PoolInv'
  BY <1>1 DEF SilenceInv, PoolInv, Gapped, Answered, Described, Path
<1>9. UnreadInv'
  BY <1>1 DEF SilenceInv, UnreadInv, Path, Answered
<1> QED BY <1>3, <1>5, <1>6, <1>7, <1>8, <1>9 DEF SilenceInv

LEMMA SilenceInit == Init => SilenceInv
<1> SUFFICES ASSUME Init PROVE SilenceInv
  OBVIOUS
<1>1. pc \in Early /\ pc \notin Late /\ files = {} /\ frames = <<>> /\ disk = session.disk
  BY DEF Init, Early, Late
<1>2. Len(session.disk) \in Nat
  BY SessionsAssumption DEF Init
<1>3. AgreeInv /\ UnreadInv
  BY <1>1 DEF AgreeInv, UnreadInv
<1>4. ListedInv
  BY <1>1 DEF ListedInv
<1>5. WalkedInv /\ PoolInv
  BY <1>1 DEF WalkedInv, PoolInv
<1>6. GrownInv
  BY <1>1, <1>2 DEF GrownInv
<1> QED BY <1>3, <1>4, <1>5, <1>6 DEF SilenceInv

LEMMA SilenceStutter == SilenceInv /\ UNCHANGED vars => SilenceInv'
<1> SUFFICES ASSUME SilenceInv, UNCHANGED vars PROVE SilenceInv'
  OBVIOUS
<1>1. /\ UNCHANGED <<session, treeVars, disk, pc, job, frames, leaves, files, gaps, skipped>>
      /\ UNCHANGED <<subjects, workers, next>>
  BY DEF vars, treeVars, poolVars
<1>2. AgreeInv' /\ ListedInv'
  BY <1>1, Unmoved DEF SilenceInv, AgreeInv, ListedInv
<1>3. WalkedInv'
  <2>1. ASSUME NEW p \in Paths, Untouched(p)', Reaches(p)', Entered(p)', pc \notin Early
        PROVE  Met(p)'
    <3>1. Untouched(p) /\ Reaches(p) /\ Entered(p)
      BY <1>1, <2>1, Unmoved DEF Entered
    <3>2. Met(p)
      BY <2>1, <3>1 DEF SilenceInv, WalkedInv
    <3> QED BY <1>1, <3>2 DEF Met, Excused, Pending
  <2> QED BY <1>1, <2>1 DEF WalkedInv
<1>4. PoolInv' /\ UnreadInv' /\ GrownInv'
  BY <1>1 DEF SilenceInv, PoolInv, UnreadInv, GrownInv, Gapped, Answered, Described, Path
<1> QED BY <1>2, <1>3, <1>4 DEF SilenceInv

LEMMA SilenceHolds == Spec => [](IInv /\ SilenceInv)
<1>1. Init => IInv /\ SilenceInv
  BY InitHolds, SilenceInit
<1>2. IInv /\ SilenceInv /\ [Next]_vars => (IInv /\ SilenceInv)'
  <2> SUFFICES ASSUME IInv, SilenceInv, [Next]_vars PROVE IInv' /\ SilenceInv'
    OBVIOUS
  <2>1. IInv'
    BY BufferStep, WalkStep, PoolStep, ChangeStep, SubjectStep, StutterStep DEF Next
  <2>2. CASE Walk
    BY <2>1, <2>2, EnterSilence, StepsSilence, AppendSilence DEF Walk
  <2>3. ASSUME NEW i \in DOMAIN leaves, Subject(i)
        PROVE  SilenceInv'
    BY <2>1, <2>3, SubjectSilence
  <2>4. CASE Next
    BY <2>1, <2>2, <2>3, <2>4, BufferSilence, PoolSilence, ChangeSilence DEF Next
  <2> QED BY <2>1, <2>4, SilenceStutter
<1> QED BY <1>1, <1>2, PTL DEF Spec

-----------------------------------------------------------------------------
(* Nothing is passed over.                                                 *)

LEMMA IntegrityType ==
    ASSUME FilesInv, NEW e, e.type \in {"file", "link"}
    PROVE  /\ Integrity(e) \in {"gap", "finding", "pass", "exempt", "gapped"}
           /\ Integrity(e) = "exempt" => Observe(e) = "ObsExempt"
           /\ Integrity(e) = "gapped" => Observe(e) = "ObsGapped"
<1> DEFINE o == Observe(e)
           f == Lookup(e.path)
           match == f.text = e.text
           same == f.size = Size[e.text]
<1>1. o \in {"nothing", "ObsExempt", "ObsHashed", "ObsMetadataOnly", "ObsLink",
             "ObsMissing", "ObsGapped", "ObsUnreadable"}
  BY ObserveType
<1>2. \A s : Integrity(e) = s => s =
          CASE o \in {"nothing", "ObsUnreadable"} -> "gap"
            [] o = "ObsExempt" -> "exempt"
            [] o = "ObsGapped" -> "gapped"
            [] o = "ObsMissing" -> "finding"
            [] o = "ObsLink" -> IF e.type # "link" \/ e.text = NoText THEN "gap"
                                ELSE IF match THEN "pass" ELSE "finding"
            [] o \in {"ObsHashed", "ObsMetadataOnly"} /\ (e.type = "link" \/ e.text = NoText) -> "gap"
            [] o = "ObsHashed" /\ e.type = "file" /\ e.text # NoText ->
                 IF match THEN "pass" ELSE "finding"
            [] o = "ObsMetadataOnly" /\ e.type = "file" /\ e.text # NoText ->
                 IF same THEN "gap" ELSE "finding"
  BY DEF Integrity
<1>3. match \in BOOLEAN /\ same \in BOOLEAN
  OBVIOUS
<1> QED
  <2> HIDE DEF o, match, same
  <2>1. /\ Integrity(e) \in {"gap", "finding", "pass", "exempt", "gapped"}
        /\ Integrity(e) = "exempt" => o = "ObsExempt"
        /\ Integrity(e) = "gapped" => o = "ObsGapped"
    BY <1>1, <1>2, <1>3
  <2> QED BY <2>1 DEF o

\* What the end of the scan makes of the queue and of what was not read.
LEMMA AllAreAnswered ==
    ASSUME IInv, SilenceInv, done
    PROVE  /\ \A p \in Spoken(files, leaves) : GapOn(p) \/ Described(p)
           /\ \A f \in files : f.kind = "unread" => GapOn(f.path)
<1>1. PoolInv /\ UnreadInv /\ pc \in Late
  BY DEF SilenceInv, done, Late
<1>2. \A i \in DOMAIN leaves : Gapped(i) => GapOn(leaves[i].path)
  BY DEF Gapped, GapOn, Path
<1>3. \A i \in DOMAIN leaves : GapOn(leaves[i].path) \/ Described(leaves[i].path)
  BY <1>1, <1>2, AbandonedIsGapped DEF PoolInv, Path
<1>4. \A p \in Spoken(files, leaves) : GapOn(p) \/ Described(p)
  BY <1>3 DEF Spoken, Range, Described
<1>5. ASSUME NEW f \in files, f.kind = "unread"
      PROVE  GapOn(f.path)
  <2>1. PICK i \in DOMAIN leaves : leaves[i].path = f.path /\ Answered(i, TRUE)
    BY <1>1, <1>5 DEF UnreadInv, Path
  <2>2. Gapped(i)
    BY <2>1, AbandonedIsGapped DEF Answered
  <2> QED BY <1>2, <2>1, <2>2
<1> QED BY <1>4, <1>5

\* Nothing is passed over: of a record that differs from what is, and was all
\* along, at its path something is said; every file beneath a subtree has a
\* record, a gap, or a reason above it, unless it could not be reached and no
\* record claims that it is there; and a setuid file nobody owns is reported
\* (collect.walkDir, collect.run, safe.RunTimeout, check.Integrity).
THEOREM NothingIsEverSilent == Spec => []NothingIsSilent
<1>1. IInv /\ SilenceInv => NothingIsSilent
  <2> SUFFICES ASSUME IInv, SilenceInv, done PROVE NothingIsSilent
    BY DEF NothingIsSilent
  <2>1. /\ TreeInv /\ FilesInv /\ AgreeInv /\ WalkedInv /\ pc \in Late /\ pc \notin Early /\ pc # "walk"
    BY DEF IInv, SilenceInv, done, Late, Early
  <2>2. ASSUME NEW e \in Read, Untouched(e.path), Differs(e)
        PROVE  Told(e) \/ (Integrity(e) = "exempt" /\ ~e.exec)
    <3>1. e \in Records
      BY <2>1, ReadRecords
    <3>2. e.type \in {"file", "link"} /\ e.path \in Paths
      BY <3>1 DEF Records
    <3>3. Integrity(e) # "pass"
      <4> SUFFICES ASSUME Integrity(e) = "pass" PROVE FALSE
        OBVIOUS
      <4>1. PICK f \in files : /\ f.path = e.path /\ f.text = e.text /\ f.kind = e.type
                               /\ f.kind = "file" => f.text # NoText
        BY <2>1, <3>2, PassIsMatch
      <4>2. PICK x \in named : x[1] = e.path /\ IsAs(e, x[2])
        BY <2>1, <3>2, <4>1 DEF FilesInv, Found, IsAs
      <4>3. IsThere(e.path) /\ Node(e.path) = x[2]
        BY <2>1, <2>2, <3>2, <4>2, AsEver
      <4> QED BY <2>2, <4>2, <4>3 DEF Differs
    <3>4. CASE Integrity(e) \in {"finding", "gap"}
      BY <3>4 DEF Told
    <3>5. CASE Integrity(e) = "gapped"
      <4>1. Observe(e) = "ObsGapped"
        BY <2>1, <3>2, <3>5, IntegrityType
      <4>2. PICK f \in files : f.path = e.path
        BY <4>1 DEF Observe, Evidence
      <4>3. Lookup(e.path) = f /\ f.kind \in FileKinds
        BY <2>1, <4>2, OneRecord DEF FilesInv, Found
      <4>4. f.kind = "unread"
        BY <4>1, <4>2, <4>3 DEF Observe, FileKinds, Kinds
      <4> QED BY <4>2, <4>4, AllAreAnswered DEF Told
    <3>6. CASE Integrity(e) = "exempt"
      <4>1. Observe(e) = "ObsExempt"
        BY <2>1, <3>2, <3>6, IntegrityType
      <4>2. Applies(e)
        <5> SUFFICES ASSUME ~Applies(e) PROVE FALSE
          OBVIOUS
        <5>1. PICK f \in files : f.path = e.path
          BY <4>1 DEF Observe, Evidence
        <5>2. Lookup(e.path) = f /\ f.kind \in FileKinds
          BY <2>1, <5>1, OneRecord DEF FilesInv, Found
        <5> QED BY <4>1, <5>1, <5>2 DEF Observe, FileKinds, Kinds
      <4> QED BY <3>6, <4>2 DEF Applies
    <3> QED BY <2>1, <3>2, <3>3, <3>4, <3>5, <3>6, IntegrityType
  <2>3. ASSUME NEW p \in Paths, Untouched(p), Subtree(p) # {}
        PROVE  \/ Excused(p) \/ GapOn(p) \/ Gap("collect-walk", Top) \in gaps
               \/ ~Reaches(p) /\ (~IsThere(p) => Evidence(p) \subseteq {FileWithout(p, "absent")})
               \/ /\ Evidence(p) # {}
                  /\ (Is(p, "file") /\ Node(p).suid /\ ~Owned(p) => UnownedSUID(p))
    <3>1. \A f \in Evidence(p) : /\ f \in files /\ f.path = p /\ Agrees(f) /\ f.kind \in FileKinds
                                 /\ f.kind = "unread" => GapOn(p)
      BY <2>1, <2>3, AllAreAnswered DEF Evidence, AgreeInv, FilesInv, Found
    <3>2. CASE Reaches(p)
      <4>1. Entered(p)
        BY <2>1, <2>3 DEF Entered
      <4>2. Excused(p) \/ Gap("collect-walk", Top) \in gaps \/ p \in Spoken(files, leaves)
        BY <2>1, <2>3, <3>2, <4>1 DEF WalkedInv, Met
      <4>3. ASSUME p \in Spoken(files, leaves), ~GapOn(p)
            PROVE  /\ Evidence(p) # {}
                   /\ (Is(p, "file") /\ Node(p).suid /\ ~Owned(p) => UnownedSUID(p))
        <5>1. PICK f \in Evidence(p) : TRUE
          BY <4>3, AllAreAnswered DEF Evidence, Described
        <5>2. Is(p, "file") => f.kind = "file" /\ f.suid = Node(p).suid
          BY <3>1, <3>2, <4>3, <5>1 DEF Agrees, Is, FileKinds, Kinds
        <5> QED BY <5>1, <5>2 DEF UnownedSUID
      <4> QED BY <4>2, <4>3
    <3>3. CASE ~Reaches(p)
      <4>1. ASSUME ~IsThere(p), ~GapOn(p), NEW f \in Evidence(p)
            PROVE  f = FileWithout(p, "absent")
        BY <3>1, <4>1 DEF Agrees, Is, FileKinds, Kinds
      <4> QED BY <3>3, <4>1
    <3> QED BY <3>2, <3>3
  <2> QED BY <2>2, <2>3 DEF NothingIsSilent
<1> QED BY <1>1, SilenceHolds, PTL

-----------------------------------------------------------------------------
(* The evidence is final.                                                  *)

\* A subject examined after the end changes no evidence, whatever it answers:
\* addFile and gap look at done under the collector's lock.
LEMMA AbandonedIsDropped ==
    ASSUME done, NEW i, Subject(i)
    PROVE  UNCHANGED <<files, gaps, skipped, dbVars>>
<1>1. CASE OpenLeaf(i)
  <2>1. UNCHANGED <<dbVars, gaps, skipped>>
    BY <1>1 DEF OpenLeaf
  <2>2. files' = files
    BY <1>1 DEF OpenLeaf, AddFile, Unread
  <2>3. QED
    BY <2>1, <2>2
<1>2. CASE ReadLink(i)
  BY <1>2 DEF ReadLink, AddFile, Unread
<1>3. CASE ReadLeaf(i)
  BY <1>3 DEF ReadLeaf, AddFile, Unread
<1>4. CASE CheckLeaf(i)
  BY <1>4 DEF CheckLeaf, AddFile, Unread
<1>5. CASE Panic(i)
  BY <1>5 DEF Panic
<1>6. QED
  BY <1>1, <1>2, <1>3, <1>4, <1>5 DEF Subject

\* Every other step of the collector belongs to a phase before the end.
LEMMA PhasesAreOver == done => ~Buffer /\ ~Walk /\ ~Pool
<1> SUFFICES ASSUME pc = "closed" PROVE ~Buffer /\ ~Walk /\ ~Pool
  BY DEF done
<1>1. ~Buffer
  BY DEF Buffer, CollectDB, BufferDBFile, PackagesDone, BufferPath, BuffersDone, Phase
<1>2. ~Walk
  BY DEF Walk, EnterSubtree, SkipEntry, StopWalk, WalkChildDir, QueueFile, RecordEntry,
         LeaveDir, AppendRecorded, Counted, Walking
<1>3. ~Pool
  BY DEF Pool, Deliver, TimeOut, Close, Phase
<1>4. QED
  BY <1>1, <1>2, <1>3

\* The evidence that phase 1 has handed out is not written to any more,
\* although subjects that were abandoned at their deadline are still running
\* and still answer (collector.done, safe.RunTimeout).
THEOREM EvidenceStaysFinal == Spec => EvidenceIsFinal
<1>1. [Next]_vars => [done => UNCHANGED <<files, gaps, skipped, dbVars>>]_vars
  <2>1. SUFFICES ASSUME Next, done PROVE UNCHANGED <<files, gaps, skipped, dbVars>>
    OBVIOUS
  <2>2. CASE ChangeTree
    BY <2>1, <2>2 DEF ChangeTree, done
  <2>3. CASE \E i \in DOMAIN leaves : Subject(i)
    BY <2>1, <2>3, AbandonedIsDropped
  <2>4. QED
    BY <2>1, <2>2, <2>3, PhasesAreOver DEF Next
<1>2. QED
  BY <1>1, PTL DEF Spec, EvidenceIsFinal
=============================================================================
