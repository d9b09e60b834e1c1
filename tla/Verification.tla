---------------------------- MODULE Verification ----------------------------
(***************************************************************************)
(* Phase 2 of a scan over the closed evidence of Collection: each buffered *)
(* mtree is parsed, its records are joined to what phase 1 found at their  *)
(* paths (internal/check/tier.go) and judged (integrity.go), with the      *)
(* derived exemptions (exempt.go) and the sweep for setuid files nobody    *)
(* owns (cmd/aurvet/main.go).  Nothing here reads the tree: all of it is a *)
(* function of the evidence, so it is stated as operators.                 *)
(***************************************************************************)
EXTENDS Collection

(* A package's mtree is "empty", "unparseable" or "parsed".  A record of   *)
(* it is of a file, with the digest of its text, or of a link.             *)
Package(k) == session.pkgs[k]
HasMtree(k) == <<k, "mtree">> \in packages /\ Package(k).mtree # "empty"
Parsed(k) == HasMtree(k) /\ Package(k).mtree = "parsed"

(* Applies: a record the package itself makes executable is never exempt.  *)
Applies(e) == e.path \in session.exempt /\ ~e.exec

Evidence(p) == {f \in files : f.path = p}
Lookup(p) == CHOOSE f \in Evidence(p) : TRUE

(* observe: what is known of one record. *)
Observe(e) ==
    IF Evidence(e.path) = {} THEN "nothing"
    ELSE IF e.type = "file" /\ session.tier # "paranoid" /\ Applies(e) THEN "ObsExempt"
    ELSE LET f == Lookup(e.path) IN
         CASE f.kind = "file" /\ f.text # NoText -> "ObsHashed"
           [] f.kind = "file" /\ f.text = NoText -> "ObsMetadataOnly"
           [] f.kind = "link" -> "ObsLink"
           [] f.kind = "absent" -> "ObsMissing"
           [] f.kind = "unread" -> "ObsGapped"
           [] f.kind \in {"dir", "other"} -> "ObsUnreadable"

(* Integrity: what is said of one record; "pass" and "gapped" say nothing. *)
Integrity(e) ==
    LET o == Observe(e) IN
    CASE o \in {"nothing", "ObsUnreadable"} -> "gap"
      [] o = "ObsExempt" -> "exempt"
      [] o = "ObsGapped" -> "gapped"
      [] o = "ObsMissing" -> "finding"
      [] o = "ObsLink" ->
           IF e.type # "link" \/ e.text = NoText THEN "gap"
           ELSE IF Lookup(e.path).text = e.text THEN "pass" ELSE "finding"
      [] o \in {"ObsHashed", "ObsMetadataOnly"} /\ (e.type = "link" \/ e.text = NoText) -> "gap"
      [] o = "ObsHashed" /\ e.type = "file" /\ e.text # NoText ->
           IF Lookup(e.path).text = e.text THEN "pass" ELSE "finding"
      [] o = "ObsMetadataOnly" /\ e.type = "file" /\ e.text # NoText ->
           IF Lookup(e.path).size = Size[e.text] THEN "gap" ELSE "finding"

(* verifyOne: whether anything is said of a package as a whole. *)
PackageGap(k) == HasMtree(k) /\ ~Parsed(k)

(* suidFiles and UnownedSUID.  A path is owned when the list of a package  *)
(* that was buffered has it.                                               *)
Owned(p) == \E i \in DOMAIN RecordedPaths : RecordedPaths[i] = p
UnownedSUID(p) == (\E f \in Evidence(p) : f.kind = "file" /\ f.suid) /\ ~Owned(p)

-----------------------------------------------------------------------------
(* Properties. *)

Read == UNION {Package(k).entries : k \in {k \in DOMAIN session.pkgs : Parsed(k)}}
GapOn(p) == Gap("collect-file", p) \in gaps \/ Gap("collect-walk", p) \in gaps
Told(e) == Integrity(e) \in {"finding", "gap"} \/ GapOn(e.path)
IsAs(e, n) == n.kind = e.type /\ n.text = e.text

(* Nothing changed what the path leads to since the scan began. *)
Untouched(p) == \A q \in {p} \union Above[p] :
    /\ at[q] = session.at[q]
    /\ \A x \in named : x[1] = q => x \in Names(session.at, session.disk)

(* What was handed out is not written to any more, although a subject that *)
(* was abandoned is still running (collector.done).                        *)
EvidenceIsFinal == [][done => UNCHANGED <<files, gaps, skipped, dbVars>>]_vars

(* A record that passes was found as recorded: at some instant of the scan *)
(* the path named a file with that text, or a link with that target.  What *)
(* phase 1 says of a file it hashed, its size and mode included, is of one *)
(* such instant, whatever was written meanwhile; and a path that the walk,  *)
(* the sweep and several packages all speak for has one record, which       *)
(* Raw.Index and Lookup rely on.                                            *)
PassedWasThere == done =>
    /\ \A f \in files : Cardinality(Evidence(f.path)) = 1
    /\ \A e \in Read : Integrity(e) = "pass" => \E x \in named : x[1] = e.path /\ IsAs(e, x[2])
    /\ \A f \in files : f.kind = "file" /\ f.text # NoText =>
          \E x \in named : /\ x[1] = f.path /\ x[2].text = f.text /\ Size[x[2].text] = f.size
                           /\ x[2].exec = f.exec /\ x[2].suid = f.suid

(* No silence.  Of a record that differs from what is, and was all along,  *)
(* at its path, something is said unless it is exempt; of a setuid file    *)
(* nobody owns in a subtree that was swept too; and every file the walk    *)
(* should have reached has a record, or a gap on it or on a directory      *)
(* above it, or was skipped.                                               *)
Differs(e) == ~IsThere(e.path) \/ ~IsAs(e, Node(e.path))
Excused(p) == \E q \in {p} \union Above[p] : q \in skipped \/ Gap("collect-walk", q) \in gaps
Subtree(p) == {i \in DOMAIN Subtrees : Subtrees[i] \in {Top} \union Above[p]}
NothingIsSilent == done =>
    /\ \A e \in Read : Untouched(e.path) /\ Differs(e) =>
          Told(e) \/ (Integrity(e) = "exempt" /\ ~e.exec)
    /\ \A p \in Paths : Untouched(p) /\ Subtree(p) # {} =>
          \/ Excused(p) \/ GapOn(p) \/ Gap("collect-walk", Top) \in gaps
          \/ ~Reaches(p) /\ (~IsThere(p) => Evidence(p) \subseteq {FileWithout(p, "absent")})
          \/ /\ Evidence(p) # {}
             /\ (Is(p, "file") /\ Node(p).suid /\ ~Owned(p) => UnownedSUID(p))

(* Every package of the database is compared with what it recorded, or the *)
(* report says that it is not ("collect already gapped the read that       *)
(* failed", verifyOne).                                                    *)
(* TLC refutes it (README, section 6).                                       *)
PackagesAreAnswered == done /\ dbListed => \A k \in DOMAIN session.pkgs :
    Parsed(k) \/ PackageGap(k) \/ GapOf("collect-db", k, "mtree") \in gaps

(* A subject that hangs does not keep the scan from ending: its worker has *)
(* a deadline (safe.RunTimeout; a limit of zero is none).                   *)
ScanEnds == session.timeout ~> done
=============================================================================
