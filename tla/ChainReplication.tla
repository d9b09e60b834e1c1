-------------------------- MODULE ChainReplication --------------------------
(***************************************************************************)
(* `aurvet baseline pushed`, which records how much of the chain has been  *)
(* pushed to a remote, and the readers of that record: `baseline status`,  *)
(* `baseline verify` and the banner of a scan.                             *)
(*                                                                         *)
(* The record (replication.json and its .sig) is an anchor: the length of  *)
(* the chain and the hash of its head.  A push run takes no lock.  It      *)
(* reads the chain, signs the anchor and writes the signature and then the *)
(* document, while other runs append and other pushes write.  A reader     *)
(* loads the chain twice, the document and the signature, each on its own. *)
(***************************************************************************)
EXTENDS ChainStore, FiniteSets

CONSTANTS
    Pushers,    \* the invocations of `baseline pushed`
    Readers,    \* the invocations of `baseline status` or `baseline verify`
    NoFile      \* a file that does not exist

VARIABLES
    replSig,    \* replication.json.sig
    replDoc,    \* replication.json
    ppc,        \* where each push run is
    pkey,       \* the key a push run signs with
    claim,      \* the document a push run has assembled
    qpc,        \* where each reader is
    first,      \* the chain as a reader loads it first
    second,     \* the chain as replicationStatusFor loads it again
    qdoc,       \* the document a reader has read
    anchors     \* what a reader knows to be pushed: one anchor, or none

pushVars == <<ppc, pkey, claim>>
readVars == <<qpc, first, second, qdoc, anchors>>
replVars == <<replSig, replDoc, pushVars, readVars>>

PushSteps == {"loading", "putSig", "putDoc"}

NoClaim == [length |-> 0, head |-> GenesisPrev, at |-> 0]

InitR ==
    /\ Init
    /\ replSig = NoFile
    /\ replDoc = NoFile
    /\ ppc = [p \in Pushers |-> "idle"]
    /\ pkey = [p \in Pushers |-> CHOOSE k \in Keys : TRUE]
    /\ claim = [p \in Pushers |-> NoClaim]
    /\ qpc = [q \in Readers |-> "idle"]
    /\ first = [q \in Readers |-> << >>]
    /\ second = [q \in Readers |-> << >>]
    /\ qdoc = [q \in Readers |-> NoFile]
    /\ anchors = [q \in Readers |-> {}]

-----------------------------------------------------------------------------
(* Mistakes a change of this code could make, as in ChainStore.            *)

\* A document believed on the strength of any signature beside it.
AuthenticByAnyone(doc, sig) == doc # NoFile /\ sig # NoFile /\ sig.doc = doc

\* An anchor recorded for a chain that is about to exist.
AnchorAhead(rs) == [length |-> Len(rs) + 1, head |-> WantPrev(rs)]

-----------------------------------------------------------------------------
(* LoadReplication and ReplicationReport.                                  *)

\* The document authenticates: the signature beside it covers these bytes
\* and was made by a trusted key.  Anything else reads as absent.
Authentic(doc, sig) ==
    /\ doc # NoFile
    /\ sig # NoFile
    /\ sig.doc = doc
    /\ sig.key \in Trusted

AnchorOf(doc) == [length |-> doc.length, head |-> doc.head]

AnchorOption(doc, sig) == IF Authentic(doc, sig) THEN {AnchorOf(doc)} ELSE {}

\* The anchor and the chain disagree: entries are missing, or history forked.
Conflict(rs, known) == \E a \in known : TruncatedBy(rs, a) \/ ForkedBy(rs, a)

\* The entries no anchor confirms; all of them, when it conflicts.
Unpushed(rs, known) ==
    {i \in DOMAIN rs : Conflict(rs, known) \/ \A a \in known : i > a.length}

\* ReplicationStatus.Result: nothing is said of an empty chain.
Alarm(rs, known) == rs # << >> /\ Conflict(rs, known)
Suspicious(rs, known) == rs # << >> /\ Unpushed(rs, known) # {}
Gap(rs, known) == rs # << >> /\ known = {}

\* report.ExitCode: a gap outranks a finding, and a finding outranks clean.
ExitCode(rs, known) ==
    IF Gap(rs, known) THEN 3
    ELSE IF Alarm(rs, known) \/ Suspicious(rs, known) THEN 1
    ELSE 0

\* baselineStatus and baselineVerify: rs is their own load of the chain, own
\* the one replicationStatusFor makes.
StatusExit(rs, own, known) ==
    IF rs = << >> THEN 0
    ELSE IF VerifyError(rs, known) # "ok" THEN 3
    ELSE ExitCode(own, known)

VerifyExit(rs, own, known) ==
    IF rs = << >> \/ VerifyError(rs, known) # "ok" \/ known = {} THEN 3
    ELSE ExitCode(own, known)

-----------------------------------------------------------------------------
(* baselinePushed and PutReplication.                                      *)

PushGoto(p, from, to) ==
    /\ ppc[p] = from
    /\ ppc' = [ppc EXCEPT ![p] = to]
    /\ UNCHANGED <<vars, readVars>>

\* The signer is resolved but, unlike in baselineWrite, not looked up in the
\* trust set; confirmed_at is the clock of this moment.
PushStart(p) ==
    /\ PushGoto(p, "idle", "loading")
    /\ pkey' \in {[pkey EXCEPT ![p] = k] : k \in Keys}
    /\ claim' = [claim EXCEPT ![p].at = Clock]
    /\ UNCHANGED <<replSig, replDoc>>

\* What a push records of the chain it loaded.
Recorded(rs) == HeadAnchor(rs)

\* Load without the lock, and Verify without the earlier anchor.
PushLoad(p) ==
    \/ /\ chain # << >>
       /\ Verifies(chain)
       /\ PushGoto(p, "loading", "putSig")
       /\ claim' = [claim EXCEPT ![p].length = Recorded(chain).length,
                                 ![p].head = Recorded(chain).head]
       /\ UNCHANGED <<replSig, replDoc, pkey>>
    \/ /\ chain = << >> \/ ~Verifies(chain)
       /\ PushGoto(p, "loading", "refused")
       /\ UNCHANGED <<replSig, replDoc, pkey, claim>>

PushSig(p) ==
    /\ PushGoto(p, "putSig", "putDoc")
    /\ replSig' = [doc |-> claim[p], key |-> pkey[p]]
    /\ UNCHANGED <<replDoc, pkey, claim>>

PushDoc(p) ==
    /\ PushGoto(p, "putDoc", "done")
    /\ replDoc' = claim[p]
    /\ UNCHANGED <<replSig, pkey, claim>>

PushAbort(p) ==
    /\ \E from \in PushSteps : PushGoto(p, from, "killed")
    /\ UNCHANGED <<replSig, replDoc, pkey, claim>>

-----------------------------------------------------------------------------
(* baselineStatus, baselineVerify and replicationStatusFor.                *)

ReadGoto(q, from, to) ==
    /\ qpc[q] = from
    /\ qpc' = [qpc EXCEPT ![q] = to]
    /\ UNCHANGED <<vars, replSig, replDoc, pushVars>>

ReadStart(q) ==
    /\ ReadGoto(q, "idle", "first")
    /\ UNCHANGED <<first, second, qdoc, anchors>>

ReadFirst(q) ==
    /\ ReadGoto(q, "first", IF chain = << >> THEN "done" ELSE "second")
    /\ first' = [first EXCEPT ![q] = chain]
    /\ UNCHANGED <<second, qdoc, anchors>>

ReadSecond(q) ==
    /\ ReadGoto(q, "second", "doc")
    /\ second' = [second EXCEPT ![q] = chain]
    /\ UNCHANGED <<first, qdoc, anchors>>

ReadDoc(q) ==
    /\ ReadGoto(q, "doc", "sig")
    /\ qdoc' = [qdoc EXCEPT ![q] = replDoc]
    /\ UNCHANGED <<first, second, anchors>>

\* The signature, and with it the status: the run has all it will know.
ReadSig(q) ==
    /\ ReadGoto(q, "sig", "done")
    /\ anchors' = [anchors EXCEPT ![q] = AnchorOption(qdoc[q], replSig)]
    /\ UNCHANGED <<first, second, qdoc>>

-----------------------------------------------------------------------------
Push(p) == PushLoad(p) \/ PushSig(p) \/ PushDoc(p)

ReadOn(q) == ReadFirst(q) \/ ReadSecond(q) \/ ReadDoc(q) \/ ReadSig(q)

NextR ==
    \/ Next /\ UNCHANGED replVars
    \/ \E p \in Pushers : PushStart(p) \/ Push(p) \/ PushAbort(p)
    \/ \E q \in Readers : ReadStart(q) \/ ReadOn(q)

SpecR == InitR /\ [][NextR]_<<vars, replVars>>

-----------------------------------------------------------------------------
(* Properties.                                                             *)

\* An anchor is true of a chain: its length is reached, by its own head.
TrueOf(a, rs) == a.length \in DOMAIN rs /\ Hash(rs[a.length]) = a.head

\* Whatever pushes and appends race, and wherever a push stops, a recorded
\* anchor that authenticates is true of the chain on disk (PutReplication's
\* two writes, with no lock, against Append).
AnchorIsTrue == \A a \in AnchorOption(replDoc, replSig) : TrueOf(a, chain)

\* `baseline verify` reports a clean, complete chain only for a chain whose
\* very head a push run with a trusted key has recorded, however its reads
\* interleave with appends and pushes.
CleanIsPushed ==
    \A q \in Readers :
        qpc[q] = "done" /\ VerifyExit(first[q], second[q], anchors[q]) = 0 =>
            \E p \in Pushers :
                /\ pkey[p] \in Trusted
                /\ ppc[p] \in {"putDoc", "done", "killed"}
                /\ AnchorOf(claim[p]) = HeadAnchor(first[q])

\* chain.go:94 says of ErrTruncated that entries were removed from the end.
\* Nothing here ever removes one.
\* TLC refutes it (README, section 6).
TruncationIsReal ==
    \A q \in Readers :
        qpc[q] = "done" => VerifyError(first[q], anchors[q]) # "ErrTruncated"
=============================================================================
