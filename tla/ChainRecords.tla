---------------------------- MODULE ChainRecords ----------------------------
(***************************************************************************)
(* The records of the signed baseline chain (internal/chain/chain.go) and  *)
(* the order of the checks chain.Verify makes of a sequence of them.       *)
(*                                                                         *)
(* A record's hash covers its bytes, and its bytes hold the hash of its    *)
(* predecessor, so a hash commits to the whole history before it.  SHA-256 *)
(* is modelled by exactly that: Hash(r) is the sequence of the contents of *)
(* every record from the first one to r.  Two hashes are equal when the    *)
(* histories are, and no hash is the empty sequence, which stands for the  *)
(* 64 zeros of GenesisPrev.                                                *)
(***************************************************************************)
EXTENDS Integers, Sequences

CONSTANTS
    Keys,       \* every key that can sign a record
    Trusted,    \* the keys of trusted_keys: only their signatures count
    Payloads    \* the digests of the manifests a record may commit to

ASSUME KeysAssumption == Trusted \subseteq Keys /\ Keys # {}

Kinds == {"baseline", "append"}

\* What a record says of itself.  Its position in a history is its prev.
Content == [seq : Nat, time : Nat, kind : Kinds, payload : Payloads, key : Keys]

Record == [prev : Seq(Content), body : Content]

GenesisPrev == << >>

Hash(r) == Append(r.prev, r.body)

-----------------------------------------------------------------------------
(* Positioning a new entry: Link, wantPrev and wantSeq.                    *)

\* The prev_hash an entry must carry to follow the records of rs.
WantPrev(rs) == IF rs = << >> THEN GenesisPrev ELSE Hash(rs[Len(rs)])

\* The seq an entry must carry to follow the records of rs.
WantSeq(rs) == IF rs = << >> THEN 0 ELSE rs[Len(rs)].body.seq + 1

Link(rs, time, kind, payload, key) ==
    [prev |-> WantPrev(rs),
     body |-> [seq |-> WantSeq(rs), time |-> time, kind |-> kind,
               payload |-> payload, key |-> key]]

-----------------------------------------------------------------------------
(* Mistakes a change of this code could make.  No definition uses them:    *)
(* they stand in for the check they resemble when the checks are checked.  *)

\* Two entries with one predecessor left to the sequence check.
NoForkUnchecked(rs) == TRUE

\* An anchor compared by its length alone.
ForkedByNothing(rs, anchor) == FALSE

-----------------------------------------------------------------------------
(* The checks of Verify.                                                   *)

AllTrusted(rs) == \A i \in DOMAIN rs : rs[i].body.key \in Trusted

NoRepeatedRecord(rs) ==
    \A i, j \in DOMAIN rs : Hash(rs[i]) = Hash(rs[j]) => i = j

NoFork(rs) == \A i, j \in DOMAIN rs : rs[i].prev = rs[j].prev => i = j

SeqContiguous(rs) == \A i \in DOMAIN rs : rs[i].body.seq = i - 1

Linked(rs) ==
    \A i \in DOMAIN rs :
        rs[i].prev = IF i = 1 THEN GenesisPrev ELSE Hash(rs[i-1])

NoRepeatedPayload(rs) ==
    \A i, j \in DOMAIN rs : rs[i].body.payload = rs[j].body.payload => i = j

TimeOrdered(rs) ==
    \A i \in DOMAIN rs : i > 1 => rs[i-1].body.time <= rs[i].body.time

\* Verify with no anchor returns no error.
Verifies(rs) ==
    /\ AllTrusted(rs)
    /\ NoRepeatedRecord(rs)
    /\ NoFork(rs)
    /\ SeqContiguous(rs)
    /\ Linked(rs)
    /\ NoRepeatedPayload(rs)
    /\ TimeOrdered(rs)

-----------------------------------------------------------------------------
(* Anchors: a length and the hash of the record at that length.            *)

HeadAnchor(rs) == [length |-> Len(rs), head |-> WantPrev(rs)]

TruncatedBy(rs, anchor) == anchor.length > Len(rs)

ForkedBy(rs, anchor) ==
    /\ anchor.length \in DOMAIN rs
    /\ Hash(rs[anchor.length]) # anchor.head

\* The check that fails first, in the order Verify makes them; every check
\* has its own sentinel, because each calls for a different response.
VerifyError(rs, anchors) ==
    LET checks == << <<"ErrSignature", AllTrusted(rs)>>,
                     <<"ErrReplay",    NoRepeatedRecord(rs)>>,
                     <<"ErrFork",      NoFork(rs)>>,
                     <<"ErrSequence",  SeqContiguous(rs)>>,
                     <<"ErrPrevHash",  Linked(rs)>>,
                     <<"ErrReplay",    NoRepeatedPayload(rs)>>,
                     <<"ErrTime",      TimeOrdered(rs)>>,
                     <<"ErrTruncated", \A a \in anchors : ~TruncatedBy(rs, a)>>,
                     <<"ErrFork",      \A a \in anchors : ~ForkedBy(rs, a)>> >>
        failed == {i \in DOMAIN checks : ~checks[i][2]}
    IN  IF failed = {} THEN "ok"
        ELSE checks[CHOOSE i \in failed : \A j \in failed : i <= j][1]
=============================================================================
