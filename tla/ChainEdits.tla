----------------------------- MODULE ChainEdits -----------------------------
(***************************************************************************)
(* What chain.Verify says of a chain file that somebody changed.  A        *)
(* genuine chain grows record by record; then one edit is made to it, of   *)
(* each of the kinds the header of chain.go tells apart, and Verify must   *)
(* name the one that was made.                                             *)
(***************************************************************************)
EXTENDS ChainRecords, SequencesExt

CONSTANTS
    MaxLength,  \* bound: records in the genuine chain
    MaxTime     \* bound: timestamps are 0..MaxTime

ASSUME EditBounds == MaxLength \in Nat /\ MaxTime \in Nat

VARIABLES
    genuine,    \* the chain as it was written
    file,       \* the chain as it is now
    edit        \* what was done to it

editVars == <<genuine, file, edit>>

EditsInit ==
    /\ genuine = << >>
    /\ file = << >>
    /\ edit = "none"

\* The bodies a holder of a key can sign at a given position.
Bodies(seq, signers) ==
    [seq : {seq}, time : 0..MaxTime, kind : {"append"}, payload : Payloads, key : signers]

Used(rs) == {rs[i].body.payload : i \in DOMAIN rs}

Grow ==
    /\ edit = "none"
    /\ Len(file) < MaxLength
    /\ \E b \in Bodies(Len(file), Trusted) :
           LET next == Append(file, [prev |-> WantPrev(file), body |-> b])
           IN  Verifies(next) /\ file' = next /\ genuine' = next
    /\ UNCHANGED edit

Edit(name, changed) ==
    /\ edit = "none"
    /\ edit' = name
    /\ file' = changed
    /\ UNCHANGED genuine

\* Entries leave the end of the file.
Truncate == \E n \in 0..(Len(file) - 1) : Edit("truncate", SubSeq(file, 1, n))

\* An entry with a successor leaves the file.
RemoveOne == \E i \in 1..(Len(file) - 1) : Edit("remove", RemoveAt(file, i))

\* A record is there twice.
Duplicate ==
    \E i \in DOMAIN file, at \in 1..(Len(file) + 1) :
        Edit("duplicate", InsertAt(file, at, file[i]))

\* Two records trade places.
Swap ==
    \E i, j \in DOMAIN file :
        /\ i < j
        /\ Edit("swap", ReplaceAt(ReplaceAt(file, i, file[j]), j, file[i]))

\* Another record with the predecessor of one that is there, anywhere.
Fork ==
    \E i \in DOMAIN file, at \in 1..(Len(file) + 1) :
        \E b \in Bodies(i - 1, Trusted) :
            /\ b # file[i].body
            /\ Edit("fork", InsertAt(file, at, [prev |-> file[i].prev, body |-> b]))

\* A record is signed again with other contents that would be in order.
Alter ==
    \E i \in DOMAIN file : \E b \in Bodies(i - 1, Trusted) :
        /\ b # file[i].body
        /\ b.payload \notin Used(RemoveAt(file, i))
        /\ i > 1 => file[i-1].body.time <= b.time
        /\ Edit("alter", ReplaceAt(file, i, [prev |-> file[i].prev, body |-> b]))

\* A linked, signed entry commits once more to a payload already committed.
Replay ==
    \E b \in Bodies(Len(file), Trusted) :
        /\ b.payload \in Used(file)
        /\ Edit("replay", Append(file, [prev |-> WantPrev(file), body |-> b]))

\* A linked, signed entry carries a time before its predecessor's.
Backdate ==
    \E b \in Bodies(Len(file), Trusted) :
        /\ b.payload \notin Used(file)
        /\ file # << >> /\ b.time < Last(file).body.time
        /\ Edit("backdate", Append(file, [prev |-> WantPrev(file), body |-> b]))

\* A linked entry is signed by a key nobody trusts.
Forge ==
    \E b \in Bodies(Len(file), Keys \ Trusted) :
        Edit("forge", Append(file, [prev |-> WantPrev(file), body |-> b]))

EditsNext ==
    \/ Grow \/ Truncate \/ RemoveOne \/ Duplicate \/ Swap \/ Fork
    \/ Alter \/ Replay \/ Backdate \/ Forge

EditsSpec == EditsInit /\ [][EditsNext]_editVars

-----------------------------------------------------------------------------
(* Properties.                                                             *)

\* The sentinel each edit is documented to raise, without an anchor
\* (chain.go:11-33 and the comments on the sentinels and on Seq).
Named ==
    [none |-> "ok", truncate |-> "ok", remove |-> "ErrSequence",
     duplicate |-> "ErrReplay", swap |-> "ErrSequence", fork |-> "ErrFork",
     alter |-> "ErrPrevHash", replay |-> "ErrReplay",
     backdate |-> "ErrTime", forge |-> "ErrSignature"]

\* Verify names the edit that was made, whichever record it was made to; an
\* altered last record and a shortened file are internally perfect.
EditIsNamed ==
    VerifyError(file, {}) =
        IF edit = "alter" /\ Linked(file) THEN "ok" ELSE Named[edit]

\* With an anchor of the chain as it was written no edit at all goes unseen,
\* and a chain that only grew past an older anchor is not accused.
AnchorSeesEveryEdit ==
    /\ edit # "none" => VerifyError(file, {HeadAnchor(genuine)}) # "ok"
    /\ edit = "none" =>
           \A n \in DOMAIN file :
               VerifyError(file, {HeadAnchor(SubSeq(file, 1, n))}) = "ok"

=============================================================================
