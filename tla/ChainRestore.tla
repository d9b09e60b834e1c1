---------------------------- MODULE ChainRestore ----------------------------
(***************************************************************************)
(* ChainReplication on a host whose chain.log can be put back to an older  *)
(* copy: a backup restored, a snapshot rolled back, the file deleted.      *)
(* Entries leave the end of the chain, and what is left still verifies;    *)
(* only the recorded anchor can tell.  The file is replaced only after a   *)
(* push has been recorded, and at most MaxRestores times.                  *)
(***************************************************************************)
EXTENDS ChainReplication

CONSTANT MaxRestores    \* bound: how often the file is put back

ASSUME RestoresAssumption == MaxRestores \in Nat

VARIABLES
    restores,   \* how often the file has been put back
    last,       \* history: the push that was the last to be recorded in full
    owed        \* history: the anchors each reader must hold the chain to

varsX == <<vars, replVars, restores, last, owed>>

\* The anchor the last recorded push confirmed, with a trusted key.
Confirmed == {AnchorOf(claim[p]) : p \in {o \in last : pkey[o] \in Trusted}}

InitX ==
    /\ InitR
    /\ restores = 0
    /\ last = {}
    /\ owed = [q \in Readers |-> {}]

\* Not a program step: the file becomes an older version of itself.
Restore ==
    /\ restores < MaxRestores
    /\ \E p \in Pushers : ppc[p] = "done"
    /\ \E n \in 0..(Len(chain) - 1) : chain' = SubSeq(chain, 1, n)
    /\ restores' = restores + 1
    /\ UNCHANGED <<sigs, docs, lock, world, pc, locals, replVars>>

\* A reader that has begun and has not read the document.
Unread == {"first", "second", "doc"}

\* The push this step records in full, if it is one.
Finishing == {p \in Pushers : ppc[p] # "done" /\ ppc'[p] = "done"}

\* A reader is owed what is confirmed when it begins, unless another push is
\* recorded before the reader has read the document.
NextX ==
    /\ \/ NextR /\ UNCHANGED restores
       \/ Restore
    /\ last' = IF Finishing = {} THEN last ELSE Finishing
    /\ owed' = [q \in Readers |->
                    CASE qpc[q] = "idle" -> Confirmed'
                      [] qpc[q] \in Unread /\ Finishing # {} -> {}
                      [] OTHER -> owed[q]]

SpecX == InitX /\ [][NextX]_varsX

-----------------------------------------------------------------------------
(* Properties.                                                             *)

\* A chain that `baseline verify` reports clean holds the entry that the last
\* push recorded before it began had confirmed, unless another push was
\* recorded while it read: no restore, no append and no push that is still at
\* work makes the loss look complete.  A push that is recorded after a restore
\* confirms what is left, and what it confirms is what a reader is owed.
\* replication.go:43 says it of every push: "there is no edit to this file
\* that makes a truncated chain look complete without also producing a
\* critical".
CleanIsWhole ==
    \A q \in Readers :
        qpc[q] = "done" /\ VerifyExit(first[q], second[q], anchors[q]) = 0 =>
            \A a \in owed[q] : TrueOf(a, first[q])

\* replication.go:365 says that an anchor and a chain that disagree are a
\* critical: `baseline status` does not exit clean over a lost entry.
\* TLC refutes it (README, section 6).
LossIsReported ==
    \A q \in Readers :
        qpc[q] = "done" /\ StatusExit(first[q], second[q], anchors[q]) = 0 =>
            \A a \in owed[q] : TrueOf(a, first[q])
=============================================================================
