---------------------------- MODULE BundleVerify ----------------------------
(***************************************************************************)
(* What internal/bundle makes of an indicator bundle: the delegation the   *)
(* root keys sign, the bundle an online key signs, and the floor that says *)
(* how far this host has got.  Verify is a pure function of the bytes, the *)
(* floor and the time.                                                     *)
(*                                                                         *)
(* A signature is the key that made it and the document it covers, so one  *)
(* over other bytes simply does not match.  A digest is a name of its own; *)
(* a bundle names its predecessor's.                                       *)
(***************************************************************************)
EXTENDS Integers, FiniteSets, Sequences

CONSTANTS
    Roots,          \* the root keys this build carries
    Threshold,      \* how many of them must sign a delegation
    Generation,     \* the generation of that root set
    MaxSilence,     \* how long without news before it is remarked on
    Absent,         \* a file that could not be found
    NoFloor         \* the floor of a host that never accepted a bundle

ASSUME RootsAssumption ==
    /\ IsFiniteSet(Roots)
    /\ Threshold \in Nat /\ Threshold >= 2
    /\ MaxSilence \in Nat

-----------------------------------------------------------------------------
(* Mistakes a change of this code could make.  No definition uses them:    *)
(* they stand in for the definition they resemble when the checks are      *)
(* checked.                                                                *)

\* The version compared, the serial forgotten.
SerialUnchecked(del, floor) == TRUE

\* The predecessor's digest carried over into the next floor.
FloorKeepsDigest(a, floor, t) ==
    [version    |-> a.bundle.version,
     serial     |-> a.del.serial,
     digest     |-> IF floor = NoFloor THEN a.bundle.digest ELSE floor.digest,
     indicators |-> a.bundle.indicators,
     accepted   |-> t]

-----------------------------------------------------------------------------
(* VerifyDelegation and ValidateDelegation.                                *)

\* A key's window lies inside the delegation's; a retirement names no key.
WellFormed(del) ==
    /\ del.serial >= 1
    /\ del.retired <=> del.keys = {}
    /\ \A k \in del.keys : k.from < k.until /\ k.until <= del.until

\* Every signature is over this document by a root key of its own: one bad
\* signature refuses the lot, and signers are counted, not signatures.
SignedByRoots(del, signatures) ==
    /\ \A i \in DOMAIN signatures :
           signatures[i].of = del /\ signatures[i].by \in Roots
    /\ \A i, j \in DOMAIN signatures :
           signatures[i].by = signatures[j].by => i = j
    /\ Len(signatures) >= Threshold

DelegationVerifies(a) ==
    /\ SignedByRoots(a.del, a.signatures)
    /\ WellFormed(a.del)
    /\ a.del.generation = Generation

ActiveKeys(del, t) == {k \in del.keys : k.from <= t /\ t < k.until}

\* A superseded delegation stays validly signed: only its serial dates it.
SerialAllowed(del, floor) == floor = NoFloor \/ del.serial >= floor.serial

\* Everything Verify asks of the delegation before it looks at a bundle.
Delegates(a, floor, t) ==
    /\ a.del # Absent
    /\ DelegationVerifies(a)
    /\ SerialAllowed(a.del, floor)
    /\ ~a.del.retired
    /\ t < a.del.until
    /\ ActiveKeys(a.del, t) # {}

-----------------------------------------------------------------------------
(* The bundle: its signature, the anti-rollback floor, the count.          *)

\* The predecessor the first bundle names: 64 zeros.
GenesisPrev == "genesis"

SignedOnline(a, t) ==
    /\ a.bundleSig # Absent
    /\ a.bundleSig.of = a.bundle
    /\ \E k \in ActiveKeys(a.del, t) : k.key = a.bundleSig.by

\* Never older than the floor, never a second bundle of the floor's version,
\* and the next one must name the floor's digest as its predecessor.
VersionAllowed(b, floor) ==
    \/ floor = NoFloor
    \/ floor.version = 0
    \/ /\ b.version >= floor.version
       /\ b.version = floor.version => b.digest = floor.digest
       /\ b.version = floor.version + 1 => b.prev = floor.digest

\* Only the first bundle has no predecessor.
WellLinked(b) == b.version >= 1 /\ (b.version = 1 <=> b.prev = GenesisPrev)

BundleAllowed(a, floor, t) ==
    /\ SignedOnline(a, t)
    /\ WellLinked(a.bundle)
    /\ VersionAllowed(a.bundle, floor)
    /\ a.bundle.indicators > 0

-----------------------------------------------------------------------------
(* Verify.                                                                 *)

State(a, floor, t) ==
    IF a.del = Absent /\ a.bundle = Absent THEN "unavailable"
    ELSE IF ~Delegates(a, floor, t) THEN "refused"
    ELSE IF a.bundle = Absent THEN "unavailable"
    ELSE IF ~BundleAllowed(a, floor, t) THEN "refused"
    ELSE IF t >= a.bundle.until THEN "expired"
    ELSE "active"

\* An expired bundle still finds known-bad things.
UsableIndicators(state) == state \in {"active", "expired"}

\* What Verify remarks on beside an active state: any of it makes coverage
\* incomplete.
Gaps(a, floor, t) ==
    IF floor = NoFloor THEN {}
    ELSE {g \in {"skipped", "dropped", "silence"} :
             \/ g = "skipped" /\ floor.version > 0 /\ a.bundle.version > floor.version + 1
             \/ g = "dropped" /\ floor.indicators > a.bundle.indicators
             \/ g = "silence" /\ t - floor.accepted > MaxSilence}

FloorAdvances(a, floor, t) ==
    /\ State(a, floor, t) = "active"
    /\ \/ floor = NoFloor
       \/ a.bundle.version > floor.version
       \/ a.del.serial > floor.serial

Larger(m, n) == IF m > n THEN m ELSE n

\* The floor to persist when it advances.
NextFloor(a, floor, t) ==
    [version    |-> IF floor = NoFloor THEN a.bundle.version
                    ELSE Larger(a.bundle.version, floor.version),
     serial     |-> IF floor = NoFloor THEN a.del.serial
                    ELSE Larger(a.del.serial, floor.serial),
     digest     |-> a.bundle.digest,
     indicators |-> a.bundle.indicators,
     accepted   |-> t]
=============================================================================
