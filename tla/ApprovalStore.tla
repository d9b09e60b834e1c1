---------------------------- MODULE ApprovalStore ----------------------------
(***************************************************************************)
(* The approval store of the gate (internal/gate/approve.go): one file per *)
(* pkgbase in a directory that must be private, each holding the digest of *)
(* the recipe somebody approved.  A recipe digest commits to the set of    *)
(* files it was taken over and to the bytes of each, so it is modelled as  *)
(* that function.                                                          *)
(***************************************************************************)
EXTENDS Naturals

CONSTANTS
    PkgBases,     \* the pkgbases recipes are filed under
    Files,        \* names a recipe can give to files beside its PKGBUILD
    Contents      \* what a file can hold

VARIABLES
    approvals,    \* pkgbase -> the record in its slot
    storeDir      \* what checkDirSafe would find

storeVars == <<approvals, storeDir>>

Pkgbuild == "PKGBUILD"
NoRecord == [kind |-> "none"]
Damaged == [kind |-> "damaged"]
Approval(digest) == [kind |-> "approval", digest |-> digest]
RecipeNames == {Pkgbuild} \union Files

StoreInit ==
    /\ approvals = [p \in PkgBases |-> NoRecord]
    /\ storeDir \in {"absent", "unsafe"}

-----------------------------------------------------------------------------

(* Lookup's status.  Only a record that was read whole can approve; a store  *)
(* that cannot be trusted, or a record that is none, leaves it undetermined. *)
Status(p, digest) ==
    CASE storeDir = "absent" -> "never-approved"
      [] storeDir = "unsafe" -> "could-not-determine"
      [] OTHER ->
            CASE approvals[p] = NoRecord -> "never-approved"
              [] approvals[p] = Damaged -> "could-not-determine"
              [] approvals[p] = Approval(digest) -> "approved"
              [] OTHER -> "recipe-changed"

Statuses ==
    {"approved", "recipe-changed", "never-approved", "could-not-determine"}

(* The directory is made when it is absent and refused when it is not      *)
(* private; the record is renamed over whatever the slot holds.            *)
Approve(p, digest) ==
    /\ storeDir # "unsafe"
    /\ storeDir' = "private"
    /\ approvals' = [approvals EXCEPT ![p] = Approval(digest)]

(* A refused directory, a full disk: nothing is written, though ensureDir may *)
(* have made the directory by then.                                           *)
ApproveFails ==
    /\ storeDir' \in IF storeDir = "absent" THEN {"absent", "private"} ELSE {storeDir}
    /\ UNCHANGED approvals

(* No command calls Revoke; the package offers it. *)
Revoke(p) ==
    /\ approvals[p] # NoRecord
    /\ approvals' = [approvals EXCEPT ![p] = NoRecord]
    /\ UNCHANGED storeDir

(* A record is edited into something that is none, or another format. *)
Damage(p) ==
    /\ approvals[p] \notin {NoRecord, Damaged}
    /\ approvals' = [approvals EXCEPT ![p] = Damaged]
    /\ UNCHANGED storeDir

(* The directory becomes writable for others, or stops being so. *)
ChangeMode ==
    /\ storeDir # "absent"
    /\ storeDir' = IF storeDir = "private" THEN "unsafe" ELSE "private"
    /\ UNCHANGED approvals
=============================================================================
