--------------------------- MODULE RecoveryBundle ---------------------------
(***************************************************************************)
(* The offline recovery utility (operations/recovery.py): operators who    *)
(* create a bundle at one path, and restore it into one directory, while   *)
(* any of them may be stopped between two steps.                           *)
(***************************************************************************)
EXTENDS Naturals, FiniteSets

CONSTANTS Creators, Restorers,  \* invocations of the utility
          Pieces                \* what a bundle unpacks to, the manifest among it

RecoveryBundleAssumption ==
    /\ IsFiniteSet(Creators) /\ IsFiniteSet(Restorers) /\ IsFiniteSet(Pieces)
    /\ "none" \notin Creators \cup Restorers /\ Pieces # {}

VARIABLES
    bundle,     \* the file at the path: who wrote it, and whether to its end
    creator,    \* where each create is
    restorer,   \* where each restore is
    installed   \* per piece in the output directory, the restore it is from

vars == <<bundle, creator, restorer, installed>>

NoBundle == [by |-> "none", whole |-> FALSE]

TypeOK ==
    /\ bundle \in [by : Creators \cup {"none"}, whole : BOOLEAN]
    /\ creator \in [Creators -> {"new", "staging", "writing", "created", "refused", "failed",
                                 "killed"}]
    /\ restorer \in [Restorers -> {"new", "reading", "moving", "restored", "refused", "killed"}]
    /\ installed \in [Pieces -> Restorers \cup {"none"}]

Init ==
    /\ bundle = NoBundle
    /\ creator = [c \in Creators |-> "new"]
    /\ restorer = [r \in Restorers |-> "new"]
    /\ installed = [p \in Pieces |-> "none"]

DirectoryEmpty == \A p \in Pieces : installed[p] = "none"

CreatorTo(c, place) == creator' = [creator EXCEPT ![c] = place]

RestorerTo(r, place) == restorer' = [restorer EXCEPT ![r] = place]

-----------------------------------------------------------------------------
(* create_bundle refuses a path that is taken, then snapshots the database *)
(* and packs the archive in a directory of its own.                        *)
StartBundle(c) ==
    /\ creator[c] = "new"
    /\ CreatorTo(c, IF bundle = NoBundle THEN "staging" ELSE "refused")
    /\ UNCHANGED <<bundle, restorer, installed>>

StagingFails(c) ==
    /\ creator[c] = "staging"
    /\ CreatorTo(c, "failed")
    /\ UNCHANGED <<bundle, restorer, installed>>

(* O_CREAT | O_EXCL: the path may have been taken meanwhile.               *)
OpenOutput(c) ==
    /\ creator[c] = "staging"
    /\ IF bundle = NoBundle
       THEN CreatorTo(c, "writing") /\ bundle' = [by |-> c, whole |-> FALSE]
       ELSE CreatorTo(c, "refused") /\ UNCHANGED bundle
    /\ UNCHANGED <<restorer, installed>>

WriteBundle(c) ==
    /\ creator[c] = "writing"
    /\ \/ CreatorTo(c, "created") /\ bundle' = [bundle EXCEPT !.whole = TRUE]
       \/ CreatorTo(c, "failed") /\ bundle' = NoBundle
    /\ UNCHANGED <<restorer, installed>>

KillCreator(c) ==
    /\ creator[c] \in {"staging", "writing"}
    /\ CreatorTo(c, "killed")
    /\ UNCHANGED <<bundle, restorer, installed>>

-----------------------------------------------------------------------------
(* Mutant: the directory need not be empty.                                *)
StartRestoreAnywhere(r) ==
    /\ restorer[r] = "new" /\ \A q \in Restorers : restorer[q] \notin {"reading", "moving"}
    /\ RestorerTo(r, IF bundle # NoBundle THEN "reading" ELSE "refused")
    /\ UNCHANGED <<bundle, creator, installed>>

(* restore_bundle refuses a directory with anything in it.  Operators      *)
(* restore into it one after another.                                      *)
StartRestore(r) ==
    /\ restorer[r] = "new" /\ \A q \in Restorers : restorer[q] \notin {"reading", "moving"}
    /\ RestorerTo(r, IF DirectoryEmpty /\ bundle # NoBundle THEN "reading" ELSE "refused")
    /\ UNCHANGED <<bundle, creator, installed>>

(* The file must decrypt to its tag, unpack and hold an intact database;   *)
(* a bundle that is not whole does not.                                    *)
VerifyBundle(r) ==
    /\ restorer[r] = "reading"
    /\ \/ bundle.whole /\ RestorerTo(r, "moving")
       \/ RestorerTo(r, "refused")
    /\ UNCHANGED <<bundle, creator, installed>>

(* The pieces are moved one by one, each over what has its name.           *)
MovePiece(r) ==
    /\ restorer[r] = "moving"
    /\ \E p \in Pieces : installed[p] # r /\ installed' = [installed EXCEPT ![p] = r]
    /\ RestorerTo(r, IF \A p \in Pieces : installed'[p] = r THEN "restored" ELSE "moving")
    /\ UNCHANGED <<bundle, creator>>

KillRestorer(r) ==
    /\ restorer[r] \in {"reading", "moving"}
    /\ RestorerTo(r, "killed")
    /\ UNCHANGED <<bundle, creator, installed>>

Next ==
    \/ \E c \in Creators :
        StartBundle(c) \/ StagingFails(c) \/ OpenOutput(c) \/ WriteBundle(c) \/ KillCreator(c)
    \/ \E r \in Restorers :
        StartRestore(r) \/ VerifyBundle(r) \/ MovePiece(r) \/ KillRestorer(r)

Spec == Init /\ [][Next]_vars

-----------------------------------------------------------------------------
(* A bundle reported as created stays at its path, whole, whoever tries to *)
(* create another one there; nothing is installed from a bundle that is    *)
(* not whole; and a restore reported as done has all its pieces in the     *)
(* directory (create_bundle, restore_bundle).                              *)
BundlesSafe ==
    /\ \A c \in Creators : creator[c] = "created" => bundle = [by |-> c, whole |-> TRUE]
    /\ DirectoryEmpty \/ bundle.whole
    /\ \A r \in Restorers :
          restorer[r] = "restored" => \A p \in Pieces : installed[p] = r

(* A piece that is in the directory stays and is not written over, by the  *)
(* restore that moved it there, by one that was stopped half-way or by a   *)
(* later one (restore_bundle refuses a directory that is not empty).       *)
InstalledStays ==
    [][\A p \in Pieces : installed[p] # "none" => installed'[p] = installed[p]]_vars
=============================================================================
